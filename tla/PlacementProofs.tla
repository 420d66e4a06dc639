-------------------------- MODULE PlacementProofs --------------------------
(***************************************************************************)
(* Proofs about Placement, for all monitors, offsets, requests and         *)
(* distances of 16 bits.  What monitor_clamp_client_rect returns is stated *)
(* in lemmas about Clamp; type correctness makes them applicable in every  *)
(* step, and the action properties follow.                                 *)
(***************************************************************************)
EXTENDS Placement, TLAPS

Views == [rect : Rects, shown : Windows]

\* Conversions end in the range of their type, and change nothing there.
LEMMA Conversions ==
  ASSUME NEW n \in Int
  PROVE  /\ Unsigned(n) \in Sizes /\ Signed(n) \in Positions
         /\ n \in Sizes => Unsigned(n) = n
         /\ n \in Positions => Signed(n) = n
  BY DEF Unsigned, Signed, Sizes, Positions

\* Clamp returns a rectangle.
LEMMA ClampRect ==
  ASSUME NEW span \in Rects, NEW length \in Lengths, NEW margin \in Margins
  PROVE  Clamp(span, length, margin) \in Rects
  <1> DEFINE beyond == Beyond(span, length, margin)
             at == IF beyond > 0
                   THEN IF beyond - (span.at - margin.near) > 0 THEN margin.near ELSE span.at - beyond
                   ELSE IF span.at < margin.near THEN margin.near ELSE span.at
             size == IF beyond > 0 /\ beyond - (span.at - margin.near) > 0
                     THEN span.size - (beyond - (span.at - margin.near)) ELSE span.size
  <1>1. /\ span.at \in Int /\ span.size \in Int /\ margin.near \in Int /\ margin.far \in Int
        /\ length \in Int
    BY DEF Rects, Margins, Positions, Sizes, Lengths
  <1>2. beyond \in Int
    BY <1>1, Conversions DEF Beyond, Usable, Sizes
  <1>3. at \in Int /\ size \in Int
    BY <1>1, <1>2
  <1>4. Clamp(span, length, margin) = [at |-> Signed(at), size |-> Unsigned(size)]
    BY DEF Clamp
  <1> QED BY <1>3, <1>4, Conversions DEF Rects

\* Clamp never enlarges a rectangle, whatever the margins are.
LEMMA ClampSmaller ==
  ASSUME NEW span \in Rects, NEW length \in Lengths, NEW margin \in Margins
  PROVE  Clamp(span, length, margin).size <= span.size
  <1> DEFINE inner  == Usable(length, margin)
             beyond == span.at + span.size - margin.near - inner
             excess == beyond - (span.at - margin.near)
  <1>1. /\ span.at \in Int /\ span.size \in Sizes /\ margin.near \in Int
        /\ length - (margin.near + margin.far) \in Int
    BY DEF Rects, Margins, Positions, Sizes, Lengths
  <1>2. inner \in Sizes
    BY <1>1, Conversions DEF Usable
  <1>3. excess = span.size - inner
    BY <1>1, <1>2 DEF Sizes
  <1>4. Clamp(span, length, margin).size
          = Unsigned(IF beyond > 0 /\ excess > 0 THEN span.size - excess ELSE span.size)
    BY DEF Clamp, Beyond
  <1>5. CASE beyond > 0 /\ excess > 0
    <2>1. span.size - excess = inner
      BY <1>1, <1>2, <1>3 DEF Sizes
    <2> HIDE DEF inner, beyond, excess
    <2>2. Clamp(span, length, margin).size = inner
      BY <1>2, <1>4, <1>5, <2>1, Conversions DEF Sizes
    <2> QED BY <1>1, <1>2, <1>3, <1>5, <2>2 DEF Sizes
  <1>6. CASE ~(beyond > 0 /\ excess > 0)
    <2> HIDE DEF inner, beyond, excess
    <2>1. Clamp(span, length, margin).size = span.size
      BY <1>1, <1>4, <1>6, Conversions DEF Sizes
    <2> QED BY <1>1, <2>1 DEF Sizes
  <1> QED BY <1>5, <1>6

\* With offsets that leave something of the monitor, what Clamp returns begins
\* beyond the near margin, and ends before the far margin if it began there.
LEMMA ClampFits ==
  ASSUME NEW span \in Rects, NEW length \in Lengths, NEW margin \in Margins,
         margin.near <= length - margin.far
  PROVE  LET fit == Clamp(span, length, margin)
         IN /\ fit.at >= margin.near
            /\ span.at >= margin.near => fit.at + fit.size <= length - margin.far
  <1> DEFINE inner  == length - (margin.near + margin.far)
             beyond == span.at + span.size - margin.near - inner
             excess == beyond - (span.at - margin.near)
  <1>1. /\ span.at \in Positions /\ span.size \in Sizes
        /\ margin.near \in Lengths /\ margin.far \in Lengths
        /\ inner \in Lengths
    BY DEF Rects, Margins, Sizes, Lengths
  <1>2. Beyond(span, length, margin) = beyond
    <2>1. Usable(length, margin) = inner
      BY <1>1, Conversions DEF Usable, Sizes, Lengths
    <2> QED BY <2>1 DEF Beyond
  <1>3. excess = span.size - inner
    BY <1>1 DEF Positions, Sizes, Lengths
  <1>4. CASE beyond > 0 /\ excess > 0
    <2>1. span.size - excess = inner
      BY <1>1, <1>3 DEF Positions, Sizes, Lengths
    <2>2. Clamp(span, length, margin) = [at |-> margin.near, size |-> inner]
      BY <1>1, <1>2, <1>4, <2>1, Conversions DEF Clamp, Positions, Sizes, Lengths
    <2> QED BY <1>1, <1>3, <1>4, <2>2 DEF Sizes, Lengths
  <1>5. CASE beyond > 0 /\ ~(excess > 0)
    <2>1. span.at - beyond = margin.near + inner - span.size /\ span.size <= inner
      BY <1>1, <1>3, <1>5 DEF Positions, Sizes, Lengths
    <2>2. span.at - beyond \in Positions
      BY <1>1, <2>1 DEF Positions, Sizes, Lengths
    <2>3. Clamp(span, length, margin) = [at |-> span.at - beyond, size |-> span.size]
      BY <1>1, <1>2, <1>5, <2>2, Conversions DEF Clamp, Positions, Sizes, Lengths
    <2> QED BY <1>1, <2>1, <2>3 DEF Sizes, Lengths
  <1>6. CASE ~(beyond > 0)
    <2> DEFINE at == IF span.at < margin.near THEN margin.near ELSE span.at
    <2>1. at \in Positions /\ at >= margin.near
      BY <1>1 DEF Positions, Lengths
    <2>2. Clamp(span, length, margin) = [at |-> at, size |-> span.size]
      BY <1>1, <1>2, <1>6, <2>1, Conversions DEF Clamp, Positions, Sizes, Lengths
    <2>3. span.at >= margin.near => at + span.size <= margin.near + inner
      BY <1>1, <1>6 DEF Positions, Sizes, Lengths
    <2> QED BY <1>1, <2>1, <2>2, <2>3 DEF Sizes, Lengths
  <1> QED BY <1>4, <1>5, <1>6

-----------------------------------------------------------------------------

\* The monitor and the margins of a client are of 16 bits.
LEMMA MonitorTypes ==
  ASSUME TypeOK, NEW m \in DOMAIN Monitors
  PROVE  /\ Monitors[m].length \in Lengths /\ offsets[m] \in Margins
         /\ Monitors[m].length > 0 /\ Monitors[m].at \in Lengths
  BY PlacementAssumption DEF TypeOK, Lengths

\* What is asked of natwm is a rectangle.
LEMMA AskedRect ==
  ASSUME TypeOK, NEW span \in Spans, NEW parts \in SUBSET {"at", "size"}
  PROVE  Asked(span, parts) \in Rects
  BY PlacementAssumption DEF TypeOK, Asked, Hinted, Rects

\* What is left of a client by the pointer is a rectangle.
LEMMA StretchedRect ==
  ASSUME TypeOK, NEW d \in Steps
  PROVE  /\ [rect EXCEPT !.size = Unsigned(@ + d)] \in Rects
         /\ [rect EXCEPT !.at = Signed(@ + d)] \in Rects
  <1>1. rect.size + d \in Int /\ rect.at + d \in Int
    BY PlacementAssumption DEF TypeOK, Rects, Positions, Sizes
  <1> QED BY <1>1, Conversions DEF TypeOK, Rects

\* A rectangle that is fitted remains one.
LEMMA FitRect ==
  ASSUME TypeOK, monitor # NULL, NEW span \in Rects
  PROVE  Fit(span) \in Rects
  <1>1. monitor \in DOMAIN Monitors
    BY DEF TypeOK
  <1> QED BY <1>1, MonitorTypes, ClampRect DEF Fit

\* So does one that is shown, and the whole of a monitor is one.
LEMMA OnRect ==
  ASSUME TypeOK, NEW m \in DOMAIN Monitors, NEW span \in Rects
  PROVE  /\ On(m, span) \in Rects /\ On(m, span).size = span.size
         /\ Whole(m) \in Rects /\ Whole(m).size > 0
  <1>1. span.at + Monitors[m].at \in Int
    BY MonitorTypes DEF Rects, Positions, Lengths
  <1>2. On(m, span) \in Rects /\ On(m, span).size = span.size
    BY <1>1, Conversions DEF On, Rects
  <1>3. Whole(m) \in Rects /\ Whole(m).size > 0
    BY MonitorTypes DEF Whole, Rects, Lengths, Positions, Sizes
  <1> QED BY <1>2, <1>3

\* The width of a border.
LEMMA WidthSize ==
  ASSUME TypeOK
  PROVE  Width \in Sizes
  BY PlacementAssumption DEF Width, Sizes

\* A window that is configured has the border it was to have, if it has a size.
LEMMA ShownWindow ==
  ASSUME NEW window \in Windows, NEW span \in Rects, NEW width \in Sizes
  PROVE  /\ Shown(window, span, width) \in Windows
         /\ span.size # 0 => Shown(window, span, width).border = width
  BY DEF Shown, Windows, Rects

\* What update_theme leaves of a rectangle.
LEMMA BorderedRect ==
  ASSUME NEW span \in Rects, NEW length \in Lengths, NEW margin \in Margins, NEW width \in Sizes
  PROVE  Bordered(span, length, margin, width) \in Rects
  <1> DEFINE beyond == span.size + span.at + 2 * width - (Usable(length, margin) + margin.near)
  <1>1. /\ span.size \in Int /\ span.at \in Int /\ width \in Int /\ margin.near \in Int
        /\ length - (margin.near + margin.far) \in Int
    BY DEF Rects, Margins, Positions, Sizes, Lengths
  <1>2. Usable(length, margin) \in Int
    BY <1>1, Conversions DEF Usable, Sizes
  <1>3. beyond \in Int
    BY <1>1, <1>2
  <1> HIDE DEF beyond
  <1>4. Unsigned(span.size - beyond) \in Sizes
    BY <1>1, <1>3, Conversions
  <1>5. Bordered(span, length, margin, width)
          = [span EXCEPT !.size = IF beyond > 0 THEN Unsigned(span.size - beyond) ELSE span.size]
    BY DEF Bordered, beyond, Rects
  <1> QED BY <1>4, <1>5 DEF Rects

\* update_theme keeps the types, and leaves a window that has a size with the
\* border of the client, if the width it is told was that of the window.
LEMMA ThemedTypes ==
  ASSUME TypeOK, Width' \in Sizes, NEW view \in Views, NEW previous
  PROVE  /\ Themed(view, previous) \in Views
         /\ monitor # NULL /\ ~full' /\ previous # Width' /\ Themed(view, previous).rect.size > 0
              => Themed(view, previous).shown.border = Width'
         /\ monitor = NULL \/ full' \/ previous = Width' => Themed(view, previous) = view
  <1>1. CASE full' \/ previous = Width' \/ monitor = NULL
    BY <1>1 DEF Themed
  <1>2. CASE ~(full' \/ previous = Width' \/ monitor = NULL)
    <2> DEFINE cut == Bordered(view.rect, Monitors[monitor].length, offsets[monitor], Width')
               window == IF cut.size = 0 THEN view.shown
                         ELSE [at |-> view.shown.at, size |-> cut.size, border |-> Width']
    <2>1. Themed(view, previous) = [rect |-> cut, shown |-> window]
      BY <1>2 DEF Themed
    <2>2. monitor \in DOMAIN Monitors /\ view.rect \in Rects /\ view.shown \in Windows
      BY <1>2 DEF TypeOK, Views
    <2>3. cut \in Rects
      BY <2>2, MonitorTypes, BorderedRect
    <2> HIDE DEF cut
    <2>4. window \in Windows /\ (cut.size > 0 => window.border = Width')
      BY <2>2, <2>3 DEF Windows, Rects
    <2> HIDE DEF window
    <2> QED BY <1>2, <2>1, <2>3, <2>4 DEF Views
  <1> QED BY <1>1, <1>2

\* What natwm keeps of a client and shows of it, and what client_hide leaves.
LEMMA LeftTypes ==
  ASSUME TypeOK, Width' \in Sizes
  PROVE  View \in Views /\ Left \in Views
  <1>1. View \in Views
    BY DEF TypeOK, View, Views
  <1> QED BY <1>1, ThemedTypes DEF Left

\* A client is placed on a monitor with the border of its state, if it has a size.
LEMMA PlacedTypes ==
  ASSUME TypeOK, Width' \in Sizes, NEW view \in Views, NEW m \in DOMAIN Monitors
  PROVE  /\ Placed(view, m) \in Views
         /\ Placed(view, m).rect.size > 0 => Placed(view, m).shown.border = Width'
         /\ ~full /\ Placed(view, m).rect.size > 0
              => /\ Placed(view, m).shown.at = On(m, Placed(view, m).rect).at
                 /\ Placed(view, m).shown.size = Placed(view, m).rect.size
  <1> DEFINE fit  == Clamp(view.rect, Monitors[m].length, offsets[m])
             span == IF full THEN Whole(m) ELSE On(m, fit)
  <1>1. view.rect \in Rects /\ view.shown \in Windows
    BY DEF Views
  <1>2. fit \in Rects
    BY <1>1, MonitorTypes, ClampRect
  <1>3. Placed(view, m) = [rect |-> fit, shown |-> Shown(view.shown, span, Width')]
    BY DEF Placed
  <1> HIDE DEF fit
  <1>4. span \in Rects /\ (fit.size > 0 => span.size # 0)
    BY <1>2, OnRect DEF Rects, Sizes
  <1>5. On(m, fit).size = fit.size
    BY <1>2, OnRect
  <1>6. Shown(view.shown, span, Width') \in Windows
        /\ (span.size # 0 => Shown(view.shown, span, Width').border = Width')
    BY <1>1, <1>4, ShownWindow
  <1>7. span.size # 0 => /\ Shown(view.shown, span, Width').at = span.at
                         /\ Shown(view.shown, span, Width').size = span.size
    BY DEF Shown
  <1>8. ~full => span = On(m, fit)
    OBVIOUS
  <1> HIDE DEF span
  <1> QED BY <1>2, <1>3, <1>4, <1>5, <1>6, <1>7, <1>8 DEF Views

\* The states a client can begin in.
LEMMA InitTypes ==
  ASSUME Init
  PROVE  TypeOK /\ (rect.size > 0 /\ Widths.focused # 0 => Border)
  <1>1. /\ offsets \in [DOMAIN Monitors -> Margins] /\ monitor \in DOMAIN Monitors
        /\ full = FALSE /\ focused = TRUE /\ offscreen = FALSE
        /\ hidden = FALSE /\ active = TRUE /\ held = NULL
    BY PlacementAssumption DEF Init
  <1>2. /\ Monitors[monitor].length \in Lengths /\ Monitors[monitor].at \in Lengths
        /\ offsets[monitor] \in Margins /\ Widths.focused \in Sizes /\ Widths.unfocused \in Sizes
    BY <1>1, PlacementAssumption
  <1> DEFINE themed == Widths.focused # 0
             bordered(span) == Bordered(Fit(span), Monitors[monitor].length, offsets[monitor],
                                        Widths.focused)
  <1>3. PICK span \in Spans :
          /\ rect = IF themed THEN bordered(span) ELSE Fit(span)
          /\ shown = [at     |-> On(monitor, rect).at,
                      size   |-> IF rect.size = 0 THEN Fit(span).size ELSE rect.size,
                      border |-> IF themed /\ rect.size # 0 THEN Widths.focused
                                 ELSE Widths.unfocused]
    BY DEF Init
  <1>4. Fit(span) \in Rects
    BY <1>2, ClampRect, PlacementAssumption DEF Fit
  <1>5. rect \in Rects
    BY <1>2, <1>3, <1>4, BorderedRect
  <1>6. rect.at + Monitors[monitor].at \in Int
    BY <1>2, <1>5 DEF Rects, Positions, Lengths
  <1>7. On(monitor, rect).at \in Positions
    BY <1>5, <1>6, Conversions DEF On, Rects
  <1>8. shown \in Windows
    BY <1>2, <1>3, <1>4, <1>5, <1>7 DEF Windows, Rects
  <1>9. rect.size > 0 /\ Widths.focused # 0 => Border
    BY <1>1, <1>3 DEF Border, Width
  <1> QED BY <1>1, <1>5, <1>8, <1>9 DEF TypeOK

\* Monitors, margins and rectangles stay of 16 bits.
LEMMA TypeStep ==
  ASSUME TypeOK, [Next]_vars
  PROVE  TypeOK'
  <1>1. /\ shown \in Windows /\ rect \in Rects /\ 0 \in Sizes /\ Width \in Sizes
    BY WidthSize DEF TypeOK, Sizes
  <1>2. full' \in BOOLEAN => Width' \in Sizes
    BY PlacementAssumption DEF Width, Sizes
  <1>3. CASE Press \/ Release
    BY <1>3 DEF Press, Release, TypeOK, place, flags
  <1>4. ASSUME NEW d \in Steps, Drag(d) PROVE TypeOK'
    <2>1. rect' \in Rects /\ held \in DOMAIN Monitors
      BY <1>4, StretchedRect DEF Drag, TypeOK
    <2>2. On(held, rect').at \in Positions
      BY <2>1, OnRect DEF Rects
    <2> QED BY <1>4, <2>1, <2>2 DEF Drag, TypeOK, place, flags, Windows
  <1>5. ASSUME NEW d \in Steps, Resize(d) PROVE TypeOK'
    <2>1. rect' \in Rects /\ monitor \in DOMAIN Monitors
      BY <1>5, StretchedRect, FitRect DEF Resize, TypeOK
    <2>2. shown' \in Windows
      BY <1>1, <1>5, <2>1, OnRect, ShownWindow DEF Resize, Show
    <2> QED BY <1>5, <2>1, <2>2 DEF Resize, TypeOK, place, flags
  <1>6. ASSUME NEW span \in Spans, NEW parts \in SUBSET {"at", "size"}, Configure(span, parts)
        PROVE TypeOK'
    <2>1. rect' \in Rects
      BY <1>6, AskedRect, FitRect DEF Configure
    <2>2. span \in Rects
      BY PlacementAssumption
    <2>3. shown' \in Windows
      BY <1>6, <2>2 DEF Configure, TypeOK, Windows, Rects
    <2> QED BY <1>6, <2>1, <2>3 DEF Configure, TypeOK, place, flags
  <1>7. CASE SetFullscreen
    <2>1. monitor \in DOMAIN Monitors
      BY <1>7 DEF SetFullscreen, TypeOK
    <2>2. shown' \in Windows
      BY <1>1, <1>7, <2>1, OnRect, ShownWindow DEF SetFullscreen, Show, TypeOK
    <2> QED BY <1>7, <2>2 DEF SetFullscreen, TypeOK, place, flags
  <1>8. ASSUME full' \in BOOLEAN, NEW view \in Views, NEW previous, Become(Themed(view, previous))
        PROVE rect' \in Rects /\ shown' \in Windows
    BY <1>2, <1>8, ThemedTypes DEF Become, Views
  <1>9. View \in Views
    BY DEF TypeOK, View, Views
  <1>10. CASE UnsetFullscreen
    <2>1. [View EXCEPT !.shown = Shown(@, rect, Width)] \in Views
      BY <1>1, ShownWindow DEF View, Views
    <2>2. rect' \in Rects /\ shown' \in Windows
      BY <1>8, <1>10, <2>1 DEF UnsetFullscreen
    <2> QED BY <1>10, <2>2 DEF UnsetFullscreen, TypeOK, place, flags
  <1>11. CASE SetFocused \/ SetUnfocused \/ HandleMapNotify
    <2>1. full' \in BOOLEAN
      BY <1>11 DEF SetFocused, SetUnfocused, HandleMapNotify, TypeOK
    <2>2. rect' \in Rects /\ shown' \in Windows
      BY <1>1, <1>8, <1>9, <1>11, <2>1 DEF SetFocused, SetUnfocused, HandleMapNotify
    <2> QED BY <1>11, <2>2 DEF SetFocused, SetUnfocused, HandleMapNotify, TypeOK, place
  <1>12. CASE FocusElsewhere \/ Unmap
    BY <1>12 DEF FocusElsewhere, Unmap, TypeOK, place, flags
  <1>13. ASSUME NEW m \in DOMAIN Monitors \cup {NULL}, full' \in BOOLEAN,
                Become(IF m = NULL THEN Left ELSE Placed(Left, m))
         PROVE rect' \in Rects /\ shown' \in Windows
    <2>1. Left \in Views
      BY <1>2, <1>13, LeftTypes
    <2>2. (IF m = NULL THEN Left ELSE Placed(Left, m)) \in Views
      BY <1>2, <1>13, <2>1, PlacedTypes
    <2> QED BY <1>13, <2>2 DEF Become, Views
  <1>14. ASSUME NEW m \in DOMAIN Monitors \cup {NULL}, ChangeMonitor(m) PROVE TypeOK'
    <2>1. full' \in BOOLEAN
      BY <1>14 DEF ChangeMonitor, TypeOK
    <2>2. rect' \in Rects /\ shown' \in Windows
      BY <1>1, <1>13, <1>14, <2>1 DEF ChangeMonitor
    <2> QED BY <1>14, <2>2 DEF ChangeMonitor, TypeOK
  <1>15. ASSUME NEW m \in DOMAIN Monitors \cup {NULL}, Send(m) PROVE TypeOK'
    <2>1. full' \in BOOLEAN
      BY <1>15 DEF Send, TypeOK
    <2>2. rect' \in Rects /\ shown' \in Windows
      BY <1>13, <1>15, <2>1 DEF Send
    <2> QED BY <1>15, <2>2 DEF Send, TypeOK
  <1>16. CASE UNCHANGED vars
    BY <1>16 DEF vars, TypeOK
  <1> QED BY <1>3, <1>4, <1>5, <1>6, <1>7, <1>10, <1>11, <1>12, <1>14, <1>15, <1>16 DEF Next

\* So they are of 16 bits in every state: what the lemmas on Clamp suppose.
LEMMA TypeCorrect == Spec => []TypeOK
  <1>1. Init => TypeOK
    BY InitTypes
  <1>2. TypeOK /\ [Next]_vars => TypeOK'
    BY TypeStep
  <1> QED BY <1>1, <1>2, PTL DEF Spec

-----------------------------------------------------------------------------

\* Fitting a rectangle to the monitor of the client.
LEMMA FitFits ==
  ASSUME TypeOK, Sane, NEW span \in Rects
  PROVE  /\ Fit(span).at >= Near
         /\ span.at >= Near => Fit(span).at + Fit(span).size <= Far
  <1>1. monitor \in DOMAIN Monitors
    BY DEF Sane, TypeOK
  <1> QED BY <1>1, MonitorTypes, ClampFits DEF Fit, Near, Far, Sane

\* Where a client is after it has been resized.
LEMMA ResizeFits ==
  ASSUME TypeOK, Sane, NEW d \in Steps, Resize(d)
  PROVE  /\ rect'.at >= Near
         /\ rect.at >= Near => rect'.at + rect'.size <= Far
  <1> DEFINE span == [rect EXCEPT !.size = Unsigned(@ + d)]
  <1>1. span \in Rects
    BY StretchedRect
  <1>2. rect' = Fit(span)
    BY DEF Resize
  <1>3. span.at = rect.at
    BY DEF TypeOK, Rects
  <1> QED BY <1>1, <1>2, <1>3, FitFits

\* The same for the size, whatever the margins are.
LEMMA ResizeLarger ==
  ASSUME TypeOK, NEW d \in Steps, Resize(d), rect.size + d \in Sizes
  PROVE  rect'.size <= rect.size + d
  <1> DEFINE span == [rect EXCEPT !.size = Unsigned(@ + d)]
  <1>1. span \in Rects
    BY StretchedRect
  <1>2. span.size = rect.size + d
    BY Conversions DEF TypeOK, Rects, Sizes
  <1>3. rect'.size = Fit(span).size
    BY DEF Resize
  <1>4. Fit(span).size <= span.size
    <2>1. monitor \in DOMAIN Monitors
      BY DEF Resize, TypeOK
    <2> QED BY <1>1, <2>1, MonitorTypes, ClampSmaller DEF Fit
  <1> QED BY <1>2, <1>3, <1>4

\* A client that is resized or asks for a place begins beyond the near margin.
LEMMA NearEdge == TypeOK /\ [Next]_vars => [KeepsNear]_vars
  <1> SUFFICES ASSUME TypeOK, Sane,
                      \/ \E d \in Steps : Resize(d)
                      \/ \E span \in Spans, parts \in SUBSET {"at", "size"} : Configure(span, parts)
               PROVE  rect'.at >= Near
    BY DEF KeepsNear
  <1>1. ASSUME NEW d \in Steps, Resize(d) PROVE rect'.at >= Near
    BY <1>1, ResizeFits
  <1>2. ASSUME NEW span \in Spans, NEW parts \in SUBSET {"at", "size"}, Configure(span, parts)
        PROVE rect'.at >= Near
    BY <1>2, AskedRect, FitFits DEF Configure
  <1> QED BY <1>1, <1>2

\* One that began there, or asks to, also ends before the far margin.
LEMMA FarEdge == TypeOK /\ [Next]_vars => [KeepsFar]_vars
  <1> SUFFICES ASSUME TypeOK, Sane,
                      \/ \E d \in Steps : Resize(d) /\ rect.at >= Near
                      \/ \E span \in Spans, parts \in SUBSET {"at", "size"} :
                           Configure(span, parts) /\ Asked(span, parts).at >= Near
               PROVE  rect'.at + rect'.size <= Far
    BY DEF KeepsFar
  <1>1. ASSUME NEW d \in Steps, Resize(d), rect.at >= Near PROVE rect'.at + rect'.size <= Far
    BY <1>1, ResizeFits
  <1>2. ASSUME NEW span \in Spans, NEW parts \in SUBSET {"at", "size"}, Configure(span, parts),
               Asked(span, parts).at >= Near
        PROVE rect'.at + rect'.size <= Far
    BY <1>2, AskedRect, FitFits DEF Configure
  <1> QED BY <1>1, <1>2

\* Clients keep to the margins of their monitor as far as
\* monitor_clamp_client_rect promises it, wherever they have been dragged.
THEOREM MarginsRespected == Spec => MarginsKept
  <1>1. TypeOK /\ [Next]_vars => [KeepsNear /\ KeepsFar]_vars
    BY NearEdge, FarEdge
  <1> QED BY <1>1, TypeCorrect, PTL DEF Spec, MarginsKept

\* The border a client has before a step is that of its state after it, or is
\* drawn in the step.
LEMMA BorderStep ==
  ASSUME TypeOK, Border, rect'.size > 0, ~FlagLeftBehind, [Next]_vars
  PROVE  Border'
  <1> SUFFICES ASSUME OnScreen' PROVE shown'.border = Width'
    BY DEF Border
  <1>1. /\ shown \in Windows /\ rect \in Rects /\ Widths.focused \in Sizes
        /\ Widths.unfocused \in Sizes /\ 0 \in Sizes /\ Width \in Sizes
    BY PlacementAssumption, WidthSize DEF TypeOK, Sizes
  <1>2. Width' \in Sizes
    BY <1>1 DEF Width
  <1>3. View \in Views /\ View.rect = rect /\ View.shown = shown
    BY <1>1 DEF View, Views
  <1>4. CASE Press \/ Release
    BY <1>4 DEF Press, Release, Border, OnScreen, Width, place, flags
  <1>5. ASSUME NEW d \in Steps, Drag(d) PROVE shown'.border = Width'
    BY <1>1, <1>5 DEF Drag, Border, OnScreen, Width, place, flags, Windows
  <1>6. ASSUME NEW d \in Steps, Resize(d) PROVE shown'.border = Width'
    <2>1. rect' \in Rects /\ monitor \in DOMAIN Monitors
      BY <1>6, StretchedRect, FitRect DEF Resize, TypeOK
    <2>2. On(monitor, rect') \in Rects /\ On(monitor, rect').size # 0
      BY <2>1, OnRect DEF Rects, Sizes
    <2>3. shown'.border = Width
      BY <1>1, <1>6, <2>2, ShownWindow DEF Resize, Show
    <2> QED BY <1>6, <2>3 DEF Resize, Width, flags
  <1>7. ASSUME NEW span \in Spans, NEW parts \in SUBSET {"at", "size"}, Configure(span, parts)
        PROVE shown'.border = Width'
    BY <1>1, <1>7 DEF Configure, Border, OnScreen, Width, place, flags, Windows
  <1>8. CASE SetFullscreen
    <2>1. monitor \in DOMAIN Monitors
      BY <1>8 DEF SetFullscreen, TypeOK
    <2>2. Whole(monitor) \in Rects /\ Whole(monitor).size # 0
      BY <1>1, <2>1, OnRect DEF Rects, Sizes
    <2>3. shown'.border = 0
      BY <1>1, <1>8, <2>2, ShownWindow DEF SetFullscreen, Show
    <2> QED BY <1>8, <2>3 DEF SetFullscreen, Width
  <1>9. CASE UnsetFullscreen
    <2> DEFINE view == [View EXCEPT !.shown = Shown(@, rect, Width)]
    <2>1. /\ view \in Views /\ view.rect = rect
          /\ rect.size # 0 => view.shown.border = Width
      BY <1>1, <1>3, ShownWindow DEF Views
    <2>2. Become(Themed(view, Width)) /\ monitor # NULL /\ ~full'
      BY <1>9 DEF UnsetFullscreen, OnScreen, place
    <2> HIDE DEF view
    <2>3. CASE Width = Width'
      <3>1. rect' = rect /\ shown' = view.shown
        BY <1>2, <2>1, <2>2, <2>3, ThemedTypes DEF Become
      <3> QED BY <1>1, <2>1, <2>3, <3>1 DEF Rects, Sizes
    <2>4. CASE Width # Width'
      BY <1>2, <2>1, <2>2, <2>4, ThemedTypes DEF Become
    <2> QED BY <2>3, <2>4
  <1>10. ASSUME NEW previous, Become(Themed(View, previous)), monitor # NULL, ~hidden,
                full' \/ previous = Width' => Width = Width'
         PROVE  shown'.border = Width'
    <2>1. shown.border = Width
      BY <1>10 DEF Border, OnScreen
    <2>2. CASE full' \/ previous = Width'
      <3>1. Themed(View, previous) = View
        BY <1>2, <1>3, <2>2, ThemedTypes
      <3> QED BY <1>3, <1>10, <2>1, <2>2, <3>1 DEF Become
    <2>3. CASE ~(full' \/ previous = Width')
      <3>1. Themed(View, previous).rect = rect' /\ Themed(View, previous).shown = shown'
        BY <1>10 DEF Become
      <3> QED BY <1>2, <1>3, <1>10, <2>3, <3>1, ThemedTypes
    <2> QED BY <2>2, <2>3
  <1>11. CASE SetFocused
    <2>1. full' \/ Widths.unfocused = Width' => Width = Width'
      BY <1>11 DEF SetFocused, Width
    <2> QED BY <1>10, <1>11, <2>1 DEF SetFocused, OnScreen
  <1>12. CASE SetUnfocused
    <2>1. full' \/ Widths.focused = Width' => Width = Width'
      BY <1>12 DEF SetUnfocused, Width
    <2> QED BY <1>10, <1>12, <2>1 DEF SetUnfocused, OnScreen
  <1>13. CASE FocusElsewhere
    BY <1>13 DEF FocusElsewhere, Border, OnScreen, Width, flags
  <1>14. ASSUME NEW m \in DOMAIN Monitors, Become(Placed(Left, m))
         PROVE  shown'.border = Width'
    BY <1>2, <1>14, LeftTypes, PlacedTypes DEF Become
  <1>15. ASSUME NEW m \in DOMAIN Monitors \cup {NULL}, ChangeMonitor(m) PROVE shown'.border = Width'
    <2>1. m \in DOMAIN Monitors /\ ~hidden
      BY <1>15 DEF ChangeMonitor, OnScreen
    <2> QED BY <1>14, <1>15, <2>1, PlacementAssumption DEF ChangeMonitor
  <1>16. ASSUME NEW m \in DOMAIN Monitors \cup {NULL}, Send(m) PROVE shown'.border = Width'
    <2>1. m \in DOMAIN Monitors
      BY <1>16 DEF Send, OnScreen
    <2> QED BY <1>14, <1>16, <2>1, PlacementAssumption DEF Send
  <1>17. ~Unmap
    BY DEF Unmap, OnScreen
  <1>18. CASE HandleMapNotify
    <2>1. ~hidden /\ monitor # NULL
      BY <1>18 DEF HandleMapNotify, OnScreen
    <2>2. CASE focused /\ active
      <3>1. Become(Themed(View, Width)) /\ (full' => Width = Width')
        BY <1>18, <2>2 DEF HandleMapNotify, Width
      <3> QED BY <1>10, <2>1, <3>1
    <2>3. CASE ~focused
      BY <1>18, <2>3 DEF HandleMapNotify, Border, OnScreen, Width, place
    <2> QED BY <1>18, <2>2, <2>3 DEF FlagLeftBehind
  <1>19. CASE UNCHANGED vars
    BY <1>19 DEF vars, Border, OnScreen, Width
  <1> QED BY <1>4, <1>5, <1>6, <1>7, <1>8, <1>9, <1>11, <1>12, <1>13, <1>15, <1>16, <1>17, <1>18,
             <1>19 DEF Next

\* The border of a window that has a size is that of the client's state, in every
\* order of focus, fullscreen, hiding, workspaces and notifies, but for a notify
\* that finds the flag left behind on a workspace without the focus
\* (client.c:557), and what a client keeps from it.
THEOREM BordersTell == Spec => BorderTells
  <1>1. Init => (rect.size > 0 /\ Widths.focused # 0 => Border)
    BY InitTypes
  <1>2. TypeOK /\ [Next]_vars => [Border /\ rect'.size > 0 /\ ~FlagLeftBehind => Border']_vars
    BY BorderStep
  <1> QED BY <1>1, <1>2, TypeCorrect, PTL DEF Spec, BorderTells

\* A client never becomes larger than the pointer has made it, as long as it was
\* not shrunk below zero (where the size wraps).
THEOREM NoGrowth == Spec => NeverLarger
  <1>1. TypeOK /\ [Next]_vars =>
          [\A d \in Steps : Resize(d) /\ rect.size + d \in Sizes => rect'.size <= rect.size + d]_vars
    <2> SUFFICES ASSUME TypeOK, NEW d \in Steps, Resize(d), rect.size + d \in Sizes
                 PROVE  rect'.size <= rect.size + d
      OBVIOUS
    <2> QED BY ResizeLarger
  <1> QED BY <1>1, TypeCorrect, PTL DEF Spec, NeverLarger

\* Cutting a client for its border leaves it where it is.
LEMMA CutInPlace ==
  ASSUME TypeOK, NEW length, NEW margin, NEW width
  PROVE  Bordered(rect, length, margin, width).at = rect.at
  BY DEF TypeOK, Bordered, Rects

\* update_theme keeps the window where the client is: what it cuts off the one
\* it cuts off the other.
LEMMA ThemedAgrees ==
  ASSUME TypeOK, Width' \in Sizes, NEW previous, Become(Themed(View, previous)),
         ServerAgrees, ~full, OnScreen, rect'.size > 0
  PROVE  shown'.at = On(monitor, rect').at /\ shown'.size = rect'.size
  <1>1. shown.at = On(monitor, rect).at /\ shown.size = rect.size
    BY DEF ServerAgrees
  <1>2. View \in Views /\ View.rect = rect /\ View.shown = shown
    BY DEF TypeOK, View, Views
  <1>3. CASE full' \/ previous = Width'
    BY <1>1, <1>2, <1>3, ThemedTypes DEF Become
  <1>4. CASE ~(full' \/ previous = Width')
    <2>1. /\ rect' = Bordered(rect, Monitors[monitor].length, offsets[monitor], Width')
          /\ shown' = IF rect'.size = 0 THEN shown
                      ELSE [at |-> shown.at, size |-> rect'.size, border |-> Width']
      BY <1>2, <1>4 DEF Become, Themed, OnScreen
    <2>2. rect'.at = rect.at
      BY <2>1, CutInPlace
    <2>3. rect' \in Rects /\ rect \in Rects
      BY <1>2, ThemedTypes DEF Become, Views
    <2>4. On(monitor, rect').at = On(monitor, rect).at
      BY <2>2, <2>3 DEF On, Rects
    <2>5. rect'.size # 0
      BY <2>3 DEF Rects, Sizes
    <2>6. shown'.at = shown.at /\ shown'.size = rect'.size
      BY <2>1, <2>5
    <2> QED BY <1>1, <2>4, <2>6
  <1> QED BY <1>3, <1>4

\* A window that is configured is where it was told to be, if it has a size.
LEMMA ShownThere ==
  ASSUME NEW m, NEW span \in Rects, NEW width, On(m, span).size # 0
  PROVE  /\ Shown(shown, On(m, span), width).at = On(m, span).at
         /\ Shown(shown, On(m, span), width).size = span.size
  BY DEF Shown, On, Rects

\* What is done with a client, its requests, leaving fullscreen and late motions
\* apart, changes the rectangle and the window in the same way.
LEMMA AgreeStep ==
  ASSUME TypeOK, ServerAgrees, rect'.size > 0, [Next]_vars,
         ~(\E span \in Spans, parts \in SUBSET {"at", "size"} : Configure(span, parts)),
         ~UnsetFullscreen, ~LateMotion
  PROVE  ServerAgrees'
  <1> SUFFICES ASSUME ~full', OnScreen'
               PROVE  shown'.at = On(monitor', rect').at /\ shown'.size = rect'.size
    BY DEF ServerAgrees
  <1> DEFINE Goal == shown'.at = On(monitor', rect').at /\ shown'.size = rect'.size
  <1>1. /\ shown \in Windows /\ rect \in Rects /\ Widths.focused \in Sizes
        /\ Widths.unfocused \in Sizes /\ 0 \in Sizes
    BY PlacementAssumption DEF TypeOK, Sizes
  <1>2. Width' \in Sizes
    BY <1>1 DEF Width
  <1>3. CASE Press \/ Release
    BY <1>3 DEF Press, Release, ServerAgrees, OnScreen, place, flags
  <1>4. ASSUME NEW d \in Steps, Drag(d) PROVE Goal
    <2>1. held = monitor /\ monitor' = monitor /\ OnScreen /\ ~full
      BY <1>4 DEF Drag, LateMotion, OnScreen, place, flags
    <2>2. shown.size = rect.size
      BY <2>1 DEF ServerAgrees
    <2> QED BY <1>1, <1>4, <2>1, <2>2 DEF Drag, Windows, Rects
  <1>5. ASSUME NEW d \in Steps, Resize(d) PROVE Goal
    <2>1. rect' \in Rects /\ monitor \in DOMAIN Monitors
      BY <1>5, StretchedRect, FitRect DEF Resize, TypeOK
    <2>2. On(monitor, rect').size # 0
      BY <2>1, OnRect DEF Rects, Sizes
    <2>3. shown' = Shown(shown, On(monitor, rect'), Width)
      BY <1>5 DEF Resize, Show
    <2> QED BY <1>5, <2>1, <2>2, <2>3, ShownThere DEF Resize, place
  <1>6. ~SetFullscreen
    BY DEF SetFullscreen
  <1>7. ASSUME NEW previous, Become(Themed(View, previous)), full' = full, monitor' = monitor,
               hidden' = hidden
        PROVE Goal
    BY <1>2, <1>7, ThemedAgrees DEF OnScreen
  <1>8. CASE SetFocused \/ SetUnfocused
    BY <1>7, <1>8 DEF SetFocused, SetUnfocused
  <1>9. CASE FocusElsewhere
    BY <1>9 DEF FocusElsewhere, ServerAgrees, OnScreen, flags
  <1>10. ASSUME NEW m \in DOMAIN Monitors, Become(Placed(Left, m)), monitor' = m, full' = full
         PROVE  Goal
    <2>1. Left \in Views
      BY <1>2, LeftTypes
    <2> QED BY <1>2, <1>10, <2>1, PlacedTypes DEF Become
  <1>11. ASSUME NEW m \in DOMAIN Monitors \cup {NULL}, ChangeMonitor(m) PROVE Goal
    <2>1. m \in DOMAIN Monitors /\ ~hidden
      BY <1>11 DEF ChangeMonitor, OnScreen
    <2> QED BY <1>10, <1>11, <2>1, PlacementAssumption DEF ChangeMonitor
  <1>12. ASSUME NEW m \in DOMAIN Monitors \cup {NULL}, Send(m) PROVE Goal
    <2>1. m \in DOMAIN Monitors
      BY <1>12 DEF Send, OnScreen
    <2> QED BY <1>10, <1>12, <2>1, PlacementAssumption DEF Send
  <1>13. ~Unmap
    BY DEF Unmap, OnScreen
  <1>14. CASE HandleMapNotify
    <2>1. CASE focused /\ active
      BY <1>7, <1>14, <2>1 DEF HandleMapNotify, place
    <2>2. CASE ~(focused /\ active)
      BY <1>14, <2>2 DEF HandleMapNotify, ServerAgrees, OnScreen, place
    <2> QED BY <2>1, <2>2
  <1>15. CASE UNCHANGED vars
    BY <1>15 DEF vars, ServerAgrees, OnScreen
  <1> QED BY <1>3, <1>4, <1>5, <1>6, <1>8, <1>9, <1>11, <1>12, <1>13, <1>14, <1>15 DEF Next

\* The rectangle natwm keeps of a client and the window on the screen, changed
\* side by side by each handler from what the last one left, stay the same, also
\* when the client changes monitors with the button held, while its requests,
\* leaving fullscreen and late motions do not part them (client.c).
THEOREM NeverApart == Spec => GesturesAgree
  <1>1. TypeOK /\ [Next]_vars =>
          [ /\ ServerAgrees
            /\ ~(\E span \in Spans, parts \in SUBSET {"at", "size"} : Configure(span, parts))
            /\ ~UnsetFullscreen /\ ~LateMotion
            /\ rect'.size > 0
            => ServerAgrees' ]_vars
    BY AgreeStep
  <1> QED BY <1>1, TypeCorrect, PTL DEF Spec, GesturesAgree

=============================================================================
