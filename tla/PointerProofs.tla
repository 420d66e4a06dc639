--------------------------- MODULE PointerProofs ---------------------------
(***************************************************************************)
(* Proofs about Pointer, for any clients and any lag of natwm behind the   *)
(* server.  Whatever happens beside the gestures, the parts of struct      *)
(* button_state change together; with one button at a time, and clients    *)
(* that stay, no gesture acts on the client of another, and the window     *)
(* that is dragged ends under the pointer.                                 *)
(***************************************************************************)
EXTENDS PointerLag, SequenceTheorems, WellFoundedInduction, TLAPS

\* The invariant, with what a handled press needs: NULL is never registered.
IInv ==
  /\ StateTogether
  /\ registered \subseteq Clients

\* Nothing but handling an event changes button_state, and nothing but a handled
\* destroy the registered clients.
LEMMA OthersKeep ==
  ASSUME IInv, UNCHANGED <<buttonVars, registered>>
  PROVE  IInv'
  BY DEF IInv, StateTogether, buttonVars

\* The end of a gesture clears everything at once.
LEMMA ResetKeeps ==
  ASSUME IInv, Reset, UNCHANGED registered
  PROVE  IInv'
  BY DEF IInv, StateTogether, Reset

\* Each event that can be handled preserves the invariant.
LEMMA HandleKeeps ==
  ASSUME IInv, Handle
  PROVE  IInv'
  <1> DEFINE e == Head(queue)
  <1> USE DEF clientVars, buttonVars, Ignored, Fault
  <1>1. CASE HandlePress(e)
    <2>1. CASE GrabRefused(e)
      BY <1>1, <2>1, OthersKeep DEF HandlePress
    <2>2. CASE ~GrabRefused(e)
      <3>1. e.win \in Clients
        BY <2>2 DEF GrabRefused, IInv
      <3>2. e.win # NULL
        BY <3>1, PointerAssumption
      <3>3. grabbed' = e.win /\ monitorRect' = "set" /\ registered' = registered
        BY <1>1, <2>2 DEF HandlePress
      <3> QED BY <3>2, <3>3 DEF IInv, StateTogether
    <2> QED BY <2>1, <2>2
  <1>2. CASE HandleMotion(e)
    BY <1>2, OthersKeep DEF HandleMotion, Drag
  <1>3. CASE HandleRelease(e)
    BY <1>3, OthersKeep, ResetKeeps DEF HandleRelease
  <1>4. CASE HandleDestroy(e)
    BY <1>4 DEF HandleDestroy, IInv, StateTogether
  <1>5. HandlePress(e) \/ HandleMotion(e) \/ HandleRelease(e) \/ HandleDestroy(e)
    BY DEF Handle
  <1> QED BY <1>1, <1>2, <1>3, <1>4, <1>5

LEMMA InitTogether == Init => IInv
  BY PointerAssumption DEF Init, IInv, StateTogether

LEMMA StepTogether ==
  ASSUME IInv, [Next]_vars
  PROVE  IInv'
  <1> USE DEF clientVars, buttonVars
  <1>1. CASE \E c \in Clients, b \in Buttons : Press(c, b)
    BY <1>1, OthersKeep DEF Press
  <1>2. CASE \E b \in Buttons : PressMore(b) \/ Release(b)
    BY <1>2, OthersKeep DEF PressMore, Release
  <1>3. CASE Move
    BY <1>3, OthersKeep DEF Move
  <1>4. CASE \E c \in Clients : Destroy(c) \/ Hide(c) \/ Show(c) \/ Fullscreen(c)
    BY <1>4, OthersKeep DEF Destroy, Hide, Show, Fullscreen
  <1>5. CASE Handle
    BY <1>5, HandleKeeps
  <1>6. CASE UNCHANGED vars
    BY <1>6, OthersKeep DEF vars
  <1> QED BY <1>1, <1>2, <1>3, <1>4, <1>5, <1>6 DEF Next

\* Whenever a client is grabbed there is a rectangle to move it in, and without
\* one the resize helper does not show (button.c, button_handle_grab and
\* button_state_reset), whatever windows, programs and the user do in between.
THEOREM Together == Spec => []StateTogether
  <1>1. IInv => StateTogether
    BY DEF IInv
  <1> QED BY InitTogether, StepTogether, <1>1, PTL DEF Spec

------------------------------------------------------------------------------
(* Types *)

Events ==
  [typ : {"press", "motion", "release", "destroy"}, win : Clients,
   button : Buttons \cup {0}, buttons : SUBSET Buttons, x : Int, root : Int]

\* A window is destroyed once: what a queued DestroyNotify is about is gone, so
\* that the client which natwm frees for it has no window any more.
Gone == \A k \in 1 .. Len(queue) : queue[k].typ = "destroy" => queue[k].win \notin existing

TInv == TypeOK /\ queue \in Seq(Events) /\ Gone

LEMMA PointerIsInt == ASSUME TypeOK PROVE pointer \in Int /\ ScreenWidth \in Int
  BY PointerAssumption DEF TypeOK

\* What the server reports is an event.
LEMMA EventTyped ==
  ASSUME TypeOK, NEW typ \in {"press", "motion", "release", "destroy"},
         NEW c \in Clients, NEW b \in Buttons \cup {0}
  PROVE  /\ Event(typ, c, b) \in Events
         /\ Event(typ, c, b).typ = typ /\ Event(typ, c, b).win = c
         /\ Event(typ, c, b).button = b /\ Event(typ, c, b).buttons = held
         /\ Event(typ, c, b).x \in Int
  <1>1. c # NULL /\ at[c] \in Int /\ pointer \in Int /\ held \in SUBSET Buttons
    BY PointerAssumption, PointerIsInt DEF TypeOK
  <1> DEFINE x == IF c = NULL THEN 0 ELSE pointer - at[c]
  <1>2. x \in Int
    BY <1>1
  <1>3. Event(typ, c, b) = [typ |-> typ, win |-> c, button |-> b, buttons |-> held,
                            x |-> x, root |-> pointer]
    BY DEF Event
  <1> HIDE DEF x
  <1> QED BY <1>1, <1>2, <1>3 DEF Events

\* While the server grants a grab it is on a client's window, for a button.
LEMMA GrabTyped ==
  ASSUME TypeOK, grab # NoGrab
  PROVE  grab.win \in Clients /\ grab.button \in Buttons /\ grab.win # NULL
  BY PointerAssumption DEF TypeOK

LEMMA NoGrabWin == NoGrab.win = NULL
  BY DEF NoGrab

\* An event that joins the queue leaves it one of windows that are gone.
LEMMA EnqueueKeeps ==
  ASSUME TInv, NEW e \in Events, Enqueue(e), existing' \subseteq existing,
         e.typ = "destroy" => e.win \notin existing'
  PROVE  queue' \in Seq(Events) /\ Gone'
  <1>1. queue \in Seq(Events) /\ queue' = Append(queue, e) /\ Len(queue) \in Nat
    BY LenProperties DEF TInv, Enqueue
  <1>2. /\ queue' \in Seq(Events) /\ Len(queue') = Len(queue) + 1
        /\ \A i \in 1 .. Len(queue) : queue'[i] = queue[i]
        /\ queue'[Len(queue) + 1] = e
    BY <1>1, AppendProperties
  <1>3. ASSUME NEW k \in 1 .. Len(queue'), queue'[k].typ = "destroy"
        PROVE  queue'[k].win \notin existing'
    <2>1. k \in 1 .. Len(queue) \/ k = Len(queue) + 1
      BY <1>1, <1>2
    <2> QED BY <2>1, <1>2, <1>3 DEF TInv, Gone
  <1> QED BY <1>2, <1>3 DEF Gone

\* Nothing is queued, and no window comes into being.
LEMMA SameQueueKeeps ==
  ASSUME TInv, queue' = queue, existing' \subseteq existing
  PROVE  queue' \in Seq(Events) /\ Gone'
  BY DEF TInv, Gone

LEMMA PressTyped ==
  ASSUME TInv, UNCHANGED situation, NEW c \in Clients, NEW b \in Buttons, Press(c, b)
  PROVE  TInv'
  <1> USE DEF clientVars, buttonVars
  <1>1. TypeOK' /\ existing' = existing
    BY DEF Press, TInv, TypeOK
  <1>2. queue' \in Seq(Events) /\ Gone'
    BY <1>1, EventTyped, EnqueueKeeps DEF Press, TInv
  <1> QED BY <1>1, <1>2 DEF TInv

LEMMA PressMoreTyped ==
  ASSUME TInv, UNCHANGED situation, NEW b \in Buttons, PressMore(b)
  PROVE  TInv'
  <1> USE DEF clientVars, buttonVars
  <1>1. TypeOK' /\ existing' = existing
    BY DEF PressMore, TInv, TypeOK
  <1>2. queue' \in Seq(Events) /\ Gone'
    <2>1. CASE queue' = queue
      BY <2>1, <1>1, SameQueueKeeps
    <2>2. CASE grab # NoGrab
      BY <2>2, <1>1, GrabTyped, EventTyped, EnqueueKeeps DEF PressMore, TInv
    <2> QED BY <2>1, <2>2 DEF PressMore
  <1> QED BY <1>1, <1>2 DEF TInv

LEMMA ReleaseTyped ==
  ASSUME TInv, UNCHANGED situation, NEW b \in Buttons, Release(b)
  PROVE  TInv'
  <1> USE DEF clientVars, buttonVars
  <1>1. existing' = existing
    BY DEF Release
  <1>2. TypeOK'
    BY DEF Release, TInv, TypeOK
  <1>3. queue' \in Seq(Events) /\ Gone'
    <2>1. CASE grab = NoGrab
      BY <2>1, <1>1, SameQueueKeeps DEF Release
    <2>2. CASE grab # NoGrab
      BY <2>2, <1>1, GrabTyped, EventTyped, EnqueueKeeps DEF Release, TInv
    <2> QED BY <2>1, <2>2
  <1> QED BY <1>2, <1>3 DEF TInv

\* A motion is reported at the place the pointer moves to.
MotionTo(p) == [Event("motion", grab.win, 0) EXCEPT !.x = @ + p - pointer, !.root = p]

LEMMA MotionTyped ==
  ASSUME TypeOK, grab # NoGrab, NEW p \in Int
  PROVE  MotionTo(p) \in Events /\ MotionTo(p).typ = "motion" /\ MotionTo(p).win = grab.win
  <1> DEFINE e == Event("motion", grab.win, 0)
  <1>1. /\ e \in Events /\ e.typ = "motion" /\ e.win = grab.win
        /\ e.x \in Int /\ pointer \in Int
    BY GrabTyped, EventTyped, PointerIsInt
  <1>2. e.x + p - pointer \in Int
    BY <1>1
  <1>3. MotionTo(p) = [e EXCEPT !.x = e.x + p - pointer, !.root = p]
    BY <1>1 DEF MotionTo, Events
  <1> HIDE DEF e
  <1> QED BY <1>1, <1>2, <1>3 DEF Events

LEMMA MoveTyped ==
  ASSUME TInv, UNCHANGED situation, Move
  PROVE  TInv'
  <1> USE DEF clientVars, buttonVars
  <1>1. PICK p \in 0 .. ScreenWidth :
          /\ pointer' = p
          /\ IF grab.button \in held /\ grab # NoGrab
             THEN Enqueue(MotionTo(p)) ELSE UNCHANGED queue
    BY Zenon DEF Move, MotionTo
  <1>2. UNCHANGED <<situation, held, grab, existing, clientVars, buttonVars, fault>>
    BY DEF Move
  <1>4. TypeOK' /\ existing' = existing
    BY <1>1, <1>2 DEF TInv, TypeOK
  <1>3. p \in Int
    BY PointerIsInt DEF TInv
  <1>5. queue' \in Seq(Events) /\ Gone'
    <2>1. CASE queue' = queue
      BY <2>1, <1>4, SameQueueKeeps
    <2>2. CASE grab # NoGrab /\ Enqueue(MotionTo(p))
      BY <2>2, <1>4, <1>3, MotionTyped, EnqueueKeeps DEF TInv
    <2> QED BY <1>1, <2>1, <2>2
  <1> QED BY <1>4, <1>5 DEF TInv

\* What becomes of clients beside the gestures.
LEMMA DestroyTyped ==
  ASSUME TInv, UNCHANGED situation, NEW c \in Clients, Destroy(c)
  PROVE  TInv'
  <1> USE DEF clientVars, buttonVars
  <1> DEFINE e == Event("destroy", c, 0)
             d == [e EXCEPT !.buttons = {}, !.x = 0, !.root = 0]
  <1>2. d \in Events /\ d.win = c /\ d.typ = "destroy"
    <2> DEFINE f == [e EXCEPT !.buttons = {}]
               g == [f EXCEPT !.x = 0]
    <2>1. e \in Events /\ e.win = c /\ e.typ = "destroy"
      BY EventTyped DEF TInv
    <2> HIDE DEF e
    <2>2. f \in Events /\ f.win = c /\ f.typ = "destroy"
      BY <2>1 DEF Events
    <2> HIDE DEF f
    <2>3. g \in Events /\ g.win = c /\ g.typ = "destroy"
      BY <2>2 DEF Events
    <2> HIDE DEF g
    <2>4. [g EXCEPT !.root = 0] \in Events /\ [g EXCEPT !.root = 0].win = c
          /\ [g EXCEPT !.root = 0].typ = "destroy"
      BY <2>3 DEF Events
    <2> QED BY <2>4 DEF f, g
  <1>3. Enqueue(d) /\ existing' = existing \ {c}
    BY DEF Destroy
  <1>4. TypeOK'
    BY DEF Destroy, GrabWithout, TInv, TypeOK
  <1> HIDE DEF d
  <1>5. queue' \in Seq(Events) /\ Gone'
    BY <1>2, <1>3, EnqueueKeeps
  <1> QED BY <1>4, <1>5 DEF TInv

LEMMA ClientsTyped ==
  ASSUME TInv, UNCHANGED situation, NEW c \in Clients, Hide(c) \/ Show(c) \/ Fullscreen(c)
  PROVE  TInv'
  <1> USE DEF clientVars, buttonVars, serverVars
  <1>1. queue' = queue /\ existing' = existing
    BY DEF Hide, Show, Fullscreen
  <1>2. TypeOK'
    BY DEF Hide, Show, Fullscreen, GrabWithout, TInv, TypeOK
  <1> QED BY <1>1, <1>2, SameQueueKeeps DEF TInv

\* The event that is handled leaves the queue.
LEMMA HeadTyped ==
  ASSUME TInv, queue # <<>>
  PROVE  /\ Head(queue) \in Events /\ Head(queue) = queue[1]
         /\ 1 \in 1 .. Len(queue)
         /\ Head(queue).typ = "destroy" => Head(queue).win \notin existing
         /\ Head(queue).win \in Clients /\ Head(queue).x \in Int
         /\ Head(queue).typ \in {"press", "motion", "release", "destroy"}
  <1>1. queue \in Seq(Events)
    BY DEF TInv
  <1>2. Head(queue) \in Events /\ Head(queue) = queue[1] /\ 1 \in 1 .. Len(queue)
    BY <1>1, HeadTailProperties, EmptySeq
  <1> QED BY <1>2 DEF TInv, Gone, Events

LEMMA DequeueKeeps ==
  ASSUME TInv, queue # <<>>, queue' = Tail(queue), existing' = existing
  PROVE  queue' \in Seq(Events) /\ Gone'
  <1>1. queue \in Seq(Events)
    BY DEF TInv
  <1>2. /\ Tail(queue) \in Seq(Events) /\ Len(Tail(queue)) = Len(queue) - 1
        /\ \A i \in 1 .. Len(Tail(queue)) : Tail(queue)[i] = queue[i + 1]
    BY <1>1, HeadTailProperties
  <1>3. \A i \in 1 .. Len(Tail(queue)) : i + 1 \in 1 .. Len(queue)
    BY <1>1, <1>2, LenProperties
  <1> QED BY <1>2, <1>3 DEF TInv, Gone

LEMMA HandleTyped ==
  ASSUME TInv, UNCHANGED situation, Handle
  PROVE  TInv'
  <1> USE DEF clientVars, buttonVars, serverVars, Ignored, Fault
  <1> DEFINE e == Head(queue)
  <1>1. /\ e.win \in Clients /\ e.x \in Int
        /\ e.typ = "destroy" => e.win \notin existing
    BY HeadTyped DEF Handle
  <1>2. queue # <<>> /\ queue' = Tail(queue) /\ UNCHANGED <<pointer, held, grab, existing>>
    BY DEF Handle
  <1>3. TypeOK'
    <2>1. CASE HandlePress(e)
      BY <1>1, <1>2, <2>1 DEF HandlePress, TInv, TypeOK
    <2>2. CASE HandleMotion(e)
      <3>1. CASE Drag(grabbed, e.x - start) /\ grabbed \in registered
        <4>1. grabbed \in Clients /\ at[grabbed] \in Int /\ start \in Int
          BY <3>1 DEF TInv, TypeOK
        <4>2. at[grabbed] + (e.x - start) \in Int
          BY <1>1, <4>1
        <4>3. at' = [at EXCEPT ![grabbed] = at[grabbed] + (e.x - start)]
          BY <3>1 DEF Drag
        <4>4. at' \in [Clients -> Int]
          BY <4>1, <4>2, <4>3 DEF TInv, TypeOK
        <4> QED BY <1>2, <3>1, <4>4 DEF Drag, TInv, TypeOK
      <3>2. CASE ~(Drag(grabbed, e.x - start) /\ grabbed \in registered)
        BY <1>2, <2>2, <3>2 DEF HandleMotion, TInv, TypeOK
      <3> QED BY <3>1, <3>2
    <2>3. CASE HandleRelease(e)
      BY <1>2, <2>3 DEF HandleRelease, Reset, TInv, TypeOK
    <2>4. CASE e.typ = "destroy" /\ HandleDestroy(e)
      BY <1>1, <1>2, <2>4 DEF HandleDestroy, TInv, TypeOK
    <2> QED BY <2>1, <2>2, <2>3, <2>4 DEF Handle
  <1> QED BY <1>2, <1>3, DequeueKeeps DEF TInv

LEMMA StepTyped ==
  ASSUME TInv, [Next]_vars
  PROVE  TInv'
  <1>1. CASE UNCHANGED vars
    <2>1. TypeOK'
      BY <1>1 DEF vars, TInv, TypeOK
    <2>2. queue' = queue /\ existing' = existing
      BY <1>1 DEF vars
    <2> QED BY <2>1, <2>2, SameQueueKeeps DEF TInv
  <1>2. CASE Next
    <2>1. UNCHANGED situation
      BY <1>2 DEF Next
    <2>2. CASE \E c \in Clients, b \in Buttons : Press(c, b)
      BY <2>1, <2>2, PressTyped
    <2>3. CASE \E b \in Buttons : PressMore(b) \/ Release(b)
      BY <2>1, <2>3, PressMoreTyped, ReleaseTyped
    <2>4. CASE Move
      BY <2>1, <2>4, MoveTyped
    <2>5. CASE \E c \in Clients : Destroy(c) \/ Hide(c) \/ Show(c) \/ Fullscreen(c)
      BY <2>1, <2>5, DestroyTyped, ClientsTyped
    <2>6. CASE Handle
      BY <2>1, <2>6, HandleTyped
    <2> QED BY <1>2, <2>2, <2>3, <2>4, <2>5, <2>6 DEF Next
  <1> QED BY <1>1, <1>2

LEMMA InitTyped == Init => TInv
  <1> SUFFICES ASSUME Init PROVE TInv
    OBVIOUS
  <1>1. situation.clients \in SUBSET Clients /\ 0 \in 0 .. ScreenWidth
    BY PointerAssumption DEF Init
  <1>2. queue \in Seq(Events) /\ Len(queue) = 0
    BY EmptySeq DEF Init
  <1> QED BY <1>1, <1>2 DEF Init, TInv, TypeOK, Gone

\* The state keeps its types: whatever is destroyed or switched away from, the
\* grabbed client is one that natwm knew (perhaps freed), the server grabs for
\* one button of one window, and natwm never loses a window that exists.
THEOREM TypeCorrect == Spec => []TypeOK
  <1>1. TInv => TypeOK
    BY DEF TInv
  <1> QED BY InitTyped, StepTyped, <1>1, PTL DEF Spec

------------------------------------------------------------------------------
(* One button at a time, and clients that stay *)

\* What handling an event makes of the grabbed client.
Step(e, before, after) ==
  \/ e.typ = "press" /\ e.buttons = {} /\ before = NULL /\ after = e.win
  \/ e.typ = "motion" /\ before = e.win /\ after = e.win
  \/ e.typ = "release" /\ before = e.win /\ after = NULL

\* Handling the events of q, each after the ones before it, leads from the
\* grabbed client `from` to `to`, by way of clients of C.
Leads(q, C, from, to) ==
  \E h \in [1 .. Len(q) + 1 -> C \cup {NULL}] :
    /\ h[1] = from /\ h[Len(q) + 1] = to
    /\ \A k \in 1 .. Len(q) : Step(q[k], h[k], h[k + 1])

\* However far natwm lags behind, the queue holds whole gestures, but for the
\* ends of it: the events lead from what natwm has grabbed to what the server has.
CInv ==
  Calm =>
    /\ full = {}
    /\ visible = situation.clients
    /\ registered = situation.clients /\ existing = situation.clients
    /\ held = IF grab = NoGrab THEN {} ELSE {grab.button}
    /\ fault = "none"
    /\ Leads(queue, situation.clients, grabbed, grab.win)

\* Nothing queued leads nowhere.
LEMMA LeadsEmpty ==
  ASSUME NEW C
  PROVE  Leads(<<>>, C, NULL, NULL)
  <1> DEFINE h == [k \in 1 .. Len(<<>>) + 1 |-> NULL]
  <1>1. Len(<<>>) = 0
    OBVIOUS
  <1>2. /\ h \in [1 .. Len(<<>>) + 1 -> C \cup {NULL}]
        /\ h[1] = NULL /\ h[Len(<<>>) + 1] = NULL
        /\ \A k \in 1 .. Len(<<>>) : Step(<<>>[k], h[k], h[k + 1])
    BY <1>1
  <1> QED BY <1>2 DEF Leads

\* An event that happens where the queue leads to leads on from there.
LEMMA LeadsAppend ==
  ASSUME NEW q \in Seq(Events), NEW e \in Events, NEW C, NEW from, NEW mid,
         NEW to \in C \cup {NULL},
         Leads(q, C, from, mid), Step(e, mid, to)
  PROVE  Leads(Append(q, e), C, from, to)
  <1> DEFINE p == Append(q, e)
  <1>1. PICK h \in [1 .. Len(q) + 1 -> C \cup {NULL}] :
          /\ h[1] = from /\ h[Len(q) + 1] = mid
          /\ \A k \in 1 .. Len(q) : Step(q[k], h[k], h[k + 1])
    BY DEF Leads
  <1>2. /\ Len(q) \in Nat /\ Len(p) = Len(q) + 1
        /\ \A i \in 1 .. Len(q) : p[i] = q[i]
        /\ p[Len(q) + 1] = e
    BY AppendProperties, LenProperties
  <1> HIDE DEF p
  <1> DEFINE g == [k \in 1 .. Len(p) + 1 |-> IF k = Len(p) + 1 THEN to ELSE h[k]]
  <1>3. g \in [1 .. Len(p) + 1 -> C \cup {NULL}]
    BY <1>1, <1>2
  <1>4. g[1] = from /\ g[Len(p) + 1] = to
    BY <1>1, <1>2
  <1>5. ASSUME NEW k \in 1 .. Len(p) PROVE Step(p[k], g[k], g[k + 1])
    <2>1. g[k] = h[k] /\ g[k + 1] = IF k = Len(p) THEN to ELSE h[k + 1]
      BY <1>2
    <2>2. CASE k = Len(p)
      BY <2>1, <2>2, <1>1, <1>2
    <2>3. CASE k # Len(p)
      <3>1. k \in 1 .. Len(q)
        BY <2>3, <1>2
      <3> QED BY <2>1, <2>3, <3>1, <1>1, <1>2
    <2> QED BY <2>2, <2>3
  <1> HIDE DEF g
  <1>6. Leads(p, C, from, to)
    BY <1>3, <1>4, <1>5 DEF Leads
  <1> QED BY <1>6 DEF p

\* The first event is one step, and the others lead on.
LEMMA LeadsTail ==
  ASSUME NEW q \in Seq(Events), q # <<>>, NEW C, NEW from, NEW to, Leads(q, C, from, to)
  PROVE  \E mid \in C \cup {NULL} : Step(q[1], from, mid) /\ Leads(Tail(q), C, mid, to)
  <1> DEFINE p == Tail(q)
  <1>1. PICK h \in [1 .. Len(q) + 1 -> C \cup {NULL}] :
          /\ h[1] = from /\ h[Len(q) + 1] = to
          /\ \A k \in 1 .. Len(q) : Step(q[k], h[k], h[k + 1])
    BY DEF Leads
  <1>2. /\ Len(q) \in Nat \ {0} /\ Len(p) = Len(q) - 1
        /\ \A i \in 1 .. Len(p) : p[i] = q[i + 1]
    BY HeadTailProperties, EmptySeq
  <1> HIDE DEF p
  <1> DEFINE g == [k \in 1 .. Len(p) + 1 |-> h[k + 1]]
  <1>3. g \in [1 .. Len(p) + 1 -> C \cup {NULL}]
    BY <1>1, <1>2
  <1>4. g[1] = h[2] /\ g[Len(p) + 1] = to /\ h[2] \in C \cup {NULL}
    BY <1>1, <1>2
  <1>5. ASSUME NEW k \in 1 .. Len(p) PROVE Step(p[k], g[k], g[k + 1])
    <2>1. k + 1 \in 1 .. Len(q) /\ g[k] = h[k + 1] /\ g[k + 1] = h[(k + 1) + 1]
      BY <1>2
    <2>2. Step(q[k + 1], h[k + 1], h[(k + 1) + 1])
      BY <2>1, <1>1
    <2> HIDE DEF g
    <2> QED BY <2>1, <2>2, <1>2
  <1> HIDE DEF g
  <1>6. Leads(p, C, h[2], to)
    BY <1>3, <1>4, <1>5 DEF Leads
  <1>7. Step(q[1], from, h[2])
    BY <1>1, <1>2
  <1> QED BY <1>4, <1>6, <1>7 DEF p

\* A set of natural numbers that is not empty has a smallest element.
LEMMA SmallestElement ==
  ASSUME NEW S, S \subseteq Nat, S # {}
  PROVE  \E x \in S : \A y \in S : x <= y
  <1>1. PICK x \in S : \A y \in S : ~(<<y, x>> \in OpToRel(<, Nat))
    BY WFMin, NatLessThanWellFounded, Zenon
  <1>2. ASSUME NEW y \in S PROVE x <= y
    <2>1. ~(y < x) BY <1>1 DEF OpToRel
    <2> QED BY <2>1
  <1> QED BY <1>2

\* The queue leads away from a grabbed client only by a release of it.
LEMMA LeadsAway ==
  ASSUME NEW q \in Seq(Events), NEW C, NULL \notin C, NEW from, NEW to,
         Leads(q, C, from, to), from # NULL, to # from
  PROVE  \E i \in 1 .. Len(q) : q[i].typ = "release" /\ q[i].win = from
  <1>1. PICK h \in [1 .. Len(q) + 1 -> C \cup {NULL}] :
          /\ h[1] = from /\ h[Len(q) + 1] = to
          /\ \A k \in 1 .. Len(q) : Step(q[k], h[k], h[k + 1])
    BY DEF Leads
  <1>2. Len(q) \in Nat
    BY LenProperties
  <1> DEFINE S == {k \in 1 .. Len(q) + 1 : h[k] # from}
  <1>3. S \subseteq Nat /\ Len(q) + 1 \in S /\ 1 \notin S
    BY <1>1, <1>2
  <1>4. PICK k \in S : \A l \in S : k <= l
    BY <1>3, SmallestElement
  <1>5. k \in 1 .. Len(q) + 1 /\ h[k] # from /\ k # 1
    BY <1>3, <1>4
  <1>6. k - 1 \in 1 .. Len(q) /\ (k - 1) + 1 = k /\ k - 1 \notin S
    BY <1>2, <1>4, <1>5
  <1>7. h[k - 1] = from
    BY <1>6, <1>2
  <1>8. Step(q[k - 1], from, h[k])
    BY <1>1, <1>6, <1>7
  <1> QED BY <1>5, <1>6, <1>8 DEF Step

------------------------------------------------------------------------------
(* The invariant is one *)

\* Both natwm and the server grab a client there is, or none.
LEMMA CalmGrab ==
  ASSUME TInv, CInv, Calm
  PROVE  {grabbed, grab.win} \subseteq situation.clients \cup {NULL}
  <1>1. PICK h \in [1 .. Len(queue) + 1 -> situation.clients \cup {NULL}] :
          h[1] = grabbed /\ h[Len(queue) + 1] = grab.win
    BY DEF CInv, Leads
  <1>2. Len(queue) \in Nat
    BY LenProperties DEF TInv
  <1> QED BY <1>1, <1>2

\* The user and the server: what they do is queued, where the queue leads.
LEMMA CalmEnqueue ==
  ASSUME TInv, CInv, Calm, UNCHANGED <<situation, grabbed>>,
         NEW e \in Events, Enqueue(e),
         grab'.win \in situation.clients \cup {NULL},
         Step(e, grab.win, grab'.win)
  PROVE  Leads(queue', situation'.clients, grabbed', grab'.win)
  <1>1. queue \in Seq(Events) /\ Leads(queue, situation.clients, grabbed, grab.win)
    BY DEF TInv, CInv
  <1>2. Leads(Append(queue, e), situation.clients, grabbed, grab'.win)
    BY <1>1, LeadsAppend
  <1> QED BY <1>2 DEF Enqueue

LEMMA PressCalm ==
  ASSUME TInv, CInv, UNCHANGED situation, NEW c \in Clients, NEW b \in Buttons, Press(c, b)
  PROVE  CInv'
  <1> SUFFICES ASSUME Calm' PROVE CInv'
    BY DEF CInv
  <1>1. Calm /\ c \in situation.clients
    BY DEF Calm, CInv, Press
  <1>2. grab' = [win |-> c, button |-> b] /\ grab = NoGrab /\ held = {} /\ held' = {b}
    BY DEF Press
  <1>3. grab' # NoGrab /\ grab'.button = b /\ grab'.win = c /\ grab.win = NULL
    BY <1>2, PointerAssumption, NoGrabWin DEF NoGrab
  <1> DEFINE e == Event("press", c, b)
  <1>4. e \in Events /\ e.typ = "press" /\ e.win = c /\ e.buttons = {}
    BY <1>2, EventTyped DEF TInv
  <1>5. Enqueue(e)
    BY DEF Press
  <1>6. Step(e, grab.win, grab'.win)
    BY <1>3, <1>4 DEF Step
  <1>7. UNCHANGED <<existing, full, visible, registered, grabbed, fault>>
    BY DEF Press, clientVars, buttonVars
  <1> HIDE DEF e
  <1>8. Leads(queue', situation'.clients, grabbed', grab'.win)
    BY <1>1, <1>3, <1>4, <1>5, <1>6, <1>7, CalmEnqueue
  <1> QED BY <1>1, <1>2, <1>3, <1>7, <1>8 DEF CInv

LEMMA ReleaseCalm ==
  ASSUME TInv, CInv, UNCHANGED situation, NEW b \in Buttons, Release(b)
  PROVE  CInv'
  <1> SUFFICES ASSUME Calm' PROVE CInv'
    BY DEF CInv
  <1>1. Calm
    BY DEF Calm
  <1>2. grab # NoGrab /\ b = grab.button /\ held = {b} /\ held' = {} /\ grab' = NoGrab
    BY <1>1 DEF Release, CInv
  <1>3. grab'.win = NULL /\ grab.win \in Clients
    BY <1>2, NoGrabWin, GrabTyped DEF TInv
  <1> DEFINE e == Event("release", grab.win, b)
  <1>4. e \in Events /\ e.typ = "release" /\ e.win = grab.win
    BY <1>3, EventTyped DEF TInv
  <1>5. Enqueue(e)
    BY <1>2 DEF Release
  <1>6. Step(e, grab.win, grab'.win)
    BY <1>3, <1>4 DEF Step
  <1>7. UNCHANGED <<existing, full, visible, registered, grabbed, fault>>
    BY DEF Release, clientVars, buttonVars
  <1> HIDE DEF e
  <1>8. Leads(queue', situation'.clients, grabbed', grab'.win)
    BY <1>1, <1>3, <1>4, <1>5, <1>6, <1>7, CalmEnqueue
  <1> QED BY <1>1, <1>2, <1>7, <1>8 DEF CInv

LEMMA MoveCalm ==
  ASSUME TInv, CInv, UNCHANGED situation, Move
  PROVE  CInv'
  <1> SUFFICES ASSUME Calm' PROVE CInv'
    BY DEF CInv
  <1>1. Calm
    BY DEF Calm
  <1>2. UNCHANGED <<held, grab, existing, full, visible, registered, grabbed, fault>>
    BY DEF Move, clientVars, buttonVars
  <1>3. PICK p \in 0 .. ScreenWidth :
          IF grab.button \in held /\ grab # NoGrab
          THEN Enqueue(MotionTo(p)) ELSE UNCHANGED queue
    BY Zenon DEF Move, MotionTo
  <1>4. Leads(queue', situation'.clients, grabbed', grab'.win)
    <2>1. CASE queue' = queue
      BY <1>1, <1>2, <2>1 DEF CInv
    <2>2. CASE grab # NoGrab /\ Enqueue(MotionTo(p))
      <3>1. p \in Int
        BY PointerIsInt DEF TInv
      <3>2. /\ MotionTo(p) \in Events /\ MotionTo(p).typ = "motion"
            /\ MotionTo(p).win = grab.win
        BY <2>2, <3>1, MotionTyped DEF TInv
      <3>3. Step(MotionTo(p), grab.win, grab'.win)
        BY <1>2, <3>2 DEF Step
      <3>4. grab'.win \in situation.clients \cup {NULL}
        BY <1>1, <1>2, CalmGrab
      <3> QED BY <1>1, <1>2, <2>2, <3>2, <3>3, <3>4, CalmEnqueue
    <2> QED BY <1>3, <2>1, <2>2
  <1> QED BY <1>1, <1>2, <1>4 DEF CInv

\* natwm: an event finds what the ones before it left, and what it needs.
LEMMA HandleCalm ==
  ASSUME TInv, CInv, StateTogether, UNCHANGED situation, Handle
  PROVE  CInv'
  <1> SUFFICES ASSUME Calm' PROVE CInv'
    BY DEF CInv
  <1> DEFINE e == Head(queue)
             C == situation.clients
  <1>1. Calm
    BY DEF Calm
  <1>2. /\ queue # <<>> /\ queue \in Seq(Events) /\ queue' = Tail(queue)
        /\ UNCHANGED <<pointer, held, grab, existing>>
    BY DEF Handle, serverVars, TInv
  <1>3. e \in Events /\ e = queue[1] /\ e.win \in Clients
    BY <1>2, HeadTyped
  <1>4. PICK mid \in C \cup {NULL} : Step(e, grabbed, mid) /\ Leads(Tail(queue), C, mid, grab.win)
    BY <1>1, <1>2, <1>3, LeadsTail DEF CInv
  <1>5. e.win # NULL /\ C \subseteq Clients
    BY <1>3, PointerAssumption DEF TInv, TypeOK
  <1>6. /\ full = {} /\ visible = C /\ registered = C /\ fault = "none"
    BY <1>1 DEF CInv
  <1>7. /\ grabbed' = mid
        /\ UNCHANGED <<full, visible, registered, fault>>
    <2> USE DEF clientVars, buttonVars, Ignored, Fault
    <2>1. CASE e.typ = "press"
      <3>1. HandlePress(e) /\ e.buttons = {} /\ grabbed = NULL /\ mid = e.win
        BY <1>4, <2>1 DEF Handle, Step
      <3>2. ~GrabRefused(e)
        BY <1>4, <1>5, <1>6, <3>1 DEF GrabRefused
      <3> QED BY <3>1, <3>2 DEF HandlePress
    <2>2. CASE e.typ = "motion"
      <3>1. HandleMotion(e) /\ grabbed = e.win /\ mid = e.win
        BY <1>4, <2>2 DEF Handle, Step
      <3>2. monitorRect = "set" /\ grabbed \in registered
        BY CalmGrab, <1>1, <1>5, <1>6, <3>1 DEF StateTogether
      <3> QED BY <3>1, <3>2 DEF HandleMotion, Drag
    <2>3. CASE e.typ = "release"
      <3>1. HandleRelease(e) /\ grabbed = e.win /\ mid = NULL
        BY <1>4, <2>3 DEF Handle, Step
      <3>2. grabbed \in registered /\ grabbed \in visible
        BY CalmGrab, <1>1, <1>5, <1>6, <3>1
      <3> QED BY <1>5, <3>1, <3>2 DEF HandleRelease, Reset
    <2> QED BY <1>4, <2>1, <2>2, <2>3 DEF Step
  <1>8. Leads(queue', situation'.clients, grabbed', grab'.win)
    BY <1>2, <1>4, <1>7
  <1> QED BY <1>1, <1>2, <1>7, <1>8 DEF CInv

LEMMA OthersCalm ==
  ASSUME TInv, CInv, UNCHANGED situation,
         \/ \E c \in Clients : Destroy(c) \/ Hide(c) \/ Show(c) \/ Fullscreen(c)
         \/ \E b \in Buttons : PressMore(b)
  PROVE  CInv'
  <1>1. ~Calm
    BY DEF Calm, Destroy, Hide, Show, Fullscreen, PressMore
  <1> QED BY <1>1 DEF CInv, Calm

LEMMA StepCalm ==
  ASSUME TInv, IInv, CInv, [Next]_vars
  PROVE  CInv'
  <1>1. CASE UNCHANGED vars
    BY <1>1 DEF vars, CInv, Calm
  <1>2. CASE Next
    <2>1. UNCHANGED situation
      BY <1>2 DEF Next
    <2>2. CASE \E c \in Clients, b \in Buttons : Press(c, b)
      BY <2>1, <2>2, PressCalm
    <2>3. CASE \E b \in Buttons : PressMore(b) \/ Release(b)
      BY <2>1, <2>3, OthersCalm, ReleaseCalm
    <2>4. CASE Move
      BY <2>1, <2>4, MoveCalm
    <2>5. CASE \E c \in Clients : Destroy(c) \/ Hide(c) \/ Show(c) \/ Fullscreen(c)
      BY <2>1, <2>5, OthersCalm
    <2>6. CASE Handle
      BY <2>1, <2>6, HandleCalm DEF IInv
    <2> QED BY <1>2, <2>2, <2>3, <2>4, <2>5, <2>6 DEF Next
  <1> QED BY <1>1, <1>2

LEMMA InitCalm == Init => CInv
  <1> SUFFICES ASSUME Init PROVE CInv
    OBVIOUS
  <1>1. Leads(queue, situation.clients, grabbed, grab.win)
    BY LeadsEmpty, NoGrabWin DEF Init
  <1> QED BY <1>1 DEF Init, CInv

\* The parts of the invariant together.
LEMMA Inductive == Spec => [](TInv /\ IInv /\ CInv)
  <1> DEFINE All == TInv /\ IInv /\ CInv
  <1>1. Init => All
    BY InitTyped, InitTogether, InitCalm
  <1>2. All /\ [Next]_vars => All'
    BY StepTyped, StepTogether, StepCalm
  <1> HIDE DEF All
  <1>3. Spec => []All
    BY <1>1, <1>2, PTL DEF Spec
  <1> QED BY <1>3 DEF All

\* One button at a time, and clients that stay: no motion is handled without a
\* rectangle, no motion and no release with a client that was freed
\* (event_handle_motion_notify, button_handle_resize_end), for any number of
\* clients and however many events natwm lags behind.
THEOREM NothingMissing == Spec => []NoFault
  <1>1. CInv => NoFault
    BY DEF CInv, NoFault
  <1> QED BY Inductive, <1>1, PTL

\* In the same situations a client is grabbed only while the server's grab on its
\* window lasts or its release is still queued: no gesture acts on the client of
\* another (button_handle_grab and button_state_reset).
THEOREM OwnClientOnly == Spec => []GrabbedHeld
  <1>1. TInv /\ CInv => GrabbedHeld
    <2> SUFFICES ASSUME TInv, CInv, Calm, grabbed # NULL, grab.win # grabbed
                 PROVE  \E i \in 1 .. Len(queue) :
                          queue[i].typ = "release" /\ queue[i].win = grabbed
      BY DEF GrabbedHeld
    <2>1. queue \in Seq(Events) /\ Leads(queue, situation.clients, grabbed, grab.win)
      BY DEF TInv, CInv
    <2>2. NULL \notin situation.clients
      BY PointerAssumption DEF TInv, TypeOK
    <2> QED BY <2>1, <2>2, LeadsAway
  <1> QED BY Inductive, <1>1, PTL

------------------------------------------------------------------------------
(* A dragged window is under the pointer *)

\* The event is a press in win, or a motion with the first button held, when the
\* pointer is at p and the window at x.
Fresh(e, win, p, x) ==
  /\ e.win = win /\ e.x = p - x /\ e.root = p
  /\ e.typ \in {"press", "motion"}
  /\ e.typ = "motion" => 1 \in e.buttons

\* With the first button, while natwm is not behind: the last event queued is
\* fresh, before it is nothing but the press that began the gesture, and when
\* nothing is queued the window is under the pointer.
UpToDate ==
  Calm /\ ~behind /\ grab.button = 1 =>
    /\ queue = <<>> /\ pointer <= MonitorWidth => pointer - at[grab.win] = start
    /\ queue # <<>> => /\ Len(queue) <= 2
                       /\ Fresh(queue[Len(queue)], grab.win, pointer, at[grab.win])
    /\ Len(queue) = 2 => queue[1].typ = "press" /\ queue[2].typ = "motion"

\* What the other parts say of the grab that the first button holds.
LEMMA DragGrab ==
  ASSUME TInv, CInv, Calm, grab.button = 1
  PROVE  /\ grab # NoGrab /\ grab.win \in Clients /\ grab.win # NULL /\ held = {1}
         /\ pointer \in Int /\ at[grab.win] \in Int /\ start \in Int /\ full = {}
  <1>1. grab # NoGrab
    BY DEF NoGrab
  <1>2. grab.win \in Clients /\ grab.win # NULL
    BY <1>1, GrabTyped DEF TInv
  <1>3. held = {1} /\ full = {}
    BY <1>1 DEF CInv
  <1>4. at[grab.win] \in Int /\ start \in Int /\ pointer \in Int
    BY <1>2, PointerIsInt DEF TInv, TypeOK
  <1> QED BY <1>1, <1>2, <1>3, <1>4

\* The press that begins a gesture.
LEMMA PressUpToDate ==
  ASSUME TInv, UNCHANGED situation, NEW c \in Clients, NEW b \in Buttons, Press(c, b),
         behind' = Behind
  PROVE  UpToDate'
  <1> SUFFICES ASSUME Calm', ~behind', grab'.button = 1
               PROVE  /\ queue' # <<>> /\ Len(queue') <= 2 /\ Len(queue') # 2
                      /\ Fresh(queue'[Len(queue')], grab'.win, pointer', at'[grab'.win])
    BY DEF UpToDate
  <1> DEFINE e == Event("press", c, b)
  <1>1. /\ Calm /\ grab = NoGrab /\ grab' = [win |-> c, button |-> b] /\ Enqueue(e)
        /\ UNCHANGED <<pointer, at>> /\ c # NULL
    BY PointerAssumption DEF Press, Calm, clientVars
  <1>2. grab' # NoGrab /\ grab'.win = c
    BY <1>1 DEF NoGrab
  <1>3. queue = <<>>
    BY <1>1, <1>2 DEF Behind
  <1>4. e.typ = "press" /\ e.win = c /\ e.x = pointer - at[c] /\ e.root = pointer
    BY <1>1 DEF Event
  <1> HIDE DEF e
  <1>5. queue' = <<e>>
    BY <1>1, <1>3 DEF Enqueue
  <1> QED BY <1>1, <1>2, <1>4, <1>5 DEF Fresh

\* The end of the grab; there is none to be up to date with.
LEMMA ReleaseUpToDate ==
  ASSUME TInv, CInv, UNCHANGED situation, NEW b \in Buttons, Release(b)
  PROVE  UpToDate'
  <1> SUFFICES ASSUME Calm PROVE grab'.button # 1
    BY DEF UpToDate, Calm
  <1>1. grab' = NoGrab
    BY DEF Release, CInv
  <1> QED BY <1>1 DEF NoGrab

\* A motion is measured from where the window is; it is the last event, and one
\* that finds a motion in the queue leaves natwm behind.
LEMMA MoveUpToDate ==
  ASSUME TInv, CInv, UpToDate, UNCHANGED situation, Move, behind' = Behind
  PROVE  UpToDate'
  <1> SUFFICES ASSUME Calm', ~behind', grab'.button = 1
               PROVE  /\ queue' # <<>> /\ Len(queue') <= 2
                      /\ Fresh(queue'[Len(queue')], grab'.win, pointer', at'[grab'.win])
                      /\ Len(queue') = 2 => queue'[1].typ = "press" /\ queue'[2].typ = "motion"
    BY DEF UpToDate
  <1>1. /\ Calm /\ UNCHANGED <<grab, held, at>>
    BY DEF Calm, Move, clientVars
  <1>2. PICK p \in 0 .. ScreenWidth :
          /\ p # pointer /\ pointer' = p
          /\ IF grab.button \in held /\ grab # NoGrab
             THEN Enqueue(MotionTo(p)) ELSE UNCHANGED queue
    BY Zenon DEF Move, MotionTo
  <1>3. /\ grab # NoGrab /\ held = {1} /\ grab.win \in Clients /\ grab.win # NULL
        /\ pointer \in Int /\ at[grab.win] \in Int /\ p \in Int
    BY <1>1, DragGrab, PointerIsInt DEF TInv
  <1> DEFINE e == MotionTo(p)
  <1>4. queue' = Append(queue, e)
    BY <1>1, <1>2, <1>3 DEF Enqueue
  <1>5. /\ e.typ = "motion" /\ e.win = grab.win /\ e.root = p /\ e.buttons = held
        /\ e.x = p - at[grab.win] /\ e \in Events
    <2> DEFINE f == Event("motion", grab.win, 0)
    <2>1. f = [typ |-> "motion", win |-> grab.win, button |-> 0, buttons |-> held,
               x |-> pointer - at[grab.win], root |-> pointer]
      BY <1>3 DEF Event
    <2>4. e = [f EXCEPT !.x = f.x + p - pointer, !.root = p]
      BY <2>1 DEF MotionTo
    <2>2. (pointer - at[grab.win]) + p - pointer = p - at[grab.win]
      BY <1>3
    <2>3. e \in Events
      BY <1>3, MotionTyped DEF TInv
    <2> HIDE DEF f, e
    <2> QED BY <2>1, <2>2, <2>3, <2>4
  <1> HIDE DEF e
  <1>6. queue = <<>> \/ (Len(queue) = 1 /\ queue[1].typ = "press")
    <2>1. \/ queue = <<>>
          \/ ~behind /\ \A i \in DOMAIN queue : queue[i].typ # "motion"
      BY <1>1, <1>2 DEF Behind
    <2>2. queue \in Seq(Events) /\ Len(queue) \in Nat /\ DOMAIN queue = 1 .. Len(queue)
      BY LenProperties DEF TInv
    <2>3. CASE queue # <<>> /\ ~behind
      <3>1. Len(queue) \in 1 .. 2 /\ Len(queue) \in DOMAIN queue
        BY <1>1, <2>2, <2>3, EmptySeq DEF UpToDate
      <3>2. /\ Fresh(queue[Len(queue)], grab.win, pointer, at[grab.win])
            /\ Len(queue) = 2 => queue[2].typ = "motion"
        BY <1>1, <2>3 DEF UpToDate
      <3>3. queue[Len(queue)].typ = "press"
        BY <2>1, <2>3, <3>1, <3>2 DEF Fresh
      <3>4. Len(queue) # 2
        BY <3>2, <3>3
      <3> QED BY <3>1, <3>3, <3>4
    <2> QED BY <2>1, <2>3
  <1>7. Fresh(e, grab'.win, pointer', at'[grab'.win])
    BY <1>1, <1>2, <1>3, <1>5 DEF Fresh
  <1>8. CASE queue = <<>>
    <2>1. queue' = <<e>>
      BY <1>4, <1>8
    <2> QED BY <1>7, <2>1
  <1>9. CASE Len(queue) = 1 /\ queue[1].typ = "press"
    <2>1. queue \in Seq(Events)
      BY DEF TInv
    <2>2. /\ Len(Append(queue, e)) = Len(queue) + 1
          /\ \A i \in 1 .. Len(queue) : Append(queue, e)[i] = queue[i]
          /\ Append(queue, e)[Len(queue) + 1] = e
      BY <1>5, <2>1, AppendProperties
    <2>3. 1 \in 1 .. 1 /\ 1 + 1 = 2 /\ Len(queue) = 1
      BY <1>9
    <2>4. Len(queue') = 2 /\ queue'[1] = queue[1] /\ queue'[2] = e
      BY <1>4, <2>2, <2>3, Zenon
    <2>5. queue' # <<>>
      <3>1. Len(<<>>) = 0 /\ 2 # 0
        OBVIOUS
      <3> QED BY <2>4, <3>1, Zenon
    <2>6. queue'[1].typ = "press" /\ queue'[2].typ = "motion"
      BY <1>5, <1>9, <2>4
    <2>7. Len(queue') <= 2
      BY <2>4
    <2> QED BY <1>7, <2>4, <2>5, <2>6, <2>7, Zenon
  <1> QED BY <1>6, <1>8, <1>9

\* natwm: a fresh press takes hold of the window where the pointer is, and a fresh
\* motion brings the window there.
LEMMA HandleUpToDate ==
  ASSUME TInv, CInv, StateTogether, UpToDate, UNCHANGED situation, Handle, behind' = Behind
  PROVE  UpToDate'
  <1> SUFFICES ASSUME Calm', ~behind', grab'.button = 1
               PROVE  /\ queue' = <<>> /\ pointer' <= MonitorWidth
                           => pointer' - at'[grab'.win] = start'
                      /\ queue' # <<>> =>
                           /\ Len(queue') <= 2
                           /\ Fresh(queue'[Len(queue')], grab'.win, pointer', at'[grab'.win])
                      /\ Len(queue') = 2 => queue'[1].typ = "press" /\ queue'[2].typ = "motion"
    BY DEF UpToDate
  <1> DEFINE e == Head(queue)
  <1>1. /\ Calm /\ UNCHANGED <<pointer, grab, held>>
        /\ queue # <<>> /\ queue' = Tail(queue) /\ queue \in Seq(Events)
    BY DEF Calm, Handle, serverVars, TInv
  <1>2. ~behind
    BY <1>1 DEF Behind
  <1>3. e \in Events /\ e = queue[1] /\ Len(queue) \in 1 .. 2
    <2>1. Len(queue) <= 2 /\ Len(queue) \in Nat /\ Len(queue) # 0
      BY <1>1, <1>2, EmptySeq, LenProperties DEF UpToDate
    <2>2. Len(queue) \in 1 .. 2
      <3>1. \A n \in Nat : n <= 2 /\ n # 0 => n \in 1 .. 2
        OBVIOUS
      <3> QED BY <2>1, <3>1, Zenon
    <2> QED BY <1>1, <2>2, HeadTyped
  <1>4. /\ grab.win \in Clients /\ grab.win # NULL /\ held = {1} /\ full = {}
        /\ pointer \in Int /\ at[grab.win] \in Int /\ start \in Int
    BY <1>1, DragGrab
  <1>5. PICK mid \in situation.clients \cup {NULL} : Step(e, grabbed, mid)
    BY <1>1, <1>3, LeadsTail DEF CInv
  <1>6. Fresh(queue[Len(queue)], grab.win, pointer, at[grab.win])
    BY <1>1, <1>2 DEF UpToDate
  <1>7. ASSUME e.typ = "press"
        PROVE  start' = e.x /\ at' = at
    <2>1. HandlePress(e) /\ e.buttons = {} /\ grabbed = NULL
      BY <1>5, <1>7 DEF Handle, Step
    <2>2. e.win \in registered \cap visible
      <3>1. mid = e.win /\ e.win \in Clients
        BY <1>3, <1>5, <1>7 DEF Step, Events
      <3>2. e.win # NULL
        BY <3>1, PointerAssumption
      <3> QED BY <1>1, <1>5, <3>1, <3>2 DEF CInv
    <2>3. ~GrabRefused(e)
      BY <1>4, <2>1, <2>2 DEF GrabRefused
    <2> QED BY <2>1, <2>3 DEF HandlePress, clientVars
  <1>8. CASE Len(queue) = 1
    <2>1. queue' = <<>> /\ Fresh(e, grab.win, pointer, at[grab.win])
      BY <1>1, <1>3, <1>6, <1>8
    <2>2. ASSUME pointer <= MonitorWidth PROVE pointer - at'[grab.win] = start'
      <3>1. CASE e.typ = "press"
        BY <1>4, <1>7, <2>1, <3>1 DEF Fresh
      <3>2. CASE e.typ = "motion"
        <4>1. HandleMotion(e) /\ grabbed = e.win /\ e.win = grab.win
          BY <1>5, <2>1, <3>2 DEF Handle, Step, Fresh
        <4>2. monitorRect = "set" /\ grabbed \in registered
          <5>1. grabbed \in situation.clients
            BY <1>1, <1>4, <4>1, CalmGrab
          <5> QED BY <1>1, <1>4, <4>1, <5>1 DEF StateTogether, CInv
        <4>3. ~(e.root > MonitorWidth) /\ 1 \in e.buttons /\ grabbed # NULL
          BY <1>4, <2>1, <2>2, <3>2, <4>1, PointerAssumption DEF Fresh
        <4>4. Drag(grabbed, e.x - start)
          BY <1>4, <4>1, <4>2, <4>3 DEF HandleMotion
        <4>5. at'[grab.win] = at[grab.win] + (e.x - start) /\ start' = start
          BY <1>4, <4>1, <4>4 DEF Drag, buttonVars, TInv, TypeOK
        <4>6. e.x = pointer - at[grab.win]
          BY <2>1 DEF Fresh
        <4> QED BY <1>4, <4>5, <4>6
      <3> QED BY <2>1, <3>1, <3>2 DEF Fresh
    <2>3. Len(queue') # 2
      BY <2>1
    <2> QED BY <1>1, <2>1, <2>2, <2>3
  <1>9. CASE Len(queue) = 2
    <2>1. e.typ = "press"
      BY <1>1, <1>2, <1>3, <1>9 DEF UpToDate
    <2>2. Len(queue') = 1 /\ queue'[1] = queue[2]
      BY <1>1, <1>9, HeadTailProperties
    <2>3. queue' # <<>>
      BY <2>2
    <2>4. at' = at
      BY <1>7, <2>1
    <2>5. Fresh(queue[2], grab.win, pointer, at[grab.win])
      BY <1>6, <1>9
    <2>6. Fresh(queue'[Len(queue')], grab'.win, pointer', at'[grab'.win])
      BY <1>1, <2>2, <2>4, <2>5 DEF Fresh
    <2> QED BY <2>2, <2>3, <2>6
  <1> QED BY <1>3, <1>8, <1>9

\* What is only done to clients by others happens in no calm situation.
LEMMA OthersUpToDate ==
  ASSUME UNCHANGED situation,
         \/ \E c \in Clients : Destroy(c) \/ Hide(c) \/ Show(c) \/ Fullscreen(c)
         \/ \E b \in Buttons : PressMore(b)
  PROVE  UpToDate'
  <1>1. ~Calm
    BY DEF Calm, Destroy, Hide, Show, Fullscreen, PressMore
  <1> QED BY <1>1 DEF UpToDate, Calm

LEMMA StepUpToDate ==
  ASSUME TInv, IInv, CInv, UpToDate, [LagNext]_lagVars
  PROVE  UpToDate'
  <1>1. CASE UNCHANGED lagVars
    BY <1>1 DEF lagVars, vars, UpToDate, Fresh, Calm
  <1>2. CASE LagNext
    <2>1. UNCHANGED situation /\ behind' = Behind
      BY <1>2 DEF LagNext, Next
    <2>2. CASE \E c \in Clients, b \in Buttons : Press(c, b)
      BY <2>1, <2>2, PressUpToDate
    <2>3. CASE \E b \in Buttons : PressMore(b) \/ Release(b)
      BY <2>1, <2>3, OthersUpToDate, ReleaseUpToDate
    <2>4. CASE Move
      BY <2>1, <2>4, MoveUpToDate
    <2>5. CASE \E c \in Clients : Destroy(c) \/ Hide(c) \/ Show(c) \/ Fullscreen(c)
      BY <2>1, <2>5, OthersUpToDate
    <2>6. CASE Handle
      BY <2>1, <2>6, HandleUpToDate DEF IInv
    <2> QED BY <1>2, <2>2, <2>3, <2>4, <2>5, <2>6 DEF LagNext, Next
  <1> QED BY <1>1, <1>2

\* In calm situations, on a screen natwm has caught up with and whose last motion
\* it had not fallen behind, a dragged window is under the pointer, where it was
\* taken hold of (button_handle_motion, client_handle_drag): for any clients, any
\* lag and any way of the pointer across the edge of the monitor.
THEOREM UnderPointer == LagSpec => []Follows
  <1> DEFINE All == TInv /\ IInv /\ CInv /\ UpToDate
  <1>1. LagInit => All
    <2>1. LagInit => UpToDate
      BY DEF LagInit, Init, UpToDate, NoGrab
    <2> QED BY <2>1, InitTyped, InitTogether, InitCalm DEF LagInit
  <1>2. All /\ [LagNext]_lagVars => All'
    <2>1. [LagNext]_lagVars => [Next]_vars
      BY DEF LagNext, lagVars
    <2> QED BY <2>1, StepTyped, StepTogether, StepCalm, StepUpToDate
  <1>3. All => Follows
    <2> SUFFICES ASSUME All, Calm, ~behind, queue = <<>>, grabbed # NULL, held = {1},
                        pointer <= MonitorWidth
                 PROVE  pointer - at[grabbed] = start
      BY DEF Follows
    <2>1. Leads(queue, situation.clients, grabbed, grab.win) /\ grab.button = 1
      BY DEF CInv
    <2>2. grabbed = grab.win
      <3>1. Len(queue) = 0
        OBVIOUS
      <3> QED BY <2>1, <3>1 DEF Leads
    <2> QED BY <2>1, <2>2 DEF UpToDate
  <1> HIDE DEF All
  <1>4. LagSpec => []All
    BY <1>1, <1>2, PTL DEF LagSpec
  <1> QED BY <1>3, <1>4, PTL

=============================================================================
