------------------------------ MODULE MainLoop ------------------------------
(***************************************************************************)
(* The life of the process: main (natwm.c), the thread it starts for       *)
(* wm_event_loop, the signal handler, and the connection to the X server.  *)
(*                                                                         *)
(* Only how many events there are matters here; what their handlers do is  *)
(* the subject of module Natwm.  xcb reads events from the socket whenever *)
(* it waits for a reply and keeps them in a queue of its own, which        *)
(* pselect, looking at the socket, knows nothing of.                       *)
(***************************************************************************)
EXTENDS Integers, Sequences

CONSTANT EventBound     \* events the X server has sent and natwm not handled, at once

ASSUME MainLoopAssumption == EventBound \in Nat

\* The steps of main up to the start of the thread.
Stages == <<"config", "signals", "connect", "screen", "subscribe", "ewmh",
            "buttons", "monitors", "workspaces", "theme">>

LastStage == Len(Stages)

At(name) == CHOOSE i \in 1 .. LastStage : Stages[i] = name

\* The steps that wait for a reply of the server.
Waiting == {"subscribe", "ewmh", "buttons", "monitors"}

VARIABLES
  stage,        \* the next step of main; beyond the last, the thread exists
  exit,         \* of the process: "none" as long as it runs
  status,       \* volatile sig_atomic_t status
  signalled,    \* a signal has been caught
  thread,       \* where wm_event_loop is, or how it has ended
  interrupted,  \* a signal was caught by the thread inside pselect
  connection,   \* "open"; "closed" by the server; xcb knows: "broken"
  wire,         \* events sent and not read from the socket
  queued,       \* read by xcb and not handled
  handled       \* the thread has handled an event

vars == <<stage, exit, status, signalled, thread, interrupted, connection,
          wire, queued, handled>>

mainVars == <<stage, exit>>
xVars    == <<connection, wire, queued>>

Started == stage > LastStage
Running == exit = "none"

\* Types, and: no event is read from the socket twice, nor handled unread, which
\* would leave more or less than there may be.
TypeOK ==
  /\ stage \in 1 .. LastStage + 1
  /\ exit \in {"none", "success", "failure"}
  /\ status \in {"stopped", "running"}
  /\ signalled \in BOOLEAN
  /\ thread \in {"none", "check", "errors", "select", "poll", "handle", "ended", "failed"}
  /\ interrupted \in BOOLEAN
  /\ connection \in {"open", "closed", "broken"}
  /\ wire \in Nat /\ queued \in Nat /\ wire + queued <= EventBound
  /\ handled \in BOOLEAN

Init ==
  /\ stage = 1 /\ exit = "none"
  /\ status = "stopped" /\ signalled = FALSE
  /\ thread = "none" /\ interrupted = FALSE
  /\ connection = "open" /\ wire = 0 /\ queued = 0 /\ handled = FALSE

\* Waiting for a reply with n events queued: xcb reads the events that come
\* before the reply, or finds the connection closed.
Wait(n) ==
  \/ \E k \in 0 .. wire : wire' = wire - k /\ queued' = n + k /\ UNCHANGED connection
  \/ /\ connection = "closed"
     /\ connection' = "broken" /\ queued' = n + wire /\ wire' = 0

-----------------------------------------------------------------------------
(* main *)

\* One step succeeds; a failure to install the signal handlers is only logged.
\* After the last one status is set and the thread is created.
Setup ==
  /\ Running /\ ~Started
  /\ stage' = stage + 1
  /\ IF Stages[stage] \in Waiting THEN Wait(queued) ELSE UNCHANGED <<connection, wire, queued>>
  /\ IF stage = LastStage
     THEN status' = "running" /\ thread' = "check"
     ELSE UNCHANGED <<status, thread>>
  /\ UNCHANGED <<exit, signalled, interrupted, handled>>

\* free_and_error.
SetupFails ==
  /\ Running /\ ~Started /\ Stages[stage] # "signals"
  /\ exit' = "failure"
  /\ UNCHANGED <<stage, status, signalled, thread, interrupted, xVars, handled>>

\* Mutant: the result of the thread is not looked at.
JoinSucceeds ==
  /\ Running /\ thread \in {"ended", "failed"}
  /\ exit' = "success"
  /\ UNCHANGED <<stage, status, signalled, thread, interrupted, xVars, handled>>

\* pthread_join.
Join ==
  /\ Running /\ thread \in {"ended", "failed"}
  /\ exit' = IF thread = "ended" THEN "success" ELSE "failure"
  /\ UNCHANGED <<stage, status, signalled, thread, interrupted, xVars, handled>>

-----------------------------------------------------------------------------
(* wm_event_loop *)

\* handle_error.
LoopFails == thread' = "failed" /\ status' = "stopped"

Goto(place) == thread' = place /\ UNCHANGED status

\* The condition of the loop.
Check ==
  /\ thread = "check"
  /\ Goto(IF status = "running" THEN "errors" ELSE "ended")
  /\ UNCHANGED <<mainVars, signalled, interrupted, xVars, handled>>

\* Mutant: the connection is not looked at.
ErrorsIgnored ==
  /\ thread = "errors"
  /\ Goto("select")
  /\ UNCHANGED <<mainVars, signalled, interrupted, xVars, handled>>

\* xcb_connection_has_error; status is read a second time.
Errors ==
  /\ thread = "errors"
  /\ IF connection = "broken" /\ status = "running" THEN LoopFails ELSE Goto("select")
  /\ UNCHANGED <<mainVars, signalled, interrupted, xVars, handled>>

Readable == wire > 0 \/ connection # "open"

\* Mutant: after a timeout pselect is called again.
SelectAgain ==
  /\ thread = "select"
  /\ \/ interrupted /\ LoopFails
     \/ ~interrupted /\ Readable /\ Goto("poll")
     \/ ~interrupted /\ ~Readable /\ Goto("select")
  /\ UNCHANGED <<mainVars, signalled, interrupted, xVars, handled>>

\* pselect: interrupted, something to read, or 25 milliseconds have passed.
Select ==
  /\ thread = "select"
  /\ \/ interrupted /\ LoopFails
     \/ ~interrupted /\ Readable /\ Goto("poll")
     \/ ~interrupted /\ ~Readable /\ Goto("check")
  /\ UNCHANGED <<mainVars, signalled, interrupted, xVars, handled>>

\* What xcb_poll_for_event returns, and what it leaves in the queue: with an
\* empty queue it reads the socket, with a broken connection it does nothing.
Available == IF connection = "broken" THEN 0 ELSE IF queued = 0 THEN wire ELSE queued

Poll ==
  /\ thread = "poll"
  /\ Goto(IF Available > 0 THEN "handle" ELSE "check")
  /\ queued' = IF Available > 0 THEN Available ELSE queued
  /\ wire' = IF Available > 0 /\ queued = 0 THEN 0 ELSE wire
  /\ connection' = IF Available = 0 /\ connection = "closed" THEN "broken" ELSE connection
  /\ UNCHANGED <<mainVars, signalled, interrupted, handled>>

\* event_handle takes the event, and may wait for replies.
HandleThen(place) ==
  /\ thread = "handle"
  /\ Goto(place)
  /\ \/ queued' = queued - 1 /\ UNCHANGED <<connection, wire>>
     \/ connection # "broken" /\ Wait(queued - 1)
  /\ handled' = TRUE
  /\ UNCHANGED <<mainVars, signalled, interrupted>>

\* Mutant: one event is handled each time pselect returns.
HandleOne == HandleThen("check")

Handle == HandleThen("poll")

-----------------------------------------------------------------------------
(* Signals and the X server *)

\* signal_handler, in whichever thread; only pselect is interrupted, because
\* SA_RESTART does not restart it.
Signal ==
  /\ Running /\ stage > At("signals")
  /\ status' = "stopped" /\ signalled' = TRUE
  /\ interrupted' \in {interrupted, interrupted \/ thread = "select"}
  /\ UNCHANGED <<mainVars, thread, xVars, handled>>

\* Once natwm has subscribed to them, events come, and there is no last one.
Send ==
  /\ Running /\ stage > At("subscribe") /\ connection = "open"
  /\ wire + queued < EventBound
  /\ wire' = wire + 1
  /\ UNCHANGED <<mainVars, status, signalled, thread, interrupted, connection, queued, handled>>

Close ==
  /\ Running /\ stage > At("connect") /\ connection = "open"
  /\ connection' = "closed"
  /\ UNCHANGED <<mainVars, status, signalled, thread, interrupted, wire, queued, handled>>

Main == Setup \/ SetupFails \/ Join
Loop == Check \/ Errors \/ Select \/ Poll \/ Handle

Next == Main \/ Loop \/ Signal \/ Send \/ Close

\* Both threads run; pselect returns within its timeout.
Spec == Init /\ [][Next]_vars /\ WF_vars(Main) /\ WF_vars(Loop)

-----------------------------------------------------------------------------
(* What can be relied on *)

\* EXIT_SUCCESS means a signal has been caught, EXIT_FAILURE of a started
\* process that the connection is lost or pselect was interrupted.
ExitTells ==
  /\ exit = "success" => signalled
  /\ exit = "failure" /\ Started => connection # "open" \/ interrupted

\* The inner loop, which looks at neither status nor the connection, is never
\* left: each time it polls, there is another event.
NeverIdle == [](thread \in {"poll", "handle"})

\* Once the thread exists, a status of STOPPED ends the process, unless from some
\* moment on the next event is always there before the last one is handled.
StopEnds == Started /\ status = "stopped" ~> exit # "none" \/ NeverIdle

\* Once the thread has handled an event, it never waits in pselect while there
\* are events in the queue of xcb, where pselect does not see them.  Events that
\* main has queued are left there until another one comes.
NothingStranded ==
  thread = "select" /\ connection # "broken" /\ handled => queued = 0

\* An event on the socket is eventually read, and handled with all others; with
\* others coming all the time the thread does nothing but handle them.
EventsHandled ==
  thread \notin {"none", "ended", "failed"} /\ wire > 0
    ~> wire + queued = 0 \/ exit # "none" \/ NeverIdle

\* A lost connection ends the process, also while the thread only waits.
LossEnds == Started /\ connection # "open" ~> exit # "none"

-----------------------------------------------------------------------------
(* What comments of the code say, and the code does not do *)

\* natwm.c: "Catch and handle signals".  One before status is set to RUNNING is
\* lost, and so is one that comes while events keep the thread in its inner loop.
SignalEnds == signalled ~> exit # "none"

\* natwm.c: "we timeout and check for any interuptions or errors": an
\* interruption ends the loop the regular way.
InterruptionIsChecked ==
  exit = "failure" /\ Started => connection # "open"

=============================================================================
