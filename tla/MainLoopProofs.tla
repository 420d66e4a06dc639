-------------------------- MODULE MainLoopProofs ---------------------------
(***************************************************************************)
(* Proofs about MainLoop, for any number of events.  One inductive         *)
(* invariant carries all three theorems: TypeOK, the relation between the  *)
(* status, the place of the thread and the way it ends, and what the queue *)
(* of xcb may hold at each place of the loop.                              *)
(***************************************************************************)
EXTENDS MainLoop, TLAPS

\* Where the thread may be.
Places == {"none", "check", "errors", "select", "poll", "handle", "ended", "failed"}

\* Why the thread is where it is, and why the process has exited.
Reasons ==
  /\ Started <=> thread # "none"
  /\ thread \notin {"none", "failed"} /\ status = "stopped" => signalled
  /\ thread = "ended" => signalled
  /\ thread = "failed" => connection # "open" \/ interrupted
  /\ exit = "success" => signalled /\ Started
  /\ exit = "failure" /\ Started => thread = "failed"

\* Before the thread starts nothing is handled; outside of its inner loop
\* nothing is queued once something has been handled.
QueueKept ==
  /\ thread = "none" => ~handled
  /\ thread = "handle" => queued >= 1
  /\ thread \in {"check", "errors", "select"} /\ connection # "broken" /\ handled
       => queued = 0

IInv == TypeOK /\ Reasons /\ QueueKept

-----------------------------------------------------------------------------

\* Waiting for a reply moves events from the socket to the queue of xcb and
\* loses none; the connection only gets worse.
LEMMA WaitKeeps ==
  ASSUME TypeOK, NEW n \in Nat, Wait(n)
  PROVE  /\ wire' \in Nat /\ queued' \in Nat /\ queued' >= n
         /\ wire' + queued' = wire + n
         /\ connection' \in {"open", "closed", "broken"}
         /\ connection # "open" => connection' # "open"
  <1>1. CASE \E k \in 0 .. wire : wire' = wire - k /\ queued' = n + k /\ UNCHANGED connection
    <2>1. PICK k \in 0 .. wire : wire' = wire - k /\ queued' = n + k /\ connection' = connection
      BY <1>1
    <2> QED BY <2>1 DEF TypeOK
  <1>2. CASE connection = "closed" /\ connection' = "broken" /\ queued' = n + wire /\ wire' = 0
    BY <1>2 DEF TypeOK
  <1> QED BY <1>1, <1>2 DEF Wait

\* The ten steps of main.
LEMMA TenStages == LastStage = 10
  BY DEF LastStage, Stages

\* The program starts in a state of the invariant.
LEMMA InitIInv == Init => IInv
  <1> SUFFICES ASSUME Init PROVE IInv
    OBVIOUS
  <1> USE TenStages, MainLoopAssumption DEF Init
  <1>1. TypeOK
    <2>1. (stage \in 1 .. LastStage + 1) /\ (handled \in BOOLEAN)
      <3>1. stage \in 1 .. LastStage + 1
        OBVIOUS
      <3> QED BY <3>1, Zenon
    <2>2. /\ (exit \in {"none", "success", "failure"})
           /\ (status \in {"stopped", "running"}) /\ (thread \in Places)
           /\ (connection \in {"open", "closed", "broken"})
      BY DEF Places
    <2>3. (signalled \in BOOLEAN) /\ (interrupted \in BOOLEAN)
      OBVIOUS
    <2>4. (wire \in Nat /\ queued \in Nat /\ wire + queued <= EventBound)
      OBVIOUS
    <2> QED BY <2>1, <2>2, <2>3, <2>4 DEF TypeOK, Places
  <1>2. Reasons
    BY DEF Reasons, Started
  <1>3. QueueKept
    BY DEF QueueKept
  <1> QED BY <1>1, <1>2, <1>3 DEF IInv

\* A step of main before the thread exists.
LEMMA SetupKeeps == IInv /\ Setup => IInv'
  <1> SUFFICES ASSUME IInv, Setup PROVE IInv'
    OBVIOUS
  <1> USE TenStages, MainLoopAssumption
  <1>1. stage \in 1 .. 10 /\ exit = "none" /\ thread = "none" /\ handled' = FALSE
    BY DEF IInv, TypeOK, Reasons, QueueKept, Setup, Started, Running
  <1>2. /\ wire' \in Nat /\ queued' \in Nat /\ wire' + queued' = wire + queued
        /\ connection' \in {"open", "closed", "broken"}
    <2>1. CASE Wait(queued)
      BY <2>1, <1>1, WaitKeeps DEF Setup, IInv, TypeOK
    <2>2. CASE UNCHANGED <<connection, wire, queued>>
      BY <2>2, <1>1 DEF Setup, IInv, TypeOK
    <2> QED BY <2>1, <2>2 DEF Setup
  <1>3. CASE stage = 10
    <2>1. status' = "running" /\ thread' = "check" /\ stage' = 11
      BY <1>3 DEF Setup
    <2>2. TypeOK'
      <3>1. (stage \in 1 .. LastStage + 1)' /\ (handled \in BOOLEAN)'
        BY <1>1, <1>2, <2>1 DEF Setup, IInv, TypeOK
      <3>2. /\ (exit \in {"none", "success", "failure"})'
             /\ (status \in {"stopped", "running"})' /\ (thread \in Places)'
             /\ (connection \in {"open", "closed", "broken"})'
        BY <1>1, <1>2, <2>1 DEF Setup, IInv, TypeOK, Places
      <3>3. (signalled \in BOOLEAN)' /\ (interrupted \in BOOLEAN)'
        BY <1>1, <1>2, <2>1 DEF Setup, IInv, TypeOK
      <3>4. (wire \in Nat /\ queued \in Nat /\ wire + queued <= EventBound)'
        BY <1>1, <1>2, <2>1 DEF Setup, IInv, TypeOK
      <3> QED BY <3>1, <3>2, <3>3, <3>4 DEF TypeOK, Places
    <2>3. Reasons'
      BY <1>1, <1>2, <2>1 DEF Setup, IInv, Reasons, Started, TypeOK
    <2>4. QueueKept'
      BY <1>1, <2>1 DEF QueueKept
    <2> QED BY <2>2, <2>3, <2>4 DEF IInv
  <1>4. CASE stage # 10
    <2>1. status' = status /\ thread' = "none" /\ stage' \in 2 .. 10
      BY <1>1, <1>4 DEF Setup
    <2>2. TypeOK'
      <3>1. (stage \in 1 .. LastStage + 1)' /\ (handled \in BOOLEAN)'
        BY <1>1, <1>2, <2>1 DEF Setup, IInv, TypeOK
      <3>2. /\ (exit \in {"none", "success", "failure"})'
             /\ (status \in {"stopped", "running"})' /\ (thread \in Places)'
             /\ (connection \in {"open", "closed", "broken"})'
        BY <1>1, <1>2, <2>1 DEF Setup, IInv, TypeOK, Places
      <3>3. (signalled \in BOOLEAN)' /\ (interrupted \in BOOLEAN)'
        BY <1>1, <1>2, <2>1 DEF Setup, IInv, TypeOK
      <3>4. (wire \in Nat /\ queued \in Nat /\ wire + queued <= EventBound)'
        BY <1>1, <1>2, <2>1 DEF Setup, IInv, TypeOK
      <3> QED BY <3>1, <3>2, <3>3, <3>4 DEF TypeOK, Places
    <2>3. Reasons'
      BY <1>1, <1>2, <2>1 DEF Setup, IInv, Reasons, Started, TypeOK
    <2>4. QueueKept'
      BY <1>1, <1>2, <2>1 DEF Setup, IInv, QueueKept, TypeOK
    <2> QED BY <2>2, <2>3, <2>4 DEF IInv
  <1> QED BY <1>3, <1>4

\* A failing step of main, and the end of main after the thread.
LEMMA ExitKeeps == IInv /\ (SetupFails \/ Join) => IInv'
  <1> SUFFICES ASSUME IInv, SetupFails \/ Join PROVE IInv'
    OBVIOUS
  <1> USE TenStages DEF xVars, Started, Running, IInv, TypeOK, Reasons, QueueKept
  <1>1. CASE SetupFails
    BY <1>1 DEF SetupFails
  <1>2. CASE Join
    BY <1>2 DEF Join
  <1> QED BY <1>1, <1>2

\* Arithmetic that the solver misses among variables of the state.
LEMMA OneLess ==
  ASSUME NEW w \in Nat, NEW q \in Nat, NEW s \in Nat, w + q <= s,
         NEW w1 \in Nat, NEW q1 \in Nat, w1 + q1 = w + (q - 1)
  PROVE  w1 + q1 <= s
  OBVIOUS

\* Handling an event leaves one less to read and to handle.
LEMMA HandledOnce ==
  ASSUME TypeOK, queued >= 1, wire' \in Nat, queued' \in Nat,
         wire' + queued' = wire + (queued - 1)
  PROVE  (wire \in Nat /\ queued \in Nat /\ wire + queued <= EventBound)'
  <1>1. wire \in Nat /\ queued \in Nat /\ EventBound \in Nat /\ wire + queued <= EventBound
    BY MainLoopAssumption DEF TypeOK
  <1> QED BY <1>1, OneLess

\* Each step of wm_event_loop.
LEMMA LoopKeeps == IInv /\ Loop => IInv'
  <1> SUFFICES ASSUME IInv, Loop PROVE IInv'
    OBVIOUS
  <1> USE MainLoopAssumption
      DEF IInv, TypeOK, Reasons, QueueKept, Started, mainVars, xVars, Goto, LoopFails
  <1>1. CASE Check
    BY <1>1 DEF Check
  <1>2. CASE Errors
    BY <1>2 DEF Errors
  <1>3. CASE Select
    BY <1>3 DEF Select, Readable
  <1>4. CASE Poll
    BY <1>4 DEF Poll, Available
  <1>5. CASE Handle
    <2>1. thread = "handle" /\ queued >= 1 /\ thread' = "poll" /\ queued - 1 \in Nat
      BY <1>5 DEF Handle, HandleThen
    <2>2. /\ wire' \in Nat /\ queued' \in Nat /\ wire' + queued' = wire + (queued - 1)
          /\ connection' \in {"open", "closed", "broken"}
          /\ connection # "open" => connection' # "open"
      <3>1. CASE queued' = queued - 1 /\ UNCHANGED <<connection, wire>>
        BY <2>1, <3>1
      <3>2. CASE Wait(queued - 1)
        BY <2>1, <3>2, WaitKeeps
      <3> QED BY <1>5, <3>1, <3>2 DEF Handle, HandleThen
    <2>3. TypeOK'
      <3>1. (stage \in 1 .. LastStage + 1)' /\ (handled \in BOOLEAN)'
        BY <1>5, <2>1, <2>2 DEF Handle, HandleThen, IInv, TypeOK
      <3>2. /\ (exit \in {"none", "success", "failure"})'
             /\ (status \in {"stopped", "running"})' /\ (thread \in Places)'
             /\ (connection \in {"open", "closed", "broken"})'
        BY <1>5, <2>1, <2>2 DEF Handle, HandleThen, IInv, TypeOK, Places
      <3>3. (signalled \in BOOLEAN)' /\ (interrupted \in BOOLEAN)'
        BY <1>5, <2>1, <2>2 DEF Handle, HandleThen, IInv, TypeOK
      <3>4. (wire \in Nat /\ queued \in Nat /\ wire + queued <= EventBound)'
        BY <2>1, <2>2, HandledOnce
      <3> QED BY <3>1, <3>2, <3>3, <3>4 DEF TypeOK, Places
    <2>4. Reasons'
      BY <1>5, <2>1, <2>2 DEF Handle, HandleThen, IInv, Reasons, Started, TypeOK
    <2>5. QueueKept'
      BY <1>5, <2>1, <2>2 DEF Handle, HandleThen, IInv, QueueKept, TypeOK
    <2> QED BY <2>3, <2>4, <2>5 DEF IInv
  <1> QED BY <1>1, <1>2, <1>3, <1>4, <1>5 DEF Loop

\* What signals and the X server do.
LEMMA OthersKeep == IInv /\ (Signal \/ Send \/ Close) => IInv'
  <1> SUFFICES ASSUME IInv, Signal \/ Send \/ Close PROVE IInv'
    OBVIOUS
  <1> USE MainLoopAssumption
      DEF IInv, TypeOK, Reasons, QueueKept, Started, Running, mainVars, xVars
  <1>1. CASE Signal
    BY <1>1 DEF Signal
  <1>2. CASE Send
    BY <1>2 DEF Send
  <1>3. CASE Close
    BY <1>3 DEF Close
  <1> QED BY <1>1, <1>2, <1>3

\* Every step preserves the invariant.
LEMMA NextIInv == IInv /\ [Next]_vars => IInv'
  <1> SUFFICES ASSUME IInv, [Next]_vars PROVE IInv'
    OBVIOUS
  <1>1. CASE Next
    BY <1>1, SetupKeeps, ExitKeeps, LoopKeeps, OthersKeep DEF Next, Main
  <1>2. CASE UNCHANGED vars
    BY <1>2 DEF vars, IInv, TypeOK, Reasons, QueueKept, Started
  <1> QED BY <1>1, <1>2

\* The invariant holds in every reachable state.
LEMMA Invariance == Spec => []IInv
  BY InitIInv, NextIInv, PTL DEF Spec

-----------------------------------------------------------------------------

\* Events are neither invented nor read twice, however many there are and
\* wherever xcb happens to read them (natwm.c, wm_event_loop).
THEOREM TypeCorrect == Spec => []TypeOK
  <1>1. IInv => TypeOK
    BY DEF IInv
  <1> QED BY <1>1, Invariance, PTL

\* The exit code of natwm tells a caught signal from a lost connection or an
\* interrupted pselect (natwm.c, main after pthread_join).
THEOREM ExitCodeTells == Spec => []ExitTells
  <1>1. IInv => ExitTells
    BY DEF IInv, Reasons, ExitTells
  <1> QED BY <1>1, Invariance, PTL

\* The inner loop of wm_event_loop is left only with the queue of xcb empty, so
\* pselect never waits for a socket while handled events left others behind.
THEOREM NoneStranded == Spec => []NothingStranded
  <1>1. IInv => NothingStranded
    BY DEF IInv, QueueKept, NothingStranded
  <1> QED BY <1>1, Invariance, PTL

=============================================================================
