------------------------------ MODULE Screens ------------------------------
(***************************************************************************)
(* How natwm finds the monitors (monitor_setup in monitor.c, randr.c,      *)
(* xinerama.c) and gives them their offsets.  The record of Memory has in  *)
(* addition                                                                *)
(*   lost       the connection to the server is lost: no more replies,     *)
(*   extension  the best one the server has,                               *)
(*   outputs    what it is connected to, "active" or "inactive",           *)
(*   entries    of the option monitor.offsets: "sizes" that can be used,   *)
(*              "sizes" that can not ("bad"), or no array at all,          *)
(*   offsets    of each monitor, in the order they are found: the entry      *)
(*              they are taken from, or Unset.                             *)
(***************************************************************************)
EXTENDS Memory

Unset == 0      \* what malloc returned

Extension == <<"extension", 0>>
MonitorList == <<"monitor_list", 0>>
Monitors == <<"monitors", 0>>
Monitor(k) == <<"monitor", k>>
RandrArray == <<"randr_monitors", 0>>
RandrMonitor(i) == <<"randr_monitor", i>>
Rects == <<"rects", 0>>

Found(s) == 1 .. Len(s.offsets)

\* The monitor at position p of the list: list_insert puts each before those
\* that are there.
At(s, p) == Len(s.offsets) + 1 - p

Listed(s) == {Monitor(k) : k \in Found(s)}
Active(s) == {i \in 1 .. Len(s.outputs) : s.outputs[i] = "active"}

-----------------------------------------------------------------------------
(* Replies.  On a lost connection there is neither a reply nor an error. *)

Asked(s) == {[s EXCEPT !.lost = l] : l \in {s.lost, TRUE}}

\* The reply is compared with NULL only if there is an error, or not at all.
Trusting(s, F(_)) ==
  UNION {IF t.lost THEN {Failed(Fault(t, "reply"))} ELSE F(t) : t \in Asked(s)}

-----------------------------------------------------------------------------
(* monitor.c *)

\* server_extension_detect
Detect(s) ==
  LET none(t) == {Done([t EXCEPT !.extension = "none"])}
      seen(t) == UNION {CASE u.lost \/ u.extension = "none" -> none(u)
                          [] u.extension = "randr" -> {Done(u)}
                          [] u.extension = "xinerama" ->
                               Trusting(u, LAMBDA v : {Done(v)} \cup none(v))
                        : u \in Asked(t)}
  IN  Then(New(s, Extension), seen)

\* monitor_create and list_insert, and what is undone if there is no memory.
Insert(s) ==
  Then(OrElse(New(s, Monitor(Len(s.offsets) + 1)),
              LAMBDA t : FreeAll(t, Listed(t) \cup {Monitors})),
       LAMBDA t : {Done([t EXCEPT !.offsets = Append(@, Unset)])})

\* One output: no monitor if it is inactive, which the server calls an error.
RandrOutput(s, i) ==
  LET create(t) == IF i \notin Active(s) THEN {Done(t)} ELSE New(t, RandrMonitor(i))
      undo(t) == FreeAll(t, {RandrArray} \cup {RandrMonitor(j) : j \in Active(s) \cap 1 .. i - 1})
  IN  Trusting(s, LAMBDA t : Trusting(t, LAMBDA u : OrElse(create(u), undo)))

RandrOutputs(s) == ForEach(Len(s.outputs), s, RandrOutput)

\* randr_get_screens
RandrGetScreens(s) ==
  LET resources == {IF t.lost THEN Failed(t) ELSE Done(t) : t \in Asked(s)}
  IN  Then(Then(resources, LAMBDA t : New(t, RandrArray)), RandrOutputs)

\* What has been found becomes a monitor.
RandrMove(s, i) ==
  IF i \notin Active(s) THEN {Done(s)}
  ELSE Then(Insert(s), LAMBDA t : {Done(Free(t, RandrMonitor(i)))})

RandrMoves(s) == ForEach(Len(s.outputs), s, RandrMove)

MonitorsFromRandr(s) ==
  LET fill(t) == OrElse(RandrGetScreens(t), LAMBDA u : Free(u, Monitors))
  IN  Then(Then(Then(New(s, Monitors), fill), RandrMoves),
           LAMBDA t : {Done(Free(t, RandrArray))})

XineramaMove(s, i) ==
  IF i \notin Active(s) THEN {Done(s)} ELSE OrElse(Insert(s), LAMBDA t : Free(t, Rects))

XineramaMoves(s) == ForEach(Len(s.outputs), s, XineramaMove)

\* xinerama_get_screens, monitors_from_xinerama
MonitorsFromXinerama(s) ==
  LET screens(t) == Trusting(t, LAMBDA u : OrElse(New(u, Rects), LAMBDA v : Free(v, Monitors)))
  IN  Then(Then(Then(New(s, Monitors), screens), XineramaMoves),
           LAMBDA t : {Done(Free(t, Rects))})

\* The whole screen is one monitor.
MonitorFromX(s) == Then(New(s, Monitors), Insert)

\* Mutant: the entries are taken in turn whatever they are, but the monitors
\* only when they get one.
SetOffsetsFilled(s) ==
  LET usable == SelectSeq([i \in 1 .. Len(s.entries) |-> IF s.entries[i] = "sizes" THEN i ELSE Unset],
                          LAMBDA i : i # Unset)
  IN  IF s.entries = <<>> \/ Len(s.offsets) > Len(usable) THEN s
      ELSE [s EXCEPT !.offsets = [k \in Found(s) |-> usable[At(s, k)]]]

\* An entry that is no array leaves the index where it is, one that is no box
\* ends the loop.
SetNext(s, w, k) ==
  CASE w.ended \/ s.entries[w.index] = "scalar" -> w
    [] ~w.ended /\ s.entries[w.index] = "bad" -> [w EXCEPT !.ended = TRUE]
    [] OTHER -> [w EXCEPT !.index = @ + 1, !.offsets[At(s, k)] = w.index]

OffsetsWalk(s) ==
  LET walk[k \in 0 .. Len(s.offsets)] ==
        IF k = 0 THEN [index |-> 1, ended |-> FALSE, offsets |-> s.offsets]
        ELSE SetNext(s, walk[k - 1], k)
  IN  walk

\* monitor_list_set_offsets
SetOffsets(s) ==
  IF s.entries = <<>> \/ Len(s.offsets) > Len(s.entries) THEN s
  ELSE [s EXCEPT !.offsets = OffsetsWalk(s)[Len(s.offsets)].offsets]

\* monitor_setup: a list without monitors is forgotten.
MonitorSetup(s) ==
  LET from(t) ==
        OrElse(CASE t.extension = "randr" -> MonitorsFromRandr(t)
                 [] t.extension = "xinerama" -> MonitorsFromXinerama(t)
                 [] t.extension = "none" -> MonitorFromX(t),
               LAMBDA u : Free(u, Extension))
      list(t) ==
        IF t.offsets = <<>> THEN {Failed(Free(t, Extension))}
        ELSE OrElse(New(t, MonitorList), LAMBDA u : FreeAll(u, {Extension, Monitors}))
  IN  Then(Then(Then(Detect(s), from), list), LAMBDA t : {Done(SetOffsets(t))})

\* monitor_list_destroy
MonitorListDestroy(s) == FreeAll(s, {Extension, Monitors, MonitorList} \cup Listed(s))
=============================================================================
