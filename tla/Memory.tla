------------------------------- MODULE Memory -------------------------------
(***************************************************************************)
(* Memory as far as setting up and tearing down is concerned.  Each thing  *)
(* natwm allocates is allocated at most once in the life of the process    *)
(* and has one pointer to it, so that both go by one name: <<name, i>>,    *)
(* the i-th of its kind.  s is a record with at least                      *)
(*   live   what is allocated,                                             *)
(*   set    the pointers that point to what they are named for,            *)
(*   wild   the pointers in memory nobody has written to, not NULL,        *)
(*   fault  "memory" after a wild pointer was followed, or a pointer to    *)
(*          what is not allocated; "reply" after a NULL one was.           *)
(* All other pointers are NULL.                                            *)
(*                                                                         *)
(* A call that can fail is the set of its outcomes.                        *)
(***************************************************************************)
EXTENDS Integers, Sequences

Done(s) == [ok |-> TRUE, state |-> s]
Failed(s) == [ok |-> FALSE, state |-> s]

Fault(s, kind) == [s EXCEPT !.fault = IF @ = "none" THEN kind ELSE @]
Faulted(s) == s.fault # "none"

\* F after a call that succeeded.
Then(outcomes, F(_)) ==
  UNION {IF r.ok THEN F(r.state) ELSE {r} : r \in outcomes}

\* F, and nothing of what it has done remains if it fails but what "goto
\* handle_error" and the like leave: Undo is what they do.
OrElse(outcomes, Undo(_)) ==
  {IF r.ok \/ Faulted(r.state) THEN r ELSE Failed(Undo(r.state)) : r \in outcomes}

\* F for 1 to n, as long as it succeeds; and the outcomes after each of them.
Rounds(n, s, F(_, _)) ==
  LET upTo[i \in 0 .. n] ==
        IF i = 0 THEN {Done(s)} ELSE Then(upTo[i - 1], LAMBDA t : F(t, i))
  IN  upTo

ForEach(n, s, F(_, _)) == Rounds(n, s, F)[n]

\* malloc and calloc may fail; what malloc returns holds in its pointers, the
\* fields, what happens to be there: NULL, or anything.
Calloc(s, o) == {Failed(s), Done([s EXCEPT !.live = @ \cup {o}])}

Malloc(s, o, fields) ==
  Then(Calloc(s, o),
       LAMBDA t : {Done([t EXCEPT !.wild = @ \cup rest]) : rest \in {{}, fields}})

\* The pointer to o is written.
Assign(s, o) == [s EXCEPT !.set = @ \cup {o}, !.wild = @ \ {o}]

\* Allocates o and keeps it.
New(s, o) == Then(Calloc(s, o), LAMBDA t : {Done(Assign(t, o))})

\* To follow a pointer that was not compared with NULL.
Use(s, o) == IF o \in s.live THEN s ELSE Fault(s, "memory")

Free(s, o) == IF o \in s.live THEN [s EXCEPT !.live = @ \ {o}] ELSE Fault(s, "memory")

FreeAll(s, os) ==
  IF os \subseteq s.live THEN [s EXCEPT !.live = @ \ os] ELSE Fault(s, "memory")

\* if (pointer != NULL) destroy(pointer)
Release(s, o, Destroy(_)) ==
  IF o \in s.wild THEN Fault(s, "memory") ELSE IF o \in s.set THEN Destroy(s) ELSE s
=============================================================================
