------------------------------- MODULE Deque -------------------------------
(***************************************************************************)
(* What stack.h offers: items are put in at either end, and taken out.     *)
(***************************************************************************)
EXTENDS Sequences, SequencesExt

CONSTANTS Items, NULL

VARIABLES
  content,        \* the items, the one to be popped first
  taken           \* what the last pop or dequeue returned

vars == <<content, taken>>

Init == content = <<>> /\ taken = NULL

Put == \E i \in Items : content' \in {<<i>> \o content, Append(content, i)} /\ UNCHANGED taken

Pop ==
  IF content = <<>> THEN taken' = NULL /\ UNCHANGED content
  ELSE taken' = Head(content) /\ content' = Tail(content)

Dequeue ==
  IF content = <<>> THEN taken' = NULL /\ UNCHANGED content
  ELSE taken' = Last(content) /\ content' = Front(content)

Empty == content' = <<>> /\ UNCHANGED taken

Next == Put \/ Pop \/ Dequeue \/ Empty

Spec == Init /\ [][Next]_vars
=============================================================================
