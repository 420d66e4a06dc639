---------------------------- MODULE MCPlacement ----------------------------
(***************************************************************************)
(* A small instance of Placement for TLC: two monitors side by side.       *)
(***************************************************************************)
EXTENDS Placement

SideBySide == <<[at |-> 0, length |-> 6], [at |-> 6, length |-> 4]>>

SomeOffsets == {[near |-> 1, far |-> 1]}
NoOffsets   == {}

TwoSpans  == {[at |-> -3, size |-> 9], [at |-> 2, size |-> 4]}
FewSteps  == {-1, 2}
SomeWidths == [focused |-> 1, unfocused |-> 0]
SizeHints == [min |-> 2, max |-> 5]
=============================================================================
