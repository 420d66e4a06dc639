---------------------------- MODULE MCContainers ----------------------------
(***************************************************************************)
(* Small instances of LinkedList and Stack for TLC: with five nodes one    *)
(* can be moved between two neighbours on either side, and with three      *)
(* items there is one between the ends of a stack.                         *)
(***************************************************************************)
EXTENDS Containers

CONSTANTS n1, n2, n3, n4, n5, i1, i2, i3

FiveNodes == {n1, n2, n3, n4, n5}
ThreeItems == {i1, i2, i3}
=============================================================================
