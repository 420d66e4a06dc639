------------------------------ MODULE MCNatwm ------------------------------
(***************************************************************************)
(* Small instances of Natwm for TLC.                                       *)
(***************************************************************************)
EXTENDS Natwm, TLC

CONSTANTS w1, w2, dock

TwoWindows == {w1, w2}
WithDock   == {w1, w2, dock}
NoDocks    == {}
OneDock    == {dock}

Symmetry == Permutations(TwoWindows)
=============================================================================
