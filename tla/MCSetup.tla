------------------------------ MODULE MCSetup ------------------------------
(***************************************************************************)
(* Small instances of Setup for TLC: two workspaces, up to three monitors. *)
(***************************************************************************)
EXTENDS Setup

UpTo(n, S) == UNION {[1 .. k -> S] : k \in 0 .. n}

SomeOutputs == UpTo(3, {"active", "inactive"}) \ {<<>>}
OneOutput == {<<"active">>}

SomeEntries == UpTo(2, {"sizes", "bad", "scalar"}) \cup [1 .. 3 -> {"sizes", "scalar"}]
NoEntries == {<<>>}

\* Lengths around NameMax, fewer and more names than workspaces.
SomeNames == UpTo(2, {Unset, NameMax, NameMax + 1}) \cup {<<1, 1, NameMax + 1>>}
=============================================================================
