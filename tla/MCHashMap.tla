----------------------------- MODULE MCHashMap -----------------------------
(***************************************************************************)
(* Small instances of HashMap for TLC.                                     *)
(***************************************************************************)
EXTENDS HashMap

CONSTANTS k1, k2, k3, k4, v1, v2

FourKeys  == {k1, k2, k3, k4}
TwoValues == {v1, v2}

\* Strings: one hash each; all collide around the end of a table of four and
\* of one of eight.
Strings == [k \in Keys |-> IF k = k4 THEN {7} ELSE IF k = k2 THEN {14} ELSE {6}]

\* Windows: their hash changes with the bytes after them.
Windows == [k \in Keys |-> IF k \in {k1, k2} THEN {0, 3, 6} ELSE {2, 7}]

\* The items of the configuration and client_map.
BothUses == {[calls |-> "overwrite", hashes |-> Strings, bound |-> 6],
             [calls |-> "delete", hashes |-> Windows, bound |-> 4]}
=============================================================================
