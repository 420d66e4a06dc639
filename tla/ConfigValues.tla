---------------------------- MODULE ConfigValues ----------------------------
(***************************************************************************)
(* Values of the configuration and the maps that hold them.  One character *)
(* of a text is one element of a sequence; the words true and false are    *)
(* one character.                                                          *)
(***************************************************************************)
EXTENDS Null, Naturals, Sequences

Quote   == "\""
NewLine == "\n"
Space   == " "

\* A value has a type and data: the characters of a number, a boolean or a
\* string, the name of a variable, the values of an array.
Scalar(type, data) == [type |-> type, data |-> data]

\* A map is a function from the names that are defined.
NoNames == [name \in {} |-> NULL]

Put(map, name, value) == [n \in DOMAIN map \cup {name} |-> IF n = name THEN value ELSE map[n]]
=============================================================================
