----------------------------- MODULE Dictionary -----------------------------
(***************************************************************************)
(* What map.h offers its callers: a value for a key, the last one put.     *)
(***************************************************************************)
CONSTANTS Keys, Values, NULL

VARIABLES
  content,        \* key -> its value, or NULL
  answer          \* of the last Get

vars == <<content, answer>>

Init ==
  /\ content = [k \in Keys |-> NULL]
  /\ answer = NULL

Put(k, v) ==
  /\ content' = [content EXCEPT ![k] = v]
  /\ UNCHANGED answer

Remove(k) ==
  /\ content' = [content EXCEPT ![k] = NULL]
  /\ UNCHANGED answer

Get(k) ==
  /\ answer' = content[k]
  /\ UNCHANGED content

Next == \E k \in Keys : Get(k) \/ Remove(k) \/ \E v \in Values : Put(k, v)

Spec == Init /\ [][Next]_vars
=============================================================================
