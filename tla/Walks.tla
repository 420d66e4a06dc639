------------------------------- MODULE Walks -------------------------------
(***************************************************************************)
(* LIST_FOR_EACH and STACK_FOR_EACH: from the first node along the links   *)
(* until they end.                                                         *)
(***************************************************************************)
EXTENDS Integers

\* The nodes that are visited, and null from where the links have ended.  They
\* may run in a circle; bound is how far they are followed.
Visits(start, link, null, bound) ==
  LET at[i \in 1 .. bound] ==
        IF i = 1 THEN start
        ELSE IF at[i - 1] = null THEN null ELSE link[at[i - 1]]
  IN  at

\* The same as a sequence.
Walk(start, link, null, bound) ==
  LET visits == Visits(start, link, null, bound)
  IN  [i \in {j \in 1 .. bound : visits[j] # null} |-> visits[i]]
=============================================================================
