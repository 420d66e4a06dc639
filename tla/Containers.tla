----------------------------- MODULE Containers -----------------------------
(***************************************************************************)
(* The two containers of src/common that are made of links, side by side:  *)
(* a list and a stack that know nothing of each other.                     *)
(***************************************************************************)
EXTENDS LinkedList

CONSTANT Items      \* of the stack

VARIABLES
  container,                                    \* the one that is used
  head, length, next, outside, taken, stale     \* of the stack

stackVars == <<head, length, next, outside, taken, stale>>

Stacks == INSTANCE Stack

ASSUME ContainersAssumption == Stacks!StackAssumption

ContainersInit == container \in {"list", "stack"} /\ Init /\ Stacks!Init

ContainersNext ==
  /\ UNCHANGED container
  /\ \/ container = "list" /\ Next /\ UNCHANGED stackVars
     \/ container = "stack" /\ Stacks!Next /\ UNCHANGED vars

ContainersSpec == ContainersInit /\ [][ContainersNext]_<<container, vars, stackVars>>

\* What stack.h offers its users, see Stack.
StackIsDeque == Stacks!StackIsDeque
=============================================================================
