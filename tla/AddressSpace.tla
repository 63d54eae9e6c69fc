----------------------------- MODULE AddressSpace ---------------------------
(***************************************************************************)
(* What building the kernel's address space promises, with no tables: the  *)
(* pages of a given map are installed one after the other until the map is *)
(* complete, and an installed page keeps its frame and permissions.        *)
(***************************************************************************)
VARIABLES
  wanted,      \* the map to build: a function from pages to mappings
  space        \* the part of it that is installed

spaceVars == <<wanted, space>>

Init == DOMAIN space = {}

Install(v) ==
  /\ v \in DOMAIN wanted \ DOMAIN space
  /\ space' = [u \in DOMAIN space \union {v} |-> wanted[u]]
  /\ wanted' = wanted

Next == \E v \in DOMAIN wanted : Install(v)

(* Nothing but the wanted map is ever built.                               *)
Safety == Init /\ [][Next]_spaceVars

(* And it is completed.                                                    *)
Spec == Safety /\ WF_spaceVars(Next)

=============================================================================
