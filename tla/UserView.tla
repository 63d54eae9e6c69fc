------------------------------- MODULE UserView -----------------------------
(***************************************************************************)
(* What the kernel promises the program that is linked to it, with no free *)
(* list, no tables and no registers: the program is entered once, with the *)
(* address space complete; every page it gets is one the kernel does not   *)
(* need, it has not got already, and it can write to; nothing it does with *)
(* its pages changes the address space; and its return powers the machine  *)
(* off.  The machine may also never get there, or hang.                    *)
(***************************************************************************)
CONSTANT
  Pages        \* the pages there are

VARIABLES
  wanted,      \* the address space the program is to run in
  stage,       \* "boot", "run", "stopped", "off" or "hung"
  space,       \* while the program runs: the address space,
  kept,        \* the pages the kernel keeps (its image, its tables),
  mine         \* and the pages the program holds

viewVars == <<wanted, stage, space, kept, mine>>

NoSpace == [v \in {} |-> v]

(* There is no program to see anything.                                    *)
NoProgram == space = NoSpace /\ kept = {} /\ mine = {}

Init == stage = "boot" /\ NoProgram

Enter ==
  /\ stage = "boot" /\ stage' = "run"
  /\ space' = wanted
  /\ kept' \subseteq Pages
  /\ mine' = {}

Usable(f) == f \in DOMAIN space /\ space[f] = [frame |-> f, perm |-> {"R", "W"}]

Take(f) ==
  /\ stage = "run" /\ UNCHANGED <<stage, space, kept>>
  /\ f \notin kept \union mine
  /\ Usable(f)
  /\ mine' = mine \union {f}

Give(f) ==
  /\ stage = "run" /\ UNCHANGED <<stage, space, kept>>
  /\ f \in mine
  /\ mine' = mine \ {f}

(* The program returns, or the kernel panics before there is one; the      *)
(* machine is switched off; it hangs.                                      *)
Stop == stage \in {"boot", "run"} /\ stage' = "stopped" /\ NoProgram'
PowerOff == stage = "stopped" /\ stage' = "off" /\ NoProgram'
Hang == stage \in {"boot", "run"} /\ stage' = "hung" /\ NoProgram'

Next ==
  /\ wanted' = wanted
  /\ \/ Enter
     \/ \E f \in Pages : Take(f) \/ Give(f)
     \/ Stop \/ PowerOff \/ Hang

Spec == Init /\ [][Next]_viewVars

=============================================================================
