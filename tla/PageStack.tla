------------------------------ MODULE PageStack -----------------------------
(***************************************************************************)
(* What the page allocator promises, with no memory and no links: a stack  *)
(* of free pages.  Pages are donated once each at boot; a request takes    *)
(* the page pushed last, or gets NULL exactly when nothing is free; a page *)
(* handed out can be pushed back by its holder.                            *)
(***************************************************************************)
EXTENDS Sequences

CONSTANTS
  Pages,       \* the pages there are
  NoPage       \* NULL, which is none of them

VARIABLES
  stack,       \* free pages, the one handed out next first
  out,         \* pages in their holders' hands
  got          \* the answer to the last request

absVars == <<stack, out, got>>

OnStack == {stack[i] : i \in DOMAIN stack}

Init == stack = <<>> /\ out = {} /\ got = NoPage

Donate(f) ==
  /\ f \notin OnStack \union out
  /\ stack' = <<f>> \o stack
  /\ UNCHANGED <<out, got>>

Take ==
  /\ stack # <<>>
  /\ got' = Head(stack)
  /\ stack' = Tail(stack)
  /\ out' = out \union {Head(stack)}

Refuse ==
  /\ stack = <<>>
  /\ got' = NoPage
  /\ UNCHANGED <<stack, out>>

Return(f) ==
  /\ f \in out
  /\ stack' = <<f>> \o stack
  /\ out' = out \ {f}
  /\ UNCHANGED got

Next ==
  \/ \E f \in Pages : Donate(f) \/ Return(f)
  \/ Take
  \/ Refuse

Spec == Init /\ [][Next]_absVars

=============================================================================
