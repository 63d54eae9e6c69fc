------------------------------- MODULE MCKernel -----------------------------
(***************************************************************************)
(* Kernel on the board of MCMm: 4-entry tables, PZ_MEM_START at frame 12,  *)
(* a window of 8 pages, 5 tables to map it, two stacks of a page each, and *)
(* the UART's registers on a page that is no RAM.                          *)
(***************************************************************************)
EXTENDS Kernel

Bytes(f) == f * PAGESZ

MCMemStart == Bytes(12)

Image(text, stacks, end, shared) ==
  [text_end |-> text, g_stacks |-> stacks, mem_end |-> end, shared |-> shared]

(* Images of 4 and of a little more than 4 pages, which the tables absorb, *)
(* and one of 6 pages, which they do not.  In one of the first the stack   *)
(* of hart 0 reaches down into the text.                                   *)
Small == {Image(Bytes(13), Bytes(13) + 2, Bytes(16), s) : s \in BOOLEAN}
           \union {Image(Bytes(13), Bytes(14), Bytes(16) + 1, FALSE),
                   Image(Bytes(13), Bytes(13) + 1, Bytes(16), FALSE)}
Large == {Image(Bytes(14), Bytes(16), Bytes(18), FALSE)}

(* An image written one page too low.                                      *)
Misloaded == {Image(Bytes(11), Bytes(11) + 2, Bytes(13) + 2, s) :
                s \in BOOLEAN}

MCImages == Misloaded \union Small \union Large
MCMemEnds == {im.mem_end : im \in MCImages}
MCTextEnds == {im.text_end : im \in MCImages}

=============================================================================
