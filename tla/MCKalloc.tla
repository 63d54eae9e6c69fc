------------------------------- MODULE MCKalloc -----------------------------
(***************************************************************************)
(* Kalloc on a window of four pages that starts at a page-aligned _mem_end *)
(* or one byte behind one, where the rounding loses a page.                *)
(***************************************************************************)
EXTENDS Kalloc

MCMemEnds == {2 * PAGESZ, 2 * PAGESZ + 1}

=============================================================================
