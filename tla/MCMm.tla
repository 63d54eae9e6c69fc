--------------------------------- MODULE MCMm -------------------------------
(***************************************************************************)
(* Mm on a board of 26 frames with 4-entry tables: the virtual address     *)
(* space has 32 pages, PZ_MEM_START is frame 12, and the 8-page window     *)
(* crosses both a level-0 and a level-1 boundary (frame 16), so that       *)
(* tables of every level are allocated, shared by several pages and left   *)
(* behind.                                                                 *)
(***************************************************************************)
EXTENDS MmLinked

Bytes(f) == f * PAGESZ

MCMemStart == Bytes(12)

(* Images at PZ_MEM_START with one or two pages of text, _mem_end on a     *)
(* page boundary and off it.                                               *)
LinkedTextEnds == {Bytes(13), Bytes(14)}
LinkedMemEnds == {Bytes(15), Bytes(15) + 2, Bytes(16), Bytes(16) + 1}

=============================================================================
