------------------------------ MODULE MCMmMisload ---------------------------
(***************************************************************************)
(* The board of MCMm with images written one or two pages below            *)
(* PZ_MEM_START.  With PZ_MEM_SIZE of 8 pages the pool gives out at the    *)
(* last table or not at all; that it may as well give out between the two  *)
(* tables of one walk is left to TreeTheorem (MmProofs).                   *)
(***************************************************************************)
EXTENDS Mm

Bytes(f) == f * PAGESZ

MCMemStart == Bytes(12)
MisloadedTextEnds == {Bytes(11), Bytes(10)}
MisloadedMemEnds == {Bytes(13), Bytes(13) + 1, Bytes(14), Bytes(12) + 3}

=============================================================================
