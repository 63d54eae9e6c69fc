------------------------------- MODULE MmLinked -----------------------------
(***************************************************************************)
(* The board, and an image in memory where linker.ld links it for.         *)
(***************************************************************************)
EXTENDS Mm

(* The Makefile's addresses: memory starts on a page boundary and lies in  *)
(* the half of the address space that map accepts.                         *)
ASSUME BoardAssumption ==
  /\ MEM_START % PAGESZ = 0
  /\ MAX_VA % PAGESZ = 0
  /\ MEM_START + MEM_SIZE <= MAX_VA
  /\ MAX_VA < WORD

(* linker.ld: the text starts at PZ_MEM_START, is not empty, ends on a     *)
(* page boundary, and _mem_end comes after it.                             *)
LinkedAt(text, end) ==
  /\ text % PAGESZ = 0
  /\ MEM_START < text /\ text < MEM_START + MEM_SIZE
  /\ MEM_START <= end

(* The image at hand is such an image; no step changes that.               *)
Linked == LinkedAt(text_end, mem_end)

(* The pages to map, and the entries of the upper two levels that lead to  *)
(* them.                                                                   *)
PagesToMap == {v \in 0..RAM_TOP : /\ MEM_START <= v * PAGESZ
                                  /\ v * PAGESZ < MEM_START + MEM_SIZE}
RootEntries == {GetLvl(2, v * PAGESZ) : v \in PagesToMap}
MidEntries == {<<GetLvl(2, v * PAGESZ), GetLvl(1, v * PAGESZ)>> : v \in PagesToMap}

(* PZ_MEM_SIZE, 32 MiB, has pages enough for the tables: 8191 at least,    *)
(* where three levels of 512 entries take 20 at most.                      *)
ASSUME RoomAssumption ==
  \A e \in MEM_ENDS :
    1 + Cardinality(RootEntries) + Cardinality(MidEntries)
      <= Cardinality({f \in Frames : /\ e <= f * PAGESZ
                                     /\ (f + 1) * PAGESZ <= e + MEM_SIZE})

=============================================================================
