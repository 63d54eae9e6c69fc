---------------------------------- MODULE Mm --------------------------------
(***************************************************************************)
(* The kernel page table, kern/mm.c: pz_mm_init allocates a root table and *)
(* maps two ranges onto themselves, the text readable and executable, the  *)
(* rest of PZ_MEM_SIZE readable and writable.  map() installs one leaf per *)
(* page, walk() descends two levels to it and allocates the tables that    *)
(* are missing on the way, from the same pool as everybody else.           *)
(*                                                                         *)
(* The MMU is still off, so every access is physical.  The allocator of    *)
(* Kalloc boots first; its variables mem, freelist and held are shared.    *)
(***************************************************************************)
EXTENDS Kalloc

CONSTANTS
  MEM_START,   \* PZ_MEM_START, a compile-time address
  TEXT_ENDS,   \* the addresses the symbol _text_end may have
  WORD         \* 2^64, the modulus of address arithmetic

(* The image does not lie in the last page of the 64-bit addresses.        *)
ASSUME MmAssumption ==
  /\ MEM_START \in Nat
  /\ TEXT_ENDS \subseteq Nat
  /\ WORD \in Nat \ {0}
  /\ \A a \in {MEM_START} \union TEXT_ENDS : a + PAGESZ <= WORD

VARIABLES
  text_end,    \* the linker symbol _text_end, fixed for a boot
  ptbl,        \* g_kvm.ptbl
  mpc,         \* where pz_mm_init is
  seg,         \* which of its two kmap calls is running
  var, last, pa,   \* map's locals
  lvl, tbl     \* walk's locals

mapVars == <<seg, var, last, pa>>
walkVars == <<lvl, tbl>>
mmVars == <<text_end, ptbl, mpc, mapVars, walkVars>>
allVars == <<vars, mmVars>>

-----------------------------------------------------------------------------
(* PZ_ARCH_MM_MAX_VA: half of what three levels of tables span.            *)
MAX_VA == (PAGESZ * ENTRIES * ENTRIES * ENTRIES) \div 2

(* 2^38 and a page are below 2^64.                                         *)
ASSUME MaxVaAssumption == MAX_VA + PAGESZ <= WORD

(* PZ_ARCH_MM_GET_LVL(lvl, va): the index of va in a table of that level.  *)
Span(l) == CASE l = 0 -> PAGESZ
             [] l = 1 -> PAGESZ * ENTRIES
             [] l = 2 -> PAGESZ * ENTRIES * ENTRIES
GetLvl(l, va) == (va \div Span(l)) % ENTRIES

Valid(w) == "V" \in w.flags

(* A bug MCMm finds: the low bits are not shifted out.                     *)
PteFrameUnshifted(w) == WILD

(* PZ_ARCH_MM_PTE2PA of the entry, as a frame.                             *)
PteFrame(w) == IF w.kind = "pte" THEN w.frame ELSE WILD

(* Bugs the runs find: text left writable; the text range a byte too long  *)
(* or a page too short; data left read-only.                               *)
SegmentAs(i, more, text, data) ==
  IF i = 1
  THEN [va |-> MEM_START, sz |-> (text_end - MEM_START + more) % WORD,
        perm |-> text]
  ELSE [va |-> text_end, sz |-> (MEM_START + MEM_SIZE - text_end) % WORD,
        perm |-> data]
SegmentWritableText(i) == SegmentAs(i, 0, {"R", "W", "X"}, {"R", "W"})
SegmentTooLong(i) == SegmentAs(i, 1, {"R", "X"}, {"R", "W"})
SegmentTooShort(i) == SegmentAs(i, -PAGESZ, {"R", "X"}, {"R", "W"})
SegmentReadOnlyData(i) == SegmentAs(i, 0, {"R", "X"}, {"R"})

(* The arguments of pz_mm_init's two kmap calls; sizes are unsigned.       *)
Segment(i) ==
  IF i = 1
  THEN [va |-> MEM_START, sz |-> (text_end - MEM_START) % WORD,
        perm |-> {"R", "X"}]
  ELSE [va |-> text_end, sz |-> (MEM_START + MEM_SIZE - text_end) % WORD,
        perm |-> {"R", "W"}]

(* The entry that walk is at, and its value.                               *)
Index == GetLvl(lvl, var)
Entry == mem[tbl][Index]

-----------------------------------------------------------------------------
MmInit ==
  /\ text_end \in TEXT_ENDS
  /\ text_end <= mem_end
  /\ ptbl = NULL
  /\ mpc = "mm_init"
  /\ seg = 1
  /\ var = 0 /\ last = 0 /\ pa = 0
  /\ lvl = 2 /\ tbl = NULL

(* g_kvm.ptbl = pz_alloc_pnew(), cleared.  The result is not checked: with *)
(* an empty pool the memset stores to address 0, where there is no RAM.    *)
MmRoot ==
  /\ phase = "ready"
  /\ mpc = "mm_init"
  /\ PopFreelist
  /\ ptbl' = freelist
  /\ IF freelist = NULL
     THEN mpc' = "trap" /\ mem' = mem
     ELSE mpc' = "kmap" /\ mem' = [MemAfterNew EXCEPT ![freelist] =
                                                        Filled(Ptr(NULL))]
  /\ UNCHANGED <<mem_end, phase, p, text_end, mapVars, walkVars>>

(* A bug the runs find: last is the page after the range.                  *)
LastPageOnePast(s) == RoundDown((s.va + s.sz) % WORD, PAGESZ)

LastPage(s) == RoundDown((s.va + s.sz - 1) % WORD, PAGESZ)

(* map(): the empty range is refused; otherwise the first and last page of *)
(* the range are computed and the first walk starts.                       *)
MapEnter ==
  LET s == Segment(seg) IN
  /\ mpc = "kmap"
  /\ IF s.sz = 0
     THEN mpc' = "panic" /\ UNCHANGED <<var, last, pa, walkVars>>
     ELSE /\ mpc' = "walk"
          /\ var' = RoundUp(s.va, PAGESZ)
          /\ last' = LastPage(s)
          /\ pa' = s.va
          /\ lvl' = 2
          /\ tbl' = ptbl
  /\ UNCHANGED <<vars, text_end, ptbl, seg>>

(* walk(): the address check comes first.                                  *)
WalkTooLarge ==
  /\ mpc = "walk" /\ lvl = 2
  /\ var >= MAX_VA
  /\ mpc' = "panic"
  /\ UNCHANGED <<vars, text_end, ptbl, mapVars, walkVars>>

InWalk == mpc = "walk" /\ var < MAX_VA

(* walk(): the table of the next level is there.                           *)
WalkDown ==
  /\ InWalk /\ lvl > 0
  /\ Valid(Entry)
  /\ tbl' = PteFrame(Entry)
  /\ lvl' = lvl - 1
  /\ UNCHANGED <<vars, text_end, ptbl, mpc, mapVars>>

(* A bug the runs find: the new table is not linked to its parent.         *)
MemAfterWalkUnlinked == [MemAfterNew EXCEPT ![freelist] = Filled(Ptr(NULL))]

MemAfterWalk == [MemAfterNew EXCEPT ![freelist] = Filled(Ptr(NULL)),
                                    ![tbl][Index] = Pte(freelist, {"V"})]

(* walk(): it is missing.  pz_alloc_pnew gives a page, which is cleared    *)
(* and linked.                                                             *)
WalkAlloc ==
  /\ InWalk /\ lvl > 0
  /\ ~Valid(Entry)
  /\ freelist # NULL
  /\ PopFreelist
  /\ mem' = MemAfterWalk
  /\ tbl' = freelist
  /\ lvl' = lvl - 1
  /\ UNCHANGED <<mem_end, phase, p, text_end, ptbl, mpc, mapVars>>

(* A bug MCMmMisload finds: kmap does not look at map's result.            *)
FailedMapIgnored == "mapped"

(* kmap panics when map returns an error.                                  *)
FailedMap == "panic"

(* walk(): it is missing, and there is no page: walk() returns 0, map() -2.*)
WalkNoPage ==
  /\ InWalk /\ lvl > 0
  /\ ~Valid(Entry)
  /\ freelist = NULL
  /\ PopFreelist
  /\ mpc' = FailedMap
  /\ UNCHANGED <<mem_end, mem, phase, p, text_end, ptbl, mapVars, walkVars>>

(* map(): an entry that is already there is never replaced; a free one is  *)
(* set, and the loop goes to the next page, the next kmap, or the end.     *)
MapSet ==
  /\ InWalk /\ lvl = 0
  /\ IF Valid(Entry)
     THEN mpc' = "panic" /\ UNCHANGED <<mem, seg, var, pa, walkVars>>
     ELSE /\ mem' = [mem EXCEPT ![tbl][Index] =
                       Pte(FrameOf(pa), Segment(seg).perm \union {"V"})]
          /\ IF var = last
             THEN /\ mpc' = IF seg = 1 THEN "kmap" ELSE "mapped"
                  /\ seg' = 2
                  /\ UNCHANGED <<var, pa, walkVars>>
             ELSE /\ var' = (var + PAGESZ) % WORD
                  /\ pa' = (pa + PAGESZ) % WORD
                  /\ lvl' = 2
                  /\ tbl' = ptbl
                  /\ UNCHANGED <<mpc, seg>>
  /\ UNCHANGED <<mem_end, freelist, phase, p, held, ret, text_end, ptbl, last>>

MmStep ==
  \/ MmRoot \/ MapEnter
  \/ WalkTooLarge \/ WalkDown \/ WalkAlloc \/ WalkNoPage
  \/ MapSet

BootStep == Boot /\ UNCHANGED mmVars

MmNext == BootStep \/ MmStep

(* Boot code is sequential and nothing interrupts it: it runs on.          *)
MmSpec ==
  Init /\ MmInit /\ [][MmNext]_allVars /\ WF_allVars(MmNext)

-----------------------------------------------------------------------------
(* The types of the variables.                                             *)
MmTypeOK ==
  /\ TypeOK
  /\ text_end \in TEXT_ENDS
  /\ ptbl \in Frames \union {NULL}
  /\ mpc \in {"mm_init", "kmap", "walk", "mapped", "panic", "trap"}
  /\ seg \in {1, 2}
  /\ var \in 0..WORD-1 /\ last \in 0..WORD-1 /\ pa \in 0..WORD-1
  /\ lvl \in 0..2
  /\ tbl \in Frames \union {NULL}

-----------------------------------------------------------------------------
(* The tree of tables as the MMU would read it.                            *)
Child(t, i) == IF Valid(mem[t][i]) THEN {PteFrame(mem[t][i])} ELSE {}
Children(t) == UNION {Child(t, i) : i \in Slots}
Roots == {ptbl} \intersect Frames
Mids == UNION {Children(t) : t \in Roots}
Leaves == UNION {Children(t) : t \in Mids}

(* The leaf entry for a virtual address, or an invalid word.               *)
Translate(va) ==
  LET down(ts, l) == UNION {Child(t, GetLvl(l, va)) : t \in ts}
      found == down(down(Roots, 2), 1)
  IN  IF found = {} THEN Ptr(NULL)
      ELSE mem[CHOOSE t \in found : TRUE][GetLvl(0, va)]

VirtualPages == 0..(MAX_VA \div PAGESZ) - 1

(* What is mapped: virtual page -> frame and permissions.                  *)
Space ==
  LET at == [v \in VirtualPages |-> Translate(v * PAGESZ)]
  IN  [v \in {u \in VirtualPages : Valid(at[u])} |->
         [frame |-> PteFrame(at[v]), perm |-> at[v].flags \ {"V"}]]

(* What pz_mm_init is to map for the image at hand: each page onto itself, *)
(* the text executable and not writable, the rest the other way round.     *)
Wanted ==
  [v \in {u \in Nat \intersect 0..RAM_TOP :
             MEM_START <= u * PAGESZ /\ u * PAGESZ < MEM_START + MEM_SIZE} |->
     [frame |-> v,
      perm |-> IF v * PAGESZ < text_end THEN {"R", "X"} ELSE {"R", "W"}]]

(* TablesAreATree: the pages taken from the allocator are exactly the      *)
(* tables reachable from the root, each is referenced by one entry only,   *)
(* and none of them is on the free list: no table leaks, none is shared,   *)
(* in the middle of a walk as at its end.                                  *)
TablesAreATree ==
  LET tables == Roots \union Mids \union Leaves
      entries(ts) == {e \in ts \X Slots : Valid(mem[e[1]][e[2]])}
  IN  /\ tables = held
      /\ Cardinality(tables) =
           Cardinality(Roots) + Cardinality(entries(Roots \union Mids))

(* NeverPanics: with an image that starts at PZ_MEM_START, neither a panic *)
(* nor an access through NULL stops the boot; in particular map never      *)
(* meets an entry that is already there, and the pool has enough pages for *)
(* the tables.                                                             *)
NeverPanics == mpc \notin {"panic", "trap"}

(* MappingEnds: pz_mm_init returns.                                        *)
MappingEnds == <>(mpc = "mapped")

(* The loops of free_range, map and walk as one number: map's two ranges,  *)
(* a page of each, a level of walk.                                        *)
TurnsLeft ==
  LET stop == mem_end + MEM_SIZE
      perRange == 4 * WORD + 5
      donating == IF phase = "ready" THEN 0
                  ELSE IF p < stop THEN 1 + stop - p ELSE 1
      mapping == CASE mpc \in {"mapped", "panic", "trap"} -> 0
                   [] mpc = "mm_init" -> 2 * perRange
                   [] mpc = "kmap" -> (2 - seg) * perRange + 4 * WORD + 4
                   [] mpc = "walk" -> (2 - seg) * perRange + 4 * (WORD - var) + lvl
  IN  donating + mapping

(* EndComesNearer: with no image does a loop of the boot go round in       *)
(* circles.  free_range's bound and map's exit, var = last, may be missed, *)
(* as last is below var when the size of a range has wrapped; then walk's  *)
(* address check stops map before var wraps itself.                        *)
EndComesNearer ==
  [][TurnsLeft' \in Nat /\ TurnsLeft' < TurnsLeft]_allVars

Goal == INSTANCE AddressSpace WITH wanted <- Wanted, space <- Space

(* BuildsAddressSpace: seen through the MMU's translation, the boot maps   *)
(* the wanted pages one at a time, each onto itself with its final         *)
(* permissions, changes no mapping once made and maps nothing else: at no  *)
(* moment is text writable or data executable.                             *)
BuildsAddressSpace == Goal!Safety

(* ImplementsAddressSpace: and it leaves none of the wanted pages out.     *)
ImplementsAddressSpace == Goal!Spec

(* MisloadCaught: an image that runs below PZ_MEM_START (the address the   *)
(* Makefile writes it to against the one it is linked for) is stopped by a *)
(* panic: the size of the text range wraps, and the map runs into the end  *)
(* of the pool or of the address space before it wraps itself.             *)
MisloadCaught == <>(mpc = "panic")

=============================================================================
