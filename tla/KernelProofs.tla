----------------------------- MODULE KernelProofs ---------------------------
(***************************************************************************)
(* Theorems about the boot and the program, for every image, hart and      *)
(* board.  Up to the switch to virtual addresses the steps are those of    *)
(* Kalloc and Mm, whose invariants come along; what an image written too   *)
(* low does and which pages become tables is added.  Then the program      *)
(* calls, and what it can do to the tables is shown.                       *)
(***************************************************************************)
EXTENDS Kernel, MappingProofs

-----------------------------------------------------------------------------
(* An image that runs below PZ_MEM_START: the first range is as long as    *)
(* the address space but for the image's distance from PZ_MEM_START, and   *)
(* map's last page is not between PZ_MEM_START and PZ_ARCH_MM_MAX_VA.      *)
MisloadInv ==
  text_end <= MEM_START =>
    /\ seg = 1 /\ mpc # "mapped"
    /\ mpc = "walk" => /\ Aligned(var) /\ MEM_START <= var
                       /\ last < MEM_START \/ MAX_VA <= last

(* Addresses are numbers, and the bounds of map's range are aligned.       *)
LEMMA AddressTypes ==
  ASSUME MmTypeOK
  PROVE  /\ MEM_START \in Nat /\ text_end \in Nat /\ mem_end \in Nat
         /\ MEM_SIZE \in Nat /\ MAX_VA \in Nat /\ MAX_VA < WORD /\ WORD \in Nat
         /\ var \in Nat /\ last \in Nat
         /\ Aligned(MAX_VA) /\ Aligned(MEM_START)
<1>1. PAGESZ * ENTRIES * ENTRIES * ENTRIES \in Nat
  BY PageAssumption, EntriesAssumption, SMT
<1>2. MAX_VA \in Nat
  BY <1>1, SMT DEF MAX_VA
<1>3. QED
  BY <1>2, BoardAssumption, MmAssumption, LayoutAssumption
  DEF MmTypeOK, TypeOK, Aligned

(* Two different aligned addresses are at least a page apart.              *)
LEMMA PagesApart ==
  ASSUME NEW a \in Nat, NEW b \in Nat, Aligned(a), Aligned(b), a < b
  PROVE  a + PAGESZ <= b
<1>1. PICK k \in Nat, m \in Nat : a = k * PAGESZ /\ b = m * PAGESZ
  BY AlignedIs
<1>2. k * PAGESZ = PAGESZ * k /\ m * PAGESZ = PAGESZ * m
      /\ PAGESZ * (k + 1) = k * PAGESZ + PAGESZ
  BY PageAssumption, SMT
<1>3. k < m
  BY <1>1, <1>2, TimesLess, PageAssumption
<1>4. PAGESZ * (k + 1) <= PAGESZ * m
  BY <1>3, TimesMonotone, PageAssumption
<1>5. QED
  BY <1>1, <1>2, <1>4

(* The text range of such an image either ends below its start or beyond   *)
(* the last address that walk accepts.                                     *)
LEMMA MapEnterMisload ==
  ASSUME MmTypeOK, MisloadInv, text_end <= MEM_START, MapEnter
  PROVE  MisloadInv'
<1>1. /\ MEM_START \in Nat /\ text_end \in Nat /\ MAX_VA \in Nat
      /\ MAX_VA < WORD /\ WORD \in Nat /\ Aligned(MAX_VA)
      /\ MEM_START <= WORD
  BY AddressTypes, MmAssumption, PageAssumption
<1>2. seg = 1 /\ mpc = "kmap" /\ UNCHANGED <<text_end, seg>>
  BY DEF MapEnter, MisloadInv
<1>3. /\ Segment(seg).va = MEM_START
      /\ Segment(seg).sz = (text_end - MEM_START) % WORD
  BY <1>2 DEF Segment
<1>4. CASE text_end = MEM_START
  <2>1. Segment(seg).sz = 0
    BY <1>1, <1>3, <1>4, SMT
  <2>2. mpc' = "panic"
    BY <2>1 DEF MapEnter
  <2>3. QED
    BY <1>2, <2>2 DEF MisloadInv
<1>5. CASE text_end < MEM_START
  <2>1. Segment(seg).sz = WORD + text_end - MEM_START
    BY <1>1, <1>3, <1>5, SMT
  <2>2. Segment(seg).sz # 0
    BY <1>1, <1>5, <2>1, MmAssumption, PageAssumption
  <2>3. mpc' = "walk" /\ var' = RoundUp(MEM_START, PAGESZ)
        /\ last' = RoundDown((WORD + text_end - 1) % WORD, PAGESZ)
    <3>1. Segment(seg).va + Segment(seg).sz - 1 = WORD + text_end - 1
      BY <1>1, <1>3, <2>1
    <3>2. QED
      BY <1>3, <2>2, <3>1 DEF MapEnter, LastPage
  <2>4. Aligned(var') /\ MEM_START <= var'
    <3>1. PICK n \in Nat : var' = n * PAGESZ /\ MEM_START <= n * PAGESZ
      BY <1>1, <2>3, RoundUpLeast
    <3>2. n * PAGESZ \in Nat
      BY PageAssumption, SMT
    <3>3. QED
      BY <3>1, <3>2, AlignedIs
  <2>5. CASE text_end # 0
    <3>1. (WORD + text_end - 1) % WORD = text_end - 1
      BY <1>1, <1>5, <2>5, SMT
    <3>2. PICK k \in Nat : last' = k * PAGESZ /\ k * PAGESZ < text_end
      BY <1>1, <2>3, <2>5, <3>1, RoundDownIs
    <3>3. k * PAGESZ \in Nat
      BY PageAssumption, SMT
    <3>4. last' < MEM_START
      BY <1>1, <1>5, <3>2, <3>3
    <3>5. QED
      BY <1>2, <2>3, <2>4, <3>4 DEF MisloadInv
  <2>6. CASE text_end = 0
    <3>1. (WORD + text_end - 1) % WORD = WORD - 1
      BY <1>1, <2>6, MmAssumption, SMT
    <3>2. PICK k \in Nat : last' = k * PAGESZ /\ WORD <= k * PAGESZ + PAGESZ
      BY <2>3, <3>1, RoundDownIs, MmAssumption
    <3>3. k * PAGESZ \in Nat /\ Aligned(k * PAGESZ)
      <4>1. k * PAGESZ \in Nat
        BY PageAssumption, SMT
      <4>2. QED
        BY <4>1, AlignedIs
    <3>4. MAX_VA <= k * PAGESZ
      <4>1. CASE k * PAGESZ < MAX_VA
        BY <1>1, <3>2, <3>3, <4>1, PagesApart, PageAssumption
      <4>2. QED
        BY <1>1, <3>3, <4>1
    <3>5. QED
      BY <1>2, <2>3, <2>4, <3>2, <3>4 DEF MisloadInv
  <2>7. QED
    BY <2>5, <2>6
<1>6. QED
  BY <1>1, <1>4, <1>5

(* So map's loop cannot meet its last page.                                *)
LEMMA MapSetMisload ==
  ASSUME MmTypeOK, MisloadInv, text_end <= MEM_START, MapSet
  PROVE  MisloadInv'
<1>1. /\ MEM_START \in Nat /\ MAX_VA \in Nat /\ MAX_VA < WORD /\ WORD \in Nat
      /\ var \in Nat /\ last \in Nat /\ Aligned(MAX_VA)
  BY AddressTypes
<1>2. /\ mpc = "walk" /\ var < MAX_VA /\ seg = 1 /\ Aligned(var)
      /\ MEM_START <= var /\ UNCHANGED <<text_end, last>>
      /\ last < MEM_START \/ MAX_VA <= last
  BY DEF MapSet, InWalk, MisloadInv
<1>3. CASE Valid(Entry)
  BY <1>2, <1>3 DEF MapSet, MisloadInv
<1>4. CASE ~Valid(Entry)
  <2>1. var # last
    BY <1>1, <1>2
  <2>2. mpc' = "walk" /\ seg' = 1 /\ var' = (var + PAGESZ) % WORD
    BY <1>2, <1>4, <2>1 DEF MapSet
  <2>3. var + PAGESZ <= MAX_VA
    BY <1>1, <1>2, PagesApart
  <2>4. var' = var + PAGESZ
    BY <1>1, <2>2, <2>3, PageAssumption, SMT
  <2>5. Aligned(var')
    <3>1. PICK k \in Nat : var = k * PAGESZ
      BY <1>1, <1>2, AlignedIs
    <3>2. (k + 1) * PAGESZ = var + PAGESZ /\ var' \in Nat
      BY <1>1, <2>4, <3>1, PageAssumption, SMT
    <3>3. QED
      BY <2>4, <3>2, AlignedIs
  <2>6. MEM_START <= var'
    BY <1>1, <1>2, <2>4, PageAssumption
  <2>7. QED
    BY <1>2, <2>2, <2>5, <2>6 DEF MisloadInv
<1>5. QED
  BY <1>3, <1>4

(* Every step of the boot and of pz_mm_init keeps MisloadInv.              *)
LEMMA MisloadKept ==
  ASSUME MmTypeOK, MisloadInv, [MmNext]_allVars
  PROVE  MisloadInv'
<1>1. text_end' = text_end
  BY DEF MmNext, BootStep, MmStep, MmRoot, MapEnter, WalkTooLarge, WalkDown,
         WalkAlloc, WalkNoPage, MapSet, allVars, mmVars
<1> SUFFICES ASSUME text_end <= MEM_START
             PROVE  MisloadInv'
  BY <1>1 DEF MisloadInv
<1>2. CASE UNCHANGED allVars
  BY <1>2 DEF MisloadInv, allVars, mmVars, mapVars
<1>3. CASE BootStep
  BY <1>3 DEF MisloadInv, BootStep, mmVars, mapVars
<1>4. CASE MmRoot
  BY <1>4 DEF MisloadInv, MmRoot, mapVars
<1>5. CASE WalkTooLarge \/ WalkDown \/ WalkAlloc \/ WalkNoPage
  BY <1>5 DEF MisloadInv, WalkTooLarge, WalkDown, WalkAlloc, WalkNoPage,
              FailedMap, InWalk, mapVars
<1>6. QED
  BY <1>2, <1>3, <1>4, <1>5, MapEnterMisload, MapSetMisload DEF MmNext, MmStep

(* MisloadTheorem: pz_mm_init never returns for an image that runs below   *)
(* PZ_MEM_START, wherever that is: the MMU is not switched on with a table *)
(* that misses a page.                                                     *)
THEOREM MisloadTheorem == MmSpec => [](mpc = "mapped" => text_end > MEM_START)
<1>1. MmInit => MisloadInv
  BY DEF MmInit, MisloadInv
<1>2. MmTypeOK /\ MisloadInv /\ [MmNext]_allVars => MisloadInv'
  BY MisloadKept
<1>3. MmTypeOK /\ MisloadInv => (mpc = "mapped" => text_end > MEM_START)
  BY AddressTypes DEF MisloadInv
<1>4. QED
  BY <1>1, <1>2, <1>3, MmTypes, PTL DEF MmSpec

-----------------------------------------------------------------------------
(* free_range hands the pages over in ascending order, so that the list    *)
(* descends and the tables are taken from the top of the pool.             *)
Descends(s) == \A i, j \in 1..Len(s) : i < j => s[j] < s[i]

TopFirst ==
  /\ \E s \in Seq(Frames) : IsFreeList(s) /\ Descends(s)
  /\ \A t \in held, f \in Free : f < t

(* free_range puts a higher page in front of the lower ones.               *)
LEMMA TopFirstPushed ==
  ASSUME IInv, TopFirst, FreeRangeStep, held = {}
  PROVE  TopFirst'
<1>1. PICK s \in Seq(Frames) : IsFreeList(s) /\ Descends(s)
  BY DEF TopFirst
<1>2. PICK f \in Frames :
        /\ f = FrameOf(p)
        /\ <<f>> \o s \in Seq(Frames)
        /\ IsFreeList(<<f>> \o s)'
  BY <1>1, DonateStep
<1>3. \A g \in Free : g < f
  <2> SUFFICES ASSUME NEW g \in Free
               PROVE  g < f
    OBVIOUS
  <2>1. g \in Nat /\ g * PAGESZ < p
    BY DEF Free, Donated, Pool, Frames
  <2>2. PICK k \in Nat : p = k * PAGESZ
    BY DEF IInv, LoopInv
  <2>3. f = k
    BY <1>2, <2>2, PageTimes
  <2>4. PAGESZ * g < PAGESZ * k
    BY <2>1, <2>2, PageAssumption, SMT
  <2>5. QED
    BY <2>1, <2>3, <2>4, TimesLess, PageAssumption
<1>4. \A i \in 1..Len(s) : s[i] \in Free /\ s[i] \in Nat
  <2>1. \A i \in 1..Len(s) : s[i] \in Free
    BY <1>1 DEF IsFreeList
  <2>2. Free \subseteq Nat
    BY DEF Free, Donated, Pool, Frames
  <2>3. QED
    BY <2>1, <2>2
<1>5. Descends(<<f>> \o s)
  <2>1. Len(<<f>> \o s) = Len(s) + 1 /\ Len(s) \in Nat
    OBVIOUS
  <2>2. \A i \in 1..Len(s) + 1 :
          (<<f>> \o s)[i] = IF i = 1 THEN f ELSE s[i - 1]
    OBVIOUS
  <2>3. ASSUME NEW i \in 1..Len(s) + 1, NEW j \in 1..Len(s) + 1, i < j
        PROVE  (<<f>> \o s)[j] < (<<f>> \o s)[i]
    <3>1. (<<f>> \o s)[j] = s[j - 1] /\ j - 1 \in 1..Len(s)
      BY <2>2, <2>3
    <3>2. CASE i = 1
      BY <1>3, <1>4, <2>2, <3>1, <3>2
    <3>3. CASE i # 1
      BY <1>1, <2>1, <2>2, <2>3, <3>1, <3>3 DEF Descends
    <3>4. QED
      BY <3>2, <3>3
  <2>4. QED
    BY <2>1, <2>3 DEF Descends
<1>6. held' = {}
  BY DEF FreeRangeStep
<1>7. QED
  BY <1>2, <1>5, <1>6 DEF TopFirst

(* The page taken is the highest of the free ones.                         *)
LEMMA TopFirstPopped ==
  ASSUME IInv, TopFirst, PopFreelist, UNCHANGED <<mem_end, p>>,
         \A g \in Free \ {freelist} : mem'[g] = mem[g]
  PROVE  TopFirst'
<1>1. PICK s \in Seq(Frames) : IsFreeList(s) /\ Descends(s)
  BY DEF TopFirst
<1>2. Donated' = Donated
  BY DEF Donated, Pool
<1>3. \/ held' = held /\ IsFreeList(s)'
      \/ /\ freelist \in Free /\ s # <<>> /\ freelist = Head(s)
         /\ held' = held \union {freelist}
         /\ IsFreeList(Tail(s))' /\ Tail(s) \in Seq(Frames)
  BY <1>1, PopStep
<1>4. CASE held' = held /\ IsFreeList(s)'
  BY <1>1, <1>2, <1>4 DEF TopFirst, Free
<1>5. CASE /\ freelist \in Free /\ s # <<>> /\ freelist = Head(s)
           /\ held' = held \union {freelist}
           /\ IsFreeList(Tail(s))' /\ Tail(s) \in Seq(Frames)
  <2>1. /\ Len(s) \in Nat \ {0} /\ Len(Tail(s)) = Len(s) - 1
        /\ \A i \in 1..Len(Tail(s)) : Tail(s)[i] = s[i + 1]
        /\ freelist = s[1]
    BY <1>5, HeadTailProperties
  <2>2. Descends(Tail(s))
    BY <1>1, <2>1 DEF Descends
  <2>3. Free' = Free \ {freelist}
    BY <1>2, <1>5 DEF Free
  <2>4. ASSUME NEW g \in Free \ {freelist}
        PROVE  g < freelist
    <3>1. PICK i \in 1..Len(s) : g = s[i]
      BY <1>1 DEF IsFreeList
    <3>2. i # 1 /\ 1 \in 1..Len(s) /\ 1 < i
      BY <2>1, <3>1
    <3>3. QED
      BY <1>1, <2>1, <3>1, <3>2 DEF Descends
  <2>5. QED
    BY <1>5, <2>2, <2>3, <2>4 DEF TopFirst
<1>6. QED
  BY <1>3, <1>4, <1>5

(* A step that leaves the free pages alone keeps their order.              *)
LEMMA TopFirstKept ==
  ASSUME TopFirst, UNCHANGED <<mem_end, freelist, p, held>>,
         \A g \in Free : mem'[g] = mem[g]
  PROVE  TopFirst'
<1>1. PICK s \in Seq(Frames) : IsFreeList(s) /\ Descends(s)
  BY DEF TopFirst
<1>2. Free' = Free
  BY DEF Free, Donated, Pool
<1>3. IsFreeList(s)'
  BY <1>1, <1>2, KeepList
<1>4. QED
  BY <1>1, <1>2, <1>3 DEF TopFirst

(* Nobody frees a page before the program runs, so the order lasts.        *)
LEMMA MmNextTopFirst ==
  ASSUME MmIInv, TopFirst, [MmNext]_allVars
  PROVE  TopFirst'
<1> USE DEF MmIInv
<1>1. CASE FreeRangeStep /\ UNCHANGED mmVars
  BY <1>1, TopFirstPushed DEF StageInv, FreeRangeStep
<1>2. CASE FreeRangeEnd
  BY <1>2, TopFirstKept DEF FreeRangeEnd
<1>3. CASE MmRoot
  <2>1. \A g \in Free \ {freelist} : mem'[g] = mem[g]
    BY <1>3, NewMemType DEF MmRoot, MemAfterNew, IInv, TypeOK, Free, Donated, Pool
  <2>2. QED
    BY <1>3, <2>1, TopFirstPopped DEF MmRoot
<1>4. CASE WalkAlloc
  <2>1. tbl \in held
    BY <1>4, WalkAt DEF WalkAlloc
  <2>2. \A g \in Free \ {freelist} : mem'[g] = mem[g]
    BY <1>4, <2>1, WalkAllocTree DEF Free, Donated, Pool
  <2>3. QED
    BY <1>4, <2>2, TopFirstPopped DEF WalkAlloc
<1>5. CASE WalkNoPage
  BY <1>5, TopFirstPopped DEF WalkNoPage
<1>6. CASE MapSet
  BY <1>6, MapSetTree, TopFirstKept DEF MapSet
<1>7. CASE MapEnter \/ WalkTooLarge \/ WalkDown \/ UNCHANGED allVars
  BY <1>7, TopFirstKept DEF MapEnter, WalkTooLarge, WalkDown, allVars, vars
<1>8. QED
  BY <1>1, <1>2, <1>3, <1>4, <1>5, <1>6, <1>7
  DEF MmNext, MmStep, BootStep, Boot

-----------------------------------------------------------------------------
(* The invariant of the boot up to the switch to virtual addresses.        *)
BootInv ==
  /\ MmIInv /\ MisloadInv /\ TopFirst
  /\ Linked => MapInv /\ RoomInv

(* Every step of the boot and of pz_mm_init keeps BootInv.                 *)
LEMMA MmNextBoot ==
  ASSUME BootInv, [MmNext]_allVars, TranslateFollows'
  PROVE  BootInv'
<1>1. MmIInv' /\ MisloadInv' /\ TopFirst'
  BY MmNextIInv, MisloadKept, MmNextTopFirst DEF BootInv, MmIInv
<1>2. UNCHANGED <<text_end, mem_end>>
  BY DEF MmNext, BootStep, Boot, FreeRangeStep, FreeRangeEnd, MmStep, MmRoot,
         MapEnter, WalkTooLarge, WalkDown, WalkAlloc, WalkNoPage, MapSet,
         allVars, vars, mmVars
<1>3. Linked' => Linked
  BY <1>2 DEF Linked, LinkedAt
<1>4. Linked => MapInv' /\ RoomInv'
  BY MmNextMaps, MmNextRoom DEF BootInv
<1>5. QED
  BY <1>1, <1>3, <1>4 DEF BootInv

(* From the switch on: the tables are complete and stay among the pages    *)
(* that are held, at the top of the pool.                                  *)
RunInv ==
  /\ IInv /\ phase = "ready" /\ mpc = "mapped" /\ Linked
  /\ Space = Wanted
  /\ Tables \subseteq held
  /\ \A t \in Tables, f \in Pool \ Tables : f < t

(* Tables that are not written to remain the tables.                       *)
LEMMA TablesKept ==
  ASSUME ptbl' = ptbl, \A t \in Tables : mem'[t] = mem[t]
  PROVE  UNCHANGED <<Roots, Mids, Leaves, Tables>>
<1>1. Roots' = Roots
  BY DEF Roots
<1>2. Mids' = Mids
  <2>1. \A t \in Roots : Children(t)' = Children(t)
    BY DEF Children, Child, Tables
  <2>2. QED
    BY <1>1, <2>1 DEF Mids
<1>3. Leaves' = Leaves
  <2>1. \A t \in Mids : Children(t)' = Children(t)
    BY DEF Children, Child, Tables
  <2>2. QED
    BY <1>2, <2>1 DEF Leaves
<1>4. QED
  BY <1>1, <1>2, <1>3 DEF Tables

(* And they translate as before.                                           *)
LEMMA SpaceOfTables ==
  ASSUME ptbl' = ptbl, \A t \in Tables : mem'[t] = mem[t], TranslateFollows'
  PROVE  Space' = Space
<1>1. TranslateFollows
  BY TranslateIs
<1>2. ASSUME NEW va \in Nat
      PROVE  Translate(va)' = Translate(va)
  <2>1. /\ ptbl \in Frames => ptbl \in Tables
        /\ HasMid(va) => MidOf(va) \in Tables
        /\ HasLeaf(va) => LeafOf(va) \in Tables
    BY <1>2, OnTheWay DEF Tables
  <2>2. HasMid(va)' = HasMid(va) /\ (HasMid(va) => MidOf(va)' = MidOf(va))
    BY <2>1 DEF HasMid, MidOf, Links, Valid, PteFrame
  <2>3. HasLeaf(va)' = HasLeaf(va) /\ (HasLeaf(va) => LeafOf(va)' = LeafOf(va))
    BY <2>1, <2>2 DEF HasLeaf, LeafOf, Links, Valid, PteFrame
  <2>4. HasLeaf(va) => mem'[LeafOf(va)'] = mem[LeafOf(va)]
    BY <2>1, <2>3
  <2>5. QED
    BY <1>1, <1>2, <2>3, <2>4 DEF TranslateFollows
<1>3. \A v \in VirtualPages : v * PAGESZ \in Nat
  BY PageAssumption, SMT DEF VirtualPages
<1>4. QED
  BY <1>2, <1>3, SpaceKept

(* A step that leaves the tables alone, and what the program is to leave   *)
(* alone, keeps the invariant.                                             *)
LEMMA RunKept ==
  ASSUME RunInv, IInv', TranslateFollows',
         UNCHANGED <<phase, mpc, text_end, mem_end, ptbl>>,
         \A t \in Tables : mem'[t] = mem[t],
         Tables \subseteq held'
  PROVE  RunInv' /\ UNCHANGED <<Tables, Space, Wanted>>
<1>1. UNCHANGED <<Tables, Space>>
  BY TablesKept, SpaceOfTables
<1>2. Wanted' = Wanted
  BY DEF Wanted
<1>3. Linked' = Linked /\ Pool' = Pool
  BY DEF Linked, LinkedAt, Pool
<1>4. QED
  BY <1>1, <1>2, <1>3 DEF RunInv

-----------------------------------------------------------------------------
(* The address space that the MMU is switched on with.                     *)

(* The wanted map covers the managed memory, and RAM is within reach of    *)
(* it.                                                                     *)
LEMMA WantedPages ==
  ASSUME MmTypeOK, Linked
  PROVE  /\ 0..RAM_TOP \subseteq VirtualPages
         /\ DOMAIN Wanted = Below(MEM_STOP)
<1>1. /\ MAX_VA \in Nat /\ MEM_STOP \in Nat /\ MEM_START \in Nat
      /\ MEM_STOP <= (RAM_TOP + 1) * PAGESZ
      /\ (RAM_TOP + 1) * PAGESZ <= MAX_VA /\ Aligned(MAX_VA)
  BY LayoutIs, RamMappable
<1>2. PICK m \in Nat : MAX_VA = m * PAGESZ
  BY <1>1, AlignedIs
<1>3. VirtualPages = 0..m-1
  BY <1>2, QuotientCancel, PageAssumption DEF VirtualPages
<1>4. RAM_TOP + 1 <= m
  <2>1. CASE m < RAM_TOP + 1
    <3>1. PAGESZ * m < PAGESZ * (RAM_TOP + 1)
      BY <2>1, TimesLess, PageAssumption, RamAssumption
    <3>2. PAGESZ * m = m * PAGESZ
          /\ PAGESZ * (RAM_TOP + 1) = (RAM_TOP + 1) * PAGESZ
          /\ m * PAGESZ \in Nat /\ (RAM_TOP + 1) * PAGESZ \in Nat
      BY PageAssumption, RamAssumption, SMT
    <3>3. QED
      BY <1>1, <1>2, <3>1, <3>2
  <2>2. QED
    BY <2>1, RamAssumption
<1>5. ASSUME NEW v \in VirtualPages, v * PAGESZ < MEM_STOP
      PROVE  v \in 0..RAM_TOP
  <2>1. v \in Nat /\ v * PAGESZ = PAGESZ * v /\ v * PAGESZ \in Nat
        /\ PAGESZ * (RAM_TOP + 1) = (RAM_TOP + 1) * PAGESZ
        /\ (RAM_TOP + 1) * PAGESZ \in Nat
    BY <1>3, PageAssumption, RamAssumption, SMT
  <2>2. PAGESZ * v < PAGESZ * (RAM_TOP + 1)
    BY <1>1, <1>5, <2>1
  <2>3. v < RAM_TOP + 1
    BY <2>1, <2>2, TimesLess, PageAssumption, RamAssumption
  <2>4. QED
    BY <2>1, <2>3, RamAssumption
<1>6. 0..RAM_TOP \subseteq VirtualPages
  BY <1>3, <1>4, RamAssumption
<1>7. DOMAIN Wanted = {u \in Nat \intersect 0..RAM_TOP :
                         MEM_START <= u * PAGESZ /\ u * PAGESZ < MEM_STOP}
  BY DEF Wanted, MEM_STOP
<1>8. QED
  BY <1>3, <1>5, <1>6, <1>7 DEF Below

(* When pz_mm_init returns, the whole wanted map is installed.             *)
LEMMA SpaceComplete ==
  ASSUME MmTypeOK, Linked, SpaceInv, mpc = "mapped"
  PROVE  Space = Wanted
<1>1. DOMAIN Wanted = Below(MEM_STOP)
  BY WantedPages
<1>2. Wanted = [v \in DOMAIN Wanted |-> Wanted[v]]
  BY DEF Wanted
<1>3. Reached = MEM_STOP
  BY DEF Reached
<1>4. QED
  BY <1>1, <1>2, <1>3 DEF SpaceInv

(* What the complete map permits: execution of the text, writing from the  *)
(* end of the text to the end of the managed memory, and nowhere else.     *)
LEMMA Permissions ==
  ASSUME MmTypeOK, Linked, Space = Wanted, NEW f \in Frames
  PROVE  /\ MEM_START <= f * PAGESZ /\ f * PAGESZ < text_end
              => Permits(f, "X")
         /\ text_end <= f * PAGESZ /\ f * PAGESZ < MEM_STOP
              => Permits(f, "W")
         /\ Permits(f, "W") /\ text_end <= f * PAGESZ
              => /\ f * PAGESZ < MEM_STOP
                 /\ f \in DOMAIN Space
                 /\ Space[f] = [frame |-> f, perm |-> {"R", "W"}]
<1>1. /\ MEM_START \in Nat /\ text_end \in Nat /\ MEM_STOP \in Nat
      /\ MEM_START < text_end /\ text_end < MEM_STOP
  BY LayoutIs
<1>2. f * PAGESZ \in Nat /\ f \in 0..RAM_TOP /\ f \in Nat
  BY PageAssumption, RamAssumption, SMT DEF Frames
<1>3. f \in VirtualPages
  BY <1>2, WantedPages
<1>4. f \in DOMAIN Wanted <=> MEM_START <= f * PAGESZ /\ f * PAGESZ < MEM_STOP
  BY <1>2 DEF Wanted, MEM_STOP
<1>5. f \in DOMAIN Space <=> "V" \in Translate(f * PAGESZ).flags
  BY <1>3 DEF Space, Valid
<1>6. f \in DOMAIN Space =>
        Space[f].perm = Translate(f * PAGESZ).flags \ {"V"}
  BY <1>3 DEF Space
<1>7. f \in DOMAIN Wanted =>
        Wanted[f] = [frame |-> f,
                     perm |-> IF f * PAGESZ < text_end
                              THEN {"R", "X"} ELSE {"R", "W"}]
  BY DEF Wanted
<1>8. f \in DOMAIN Wanted =>
        Translate(f * PAGESZ).flags \ {"V"} =
          IF f * PAGESZ < text_end THEN {"R", "X"} ELSE {"R", "W"}
  BY <1>6, <1>7
<1>9. MEM_START <= f * PAGESZ /\ f * PAGESZ < text_end => Permits(f, "X")
  BY <1>1, <1>2, <1>4, <1>5, <1>8 DEF Permits
<1>10. text_end <= f * PAGESZ /\ f * PAGESZ < MEM_STOP => Permits(f, "W")
  BY <1>1, <1>2, <1>4, <1>5, <1>8 DEF Permits
<1>11. ASSUME Permits(f, "W"), text_end <= f * PAGESZ
       PROVE  /\ f * PAGESZ < MEM_STOP
              /\ f \in DOMAIN Space
              /\ Space[f] = [frame |-> f, perm |-> {"R", "W"}]
  <2>1. f \in DOMAIN Wanted
    BY <1>5, <1>11 DEF Permits
  <2>2. ~(f * PAGESZ < text_end)
    BY <1>1, <1>2, <1>11
  <2>3. QED
    BY <1>4, <1>7, <2>1, <2>2
<1>12. QED
  BY <1>9, <1>10, <1>11

(* Text, data and the stack are where the processor looks for them.        *)
LEMMA SwitchIsSafe ==
  ASSUME MmTypeOK, Linked, Space = Wanted, StackFits,
         image \in IMAGES, hart \in 0..MAXCPU-1, sp = image.g_stacks + hart,
         text_end = image.text_end, mem_end = image.mem_end
  PROVE  Alive
<1>1. /\ image.g_stacks \in Nat /\ image.mem_end < MEM_STOP
      /\ image.text_end + STACK_USE <= image.g_stacks + hart
  BY ImageAssumption DEF MEM_STOP, StackFits
<1>2. /\ text_end \in Nat /\ mem_end \in Nat /\ STACK_USE \in Nat
      /\ MEM_STOP \in Nat /\ hart \in Nat
  BY LayoutIs, AddressTypes, ImageAssumption
<1>3. sp - STACK_USE >= image.text_end
  BY <1>1, <1>2
<1>4. ASSUME NEW f \in Frames
      PROVE  /\ MEM_START <= f * PAGESZ /\ f * PAGESZ < image.text_end
                  => Permits(f, "X")
             /\ image.text_end <= f * PAGESZ /\ f * PAGESZ < image.mem_end
                  => Permits(f, "W")
  <2>1. f * PAGESZ \in Nat
    BY PageAssumption, SMT DEF Frames
  <2>2. f * PAGESZ < image.mem_end => f * PAGESZ < MEM_STOP
    BY <1>1, <1>2, <2>1
  <2>3. QED
    BY <2>2, Permissions
<1>5. QED
  BY <1>3, <1>4 DEF Alive

-----------------------------------------------------------------------------
(* The invariant of the boot and of the program.                           *)

(* The symbols of the image and the words of the stack's last 16 bytes.    *)
ImageInv ==
  /\ image \in IMAGES /\ mem_end = image.mem_end /\ text_end = image.text_end
  /\ hart \in 0..MAXCPU-1
  /\ kpc # "start" => sp = image.g_stacks + hart
  /\ left \in [freelist : {NULL, WILD}, ptbl : {NULL, WILD}]
  /\ kpc \notin {"start", "clear_bss"} /\ left.freelist = WILD => image.shared

(* Which invariant holds where.                                            *)
Early == {"start", "clear_bss", "start_kern"}
Booting == Early \union {"alloc_init", "mm_init", "init_cpu"}
Running == {"start_init", "umain", "returned"}

ControlInv ==
  /\ kpc \in Booting \union Running \union {"panic", "off", "trap", "uart_fault"}
  /\ satp \in Frames \union {NULL}
  /\ kpc \in Booting => BootInv /\ satp = NULL
  /\ kpc = "init_cpu" => mpc = "mapped"
  /\ kpc \in Running => RunInv /\ satp # NULL /\ StackFits
  /\ kpc = "panic" => text_end <= MEM_START

(* What has been printed where.                                            *)
ConsoleInv ==
  /\ kpc \in Early => log = <<>>
  /\ kpc = "alloc_init" => log = <<"loading", "allocator">>
  /\ kpc \in {"mm_init", "init_cpu", "start_init", "panic"} =>
       log = <<"loading", "allocator", "vm">>
  /\ kpc = "umain" =>
       log = <<"loading", "allocator", "vm", "scheduler", "init">>
  /\ kpc = "returned" =>
       log = <<"loading", "allocator", "vm", "scheduler", "init", "returned">>
  /\ ConsoleTellsOutcome

KernelInv ==
  /\ ImageInv /\ MmTypeOK /\ ControlInv
  /\ ConsoleInv /\ TrapOnlyForLargeImages

(* _text_end comes before _mem_end.                                        *)
LEMMA ImageInOrder ==
  ASSUME ImageInv, MmTypeOK
  PROVE  text_end <= mem_end
<1>1. /\ text_end \in Nat /\ mem_end \in Nat /\ PAGESZ * MAXCPU \in Nat
  <2>1. PAGESZ * MAXCPU \in Nat
    BY PageAssumption, ImageAssumption, SMT
  <2>2. QED
    BY <2>1, AddressTypes
<1>2. /\ image.g_stacks \in Nat /\ text_end <= image.g_stacks
      /\ image.g_stacks + PAGESZ * MAXCPU <= mem_end
  BY ImageAssumption DEF ImageInv
<1>3. QED
  BY <1>1, <1>2

(* An image is where it is linked for just when its text ends behind       *)
(* PZ_MEM_START.                                                           *)
LEMMA LinkedImage ==
  ASSUME ImageInv, MmTypeOK
  PROVE  MEM_START < text_end <=> Linked
<1>1. /\ MEM_START \in Nat /\ text_end \in Nat /\ mem_end \in Nat
      /\ MEM_SIZE \in Nat
  BY AddressTypes
<1>2. /\ text_end % PAGESZ = 0 /\ mem_end < MEM_START + MEM_SIZE
  BY ImageAssumption DEF ImageInv
<1>3. text_end <= mem_end
  BY ImageInOrder
<1>4. QED
  BY <1>1, <1>2, <1>3 DEF Linked, LinkedAt

(* The firmware enters the kernel with the invariant.                      *)
LEMMA KernelStarts ==
  ASSUME KernelInit
  PROVE  KernelInv
<1>1. /\ image \in IMAGES /\ PAGESZ * MAXCPU \in Nat
      /\ image.text_end \in TEXT_ENDS /\ image.mem_end \in MEM_ENDS
      /\ image.g_stacks \in Nat
      /\ image.text_end <= image.g_stacks
      /\ image.g_stacks + PAGESZ * MAXCPU <= image.mem_end
  <2>1. PAGESZ * MAXCPU \in Nat
    BY PageAssumption, ImageAssumption, SMT
  <2>2. QED
    BY <2>1, ImageAssumption DEF KernelInit
<1>2. text_end \in Nat /\ mem_end \in Nat
  BY <1>1, MmAssumption, LayoutAssumption DEF KernelInit
<1>3. Init /\ MmInit
  BY <1>1, <1>2 DEF KernelInit, Init, MmInit
<1>4. MmIInv
  BY <1>3, MmInitIInv
<1>5. MapInv /\ RoomInv
  <2>1. MapInv
    BY <1>3, <1>4, MapInitInv
  <2>2. RoomInv
    BY <1>3 DEF MmInit, RoomInv, NeededInv, NeverPanics, Frames, NULL
  <2>3. QED
    BY <2>1, <2>2
<1>6. MisloadInv
  BY DEF KernelInit, MisloadInv
<1>7. TopFirst
  <2>1. Free = {}
    <3>1. HeadIsFree /\ freelist = NULL
      BY <1>4, HeadIs DEF KernelInit, MmIInv
    <3>2. QED
      BY <3>1 DEF HeadIsFree
  <2>2. IsFreeList(<<>>) /\ Descends(<<>>) /\ <<>> \in Seq(Frames)
    BY <2>1 DEF IsFreeList, Descends, KernelInit
  <2>3. held = {}
    BY DEF KernelInit
  <2>4. QED
    BY <2>2, <2>3 DEF TopFirst
<1>8. BootInv
  BY <1>4, <1>5, <1>6, <1>7 DEF BootInv
<1>9. ImageInv
  BY <1>1 DEF ImageInv, KernelInit
<1>10. ControlInv
  BY <1>8 DEF ControlInv, KernelInit, Booting, Early, Running
<1>11. ConsoleInv /\ TrapOnlyForLargeImages
  BY DEF ConsoleInv, ConsoleTellsOutcome, TrapOnlyForLargeImages, KernelInit,
         Early
<1>12. QED
  BY <1>4, <1>9, <1>10, <1>11 DEF KernelInv, MmIInv

(* The steps that do not touch memory.                                     *)
LEMMA MemoryKept ==
  ASSUME UNCHANGED allVars, TranslateFollows'
  PROVE  /\ BootInv => BootInv'
         /\ RunInv => RunInv'
         /\ MmTypeOK => MmTypeOK'
         /\ UNCHANGED <<Tables, Free, Space, Wanted>>
<1>1. BootInv => BootInv'
  BY MmNextBoot
<1>2. UNCHANGED <<mem_end, freelist, mem, phase, p, held, ret, text_end, ptbl,
                  mpc, seg, var, last, pa, lvl, tbl>>
  BY DEF allVars, vars, mmVars, mapVars, walkVars
<1>3. MmTypeOK => MmTypeOK'
  BY <1>2 DEF MmTypeOK, TypeOK
<1>4. RunInv => RunInv'
  <2>1. IInv => IInv'
    BY <1>2, NextIInv DEF vars
  <2>2. QED
    BY <1>2, <2>1, RunKept DEF RunInv
<1>5. UNCHANGED <<Tables, Space>>
  BY <1>2, TablesKept, SpaceOfTables
<1>6. Free' = Free /\ Wanted' = Wanted
  BY <1>2 DEF Free, Donated, Pool, Wanted
<1>7. QED
  BY <1>1, <1>3, <1>4, <1>5, <1>6

(* Every number has a quotient and a rest.                                 *)
LEMMA QuotientThere ==
  ASSUME NEW a \in Nat, NEW b \in Nat \ {0}
  PROVE  \E k \in Nat, r \in 0..b-1 : a = b * k + r
<1> DEFINE q == a \div b
           m == a % b
<1>1. q \in Nat /\ m \in 0..b-1 /\ a = b * q + m
  BY Quotient
<1>2. QED
  BY <1>1, Zenon

-----------------------------------------------------------------------------
(* Faults.  A page of the pool past the last mapped one that is no table   *)
(* has all tables above it: they fit between it and the end of the pool,   *)
(* which is an image's length away.                                        *)
LEMMA BeyondTables ==
  ASSUME MmTypeOK, RunInv, NEW f \in Pool \ Tables, MEM_STOP <= f * PAGESZ
  PROVE  mem_end - MEM_START > PAGESZ * Cardinality(Tables)
<1>1. /\ MEM_START \in Nat /\ mem_end \in Nat /\ MEM_SIZE \in Nat
      /\ MEM_STOP = MEM_START + MEM_SIZE /\ PAGESZ \in Nat \ {0}
  BY AddressTypes, PageAssumption DEF MEM_STOP
<1>2. PICK k \in Nat, r \in 0..PAGESZ-1 : mem_end + MEM_SIZE = PAGESZ * k + r
  <2>1. mem_end + MEM_SIZE \in Nat
    BY <1>1
  <2>2. QED
    BY <1>1, <2>1, QuotientThere
<1>3. ASSUME NEW g \in Pool
      PROVE  g \in Nat /\ g < k
  <2>1. g \in Nat /\ (g + 1) * PAGESZ <= mem_end + MEM_SIZE
    BY DEF Pool, Frames
  <2>2. /\ (g + 1) * PAGESZ = PAGESZ * (g + 1) /\ PAGESZ * (g + 1) \in Nat
        /\ PAGESZ * (k + 1) = PAGESZ * k + PAGESZ /\ PAGESZ * k \in Nat
    BY <1>1, <2>1, SMT
  <2>3. PAGESZ * (g + 1) < PAGESZ * (k + 1)
    BY <1>1, <1>2, <2>1, <2>2
  <2>4. g + 1 < k + 1
    BY <1>1, <2>1, <2>3, TimesLess
  <2>5. QED
    BY <2>1, <2>4
<1>4. f \in Nat /\ f < k
  BY <1>3
<1>5. Tables \subseteq (f + 1)..(k - 1)
  <2>1. Tables \subseteq Pool
    BY DEF RunInv, IInv, HeldInv, Donated
  <2>2. ASSUME NEW t \in Tables
        PROVE  t \in Nat /\ f < t /\ t < k
    BY <1>3, <2>1, <2>2 DEF RunInv
  <2>3. QED
    BY <1>4, <2>2
<1>6. Cardinality(Tables) \in Nat /\ Cardinality(Tables) <= k - 1 - f
  <2>1. /\ IsFiniteSet((f + 1)..(k - 1))
        /\ Cardinality((f + 1)..(k - 1)) = k - 1 - f
    BY <1>4, FS_Interval
  <2>2. /\ IsFiniteSet(Tables)
        /\ Cardinality(Tables) <= Cardinality((f + 1)..(k - 1))
    BY <1>5, <2>1, FS_Subset, Zenon
  <2>3. Cardinality(Tables) \in Nat
    BY <2>2, FS_CardinalityType, Zenon
  <2>4. QED
    BY <2>1, <2>2, <2>3, Zenon
<1>7. PAGESZ * Cardinality(Tables) <= PAGESZ * (k - 1 - f)
  BY <1>1, <1>4, <1>6, TimesMonotone
<1>8. /\ PAGESZ * (k - 1 - f) = PAGESZ * k - PAGESZ - f * PAGESZ
      /\ f * PAGESZ \in Nat /\ PAGESZ * k \in Nat
      /\ PAGESZ * Cardinality(Tables) \in Nat
  BY <1>1, <1>4, <1>6, SMT
<1>9. QED
  BY <1>1, <1>2, <1>7, <1>8

(* What pz_umain asks the allocator to write to, and cannot.               *)
LEMMA FaultIsBeyond ==
  ASSUME MmTypeOK, RunInv, text_end <= mem_end,
         NEW f \in Pool \ Tables, ~Permits(f, "W")
  PROVE  mem_end - MEM_START > PAGESZ * Cardinality(Tables)
<1>1. /\ MEM_STOP \in Nat /\ mem_end \in Nat /\ text_end \in Nat
      /\ f * PAGESZ \in Nat /\ f \in Frames /\ mem_end <= f * PAGESZ
  <2>1. f * PAGESZ \in Nat
    BY PageAssumption, SMT DEF Pool, Frames
  <2>2. QED
    BY <2>1, LayoutIs, AddressTypes DEF Pool, RunInv
<1>2. ~(f * PAGESZ < MEM_STOP)
  <2>1. text_end <= f * PAGESZ
    BY <1>1
  <2>2. QED
    BY <1>1, <2>1, Permissions DEF RunInv
<1>3. QED
  BY <1>1, <1>2, BeyondTables

(* The word past the end of the list is one only when the list is empty.   *)
LEMMA HeadIsWild ==
  ASSUME ImageInv, IInv, ListHead = WILD, kpc \notin {"start", "clear_bss"}
  PROVE  image.shared /\ Free = {}
<1>1. freelist = NULL /\ left.freelist = WILD
  BY DEF ListHead, IInv, TypeOK, Frames, NULL, WILD
<1>2. Free = {}
  BY <1>1, HeadIs DEF HeadIsFree
<1>3. QED
  BY <1>1, <1>2 DEF ImageInv

-----------------------------------------------------------------------------
(* The log, message by message.                                            *)
LEMMA Joined ==
  ASSUME NEW S, NEW s \in Seq(S), NEW t \in Seq(S), NEW u \in Seq(S),
         Len(u) = Len(s) + Len(t),
         \A i \in 1..Len(s) : u[i] = s[i],
         \A i \in 1..Len(t) : u[Len(s) + i] = t[i]
  PROVE  s \o t = u
<1>1. s \o t \in Seq(S) /\ Len(s \o t) = Len(s) + Len(t)
  OBVIOUS
<1>2. \A i \in 1..Len(s \o t) : (s \o t)[i] = u[i]
  OBVIOUS
<1>3. QED
  BY <1>1, <1>2, SeqEqual

(* What the console shows after another message or two.                    *)
LEMMA LogGrows ==
  /\ \A a, b, c :
       <<a, b>> \o <<c>> = <<a, b, c>>
  /\ \A a, b, c, d, e :
       <<a, b, c>> \o <<d, e>> = <<a, b, c, d, e>>
  /\ \A a, b, c, d, e, f :
       <<a, b, c, d, e>> \o <<f>> = <<a, b, c, d, e, f>>
  /\ \A a, b, c, d, e, f, g :
       <<a, b, c, d, e, f>> \o <<g>> = <<a, b, c, d, e, f, g>>
  /\ \A a, b, c, d, e, f, g :
       <<a, b, c>> \o <<d, e, f, g>> = <<a, b, c, d, e, f, g>>
<1>1. ASSUME NEW a, NEW b, NEW c
      PROVE  <<a, b>> \o <<c>> = <<a, b, c>>
  <2>1. /\ <<a, b>> \in Seq({a, b, c})
        /\ <<c>> \in Seq({a, b, c})
        /\ <<a, b, c>> \in Seq({a, b, c})
        /\ Len(<<a, b, c>>) = Len(<<a, b>>) + Len(<<c>>)
        /\ \A i \in 1..Len(<<a, b>>) : <<a, b, c>>[i] = <<a, b>>[i]
        /\ \A i \in 1..Len(<<c>>) :
             <<a, b, c>>[Len(<<a, b>>) + i] = <<c>>[i]
    BY SMTT(60)
  <2>2. QED
    BY <2>1, Joined, ZenonT(60)
<1>2. ASSUME NEW a, NEW b, NEW c, NEW d, NEW e
      PROVE  <<a, b, c>> \o <<d, e>> = <<a, b, c, d, e>>
  <2>1. /\ <<a, b, c>> \in Seq({a, b, c, d, e})
        /\ <<d, e>> \in Seq({a, b, c, d, e})
        /\ <<a, b, c, d, e>> \in Seq({a, b, c, d, e})
        /\ Len(<<a, b, c, d, e>>) = Len(<<a, b, c>>) + Len(<<d, e>>)
        /\ \A i \in 1..Len(<<a, b, c>>) : <<a, b, c, d, e>>[i] = <<a, b, c>>[i]
        /\ \A i \in 1..Len(<<d, e>>) :
             <<a, b, c, d, e>>[Len(<<a, b, c>>) + i] = <<d, e>>[i]
    BY SMTT(60)
  <2>2. QED
    BY <2>1, Joined, ZenonT(60)
<1>3. ASSUME NEW a, NEW b, NEW c, NEW d, NEW e, NEW f
      PROVE  <<a, b, c, d, e>> \o <<f>> = <<a, b, c, d, e, f>>
  <2>1. /\ <<a, b, c, d, e>> \in Seq({a, b, c, d, e, f})
        /\ <<f>> \in Seq({a, b, c, d, e, f})
        /\ <<a, b, c, d, e, f>> \in Seq({a, b, c, d, e, f})
        /\ Len(<<a, b, c, d, e, f>>) = Len(<<a, b, c, d, e>>) + Len(<<f>>)
        /\ \A i \in 1..Len(<<a, b, c, d, e>>) : <<a, b, c, d, e, f>>[i] = <<a, b, c, d, e>>[i]
        /\ \A i \in 1..Len(<<f>>) :
             <<a, b, c, d, e, f>>[Len(<<a, b, c, d, e>>) + i] = <<f>>[i]
    BY SMTT(60)
  <2>2. QED
    BY <2>1, Joined, ZenonT(60)
<1>4. ASSUME NEW a, NEW b, NEW c, NEW d, NEW e, NEW f, NEW g
      PROVE  <<a, b, c, d, e, f>> \o <<g>> = <<a, b, c, d, e, f, g>>
  <2>1. /\ <<a, b, c, d, e, f>> \in Seq({a, b, c, d, e, f, g})
        /\ <<g>> \in Seq({a, b, c, d, e, f, g})
        /\ <<a, b, c, d, e, f, g>> \in Seq({a, b, c, d, e, f, g})
        /\ Len(<<a, b, c, d, e, f, g>>) = Len(<<a, b, c, d, e, f>>) + Len(<<g>>)
        /\ \A i \in 1..Len(<<a, b, c, d, e, f>>) : <<a, b, c, d, e, f, g>>[i] = <<a, b, c, d, e, f>>[i]
        /\ \A i \in 1..Len(<<g>>) :
             <<a, b, c, d, e, f, g>>[Len(<<a, b, c, d, e, f>>) + i] = <<g>>[i]
    BY SMTT(60)
  <2>2. QED
    BY <2>1, Joined, ZenonT(60)
<1>5. ASSUME NEW a, NEW b, NEW c, NEW d, NEW e, NEW f, NEW g
      PROVE  <<a, b, c>> \o <<d, e, f, g>> = <<a, b, c, d, e, f, g>>
  <2>1. /\ <<a, b, c>> \in Seq({a, b, c, d, e, f, g})
        /\ <<d, e, f, g>> \in Seq({a, b, c, d, e, f, g})
        /\ <<a, b, c, d, e, f, g>> \in Seq({a, b, c, d, e, f, g})
        /\ Len(<<a, b, c, d, e, f, g>>) = Len(<<a, b, c>>) + Len(<<d, e, f, g>>)
        /\ \A i \in 1..Len(<<a, b, c>>) : <<a, b, c, d, e, f, g>>[i] = <<a, b, c>>[i]
        /\ \A i \in 1..Len(<<d, e, f, g>>) :
             <<a, b, c, d, e, f, g>>[Len(<<a, b, c>>) + i] = <<d, e, f, g>>[i]
    BY SMTT(60)
  <2>2. QED
    BY <2>1, Joined, ZenonT(60)
<1>6. QED
  BY <1>1, <1>2, <1>3, <1>4, <1>5

(* The steps.                                                              *)

(* The actions of the boot one by one: _start sets the stack pointer,      *)
LEMMA StepSetupStack ==
  ASSUME KernelInv, TranslateFollows', SetupStack
  PROVE  KernelInv'
<1> USE DEF KernelInv, SetupStack
<1>1. UNCHANGED <<mem_end, text_end, mpc>>
  BY DEF allVars, vars, mmVars
<1>2. MmTypeOK' /\ UNCHANGED <<Tables, Free>>
  BY MemoryKept
<1>3. ImageInv'
  BY <1>1 DEF ImageInv, board
<1>4. ControlInv'
  BY MemoryKept DEF ControlInv, Booting, Early, Running, StackFits, board
<1>5. ConsoleInv'
  BY DEF ConsoleInv, ConsoleTellsOutcome, Early, StackFits
<1>6. TrapOnlyForLargeImages'
  BY DEF TrapOnlyForLargeImages
<1>7. QED
  BY <1>2, <1>3, <1>4, <1>5, <1>6

(* _clear_bss,                                                             *)
LEMMA StepClearBss ==
  ASSUME KernelInv, TranslateFollows', ClearBss
  PROVE  KernelInv'
<1> USE DEF KernelInv, ClearBss
<1>1. UNCHANGED <<mem_end, text_end, mpc>>
  BY DEF allVars, vars, mmVars
<1>2. MmTypeOK'
  BY MemoryKept
<1>3. ImageInv'
  BY <1>1 DEF ImageInv, board, LeaveInBss, NULL, WILD
<1>4. ControlInv'
  BY MemoryKept DEF ControlInv, Booting, Early, Running, StackFits, board
<1>5. ConsoleInv'
  BY DEF ConsoleInv, ConsoleTellsOutcome, Early, StackFits
<1>6. TrapOnlyForLargeImages'
  BY DEF TrapOnlyForLargeImages
<1>7. QED
  BY <1>2, <1>3, <1>4, <1>5, <1>6

(* pz_start_kern, with the frame that may reach into g_alloc_mem,          *)
LEMMA StepStartKern ==
  ASSUME KernelInv, TranslateFollows', StartKern
  PROVE  KernelInv'
<1> USE DEF KernelInv, StartKern
<1>1. UNCHANGED <<mem_end, text_end, mpc>>
  BY DEF allVars, vars, mmVars
<1>2. MmTypeOK'
  BY MemoryKept
<1>3. ImageInv'
  BY <1>1 DEF ImageInv, board, LeaveInBss
<1>4. ControlInv'
  BY MemoryKept DEF ControlInv, Booting, Early, Running, StackFits, board
<1>5. ConsoleInv'
  BY DEF ConsoleInv, ConsoleTellsOutcome, Early, StackFits, Say
<1>6. TrapOnlyForLargeImages'
  BY DEF TrapOnlyForLargeImages
<1>7. QED
  BY <1>2, <1>3, <1>4, <1>5, <1>6

(* pz_alloc_init,                                                          *)
LEMMA StepAllocInit ==
  ASSUME KernelInv, TranslateFollows', AllocInit
  PROVE  KernelInv'
<1> USE DEF KernelInv, AllocInit
<1>1. BootStep /\ [MmNext]_allVars
  BY DEF BootStep, MmNext
<1>2. UNCHANGED <<mem_end, text_end>> /\ MmTypeOK' /\ BootInv'
  <2>1. BootInv'
    BY <1>1, MmNextBoot DEF ControlInv, Booting
  <2>2. QED
    BY <2>1 DEF BootInv, MmIInv, Boot, FreeRangeStep, FreeRangeEnd, mmVars
<1>3. ImageInv'
  BY <1>2 DEF ImageInv, board
<1>4. ControlInv'
  BY <1>2 DEF ControlInv, Booting, Early, Running, StackFits, board
<1>5. ConsoleInv'
  <2>1. log = <<"loading", "allocator">>
    BY DEF ConsoleInv
  <2>2. log \o <<"vm">> = <<"loading", "allocator", "vm">>
    BY <2>1, LogGrows
  <2>3. QED
    BY <2>1, <2>2 DEF ConsoleInv, ConsoleTellsOutcome, Early, StackFits, Say
<1>6. TrapOnlyForLargeImages'
  BY DEF TrapOnlyForLargeImages
<1>7. QED
  BY <1>2, <1>3, <1>4, <1>5, <1>6

(* pz_mm_init, which comes to a panic only with a misloaded image,         *)
LEMMA StepPzMmInit ==
  ASSUME KernelInv, TranslateFollows', PzMmInit
  PROVE  KernelInv'
<1> USE DEF KernelInv, PzMmInit
<1>1. [MmNext]_allVars /\ BootInv /\ kpc \in Booting
  BY DEF MmNext, ControlInv, Booting
<1>2. BootInv'
  BY <1>1, MmNextBoot
<1>3. UNCHANGED <<mem_end, text_end>> /\ MmTypeOK'
  <2>1. UNCHANGED <<mem_end, text_end>>
    BY DEF MmStep, MmRoot, MapEnter, WalkTooLarge, WalkDown, WalkAlloc,
           WalkNoPage, MapSet, vars
  <2>2. QED
    BY <1>2, <2>1 DEF BootInv, MmIInv
<1>4. mpc' # "trap"
  BY <1>1, RoomForRoot, MmRootNeeded
  DEF MmStep, MmRoot, MapEnter, WalkTooLarge, WalkDown, WalkAlloc, WalkNoPage,
      MapSet, BootInv, InWalk, FailedMap
<1>5. kpc' = IF mpc' = "mapped" THEN "init_cpu"
             ELSE IF mpc' = "panic" THEN "panic" ELSE "mm_init"
  BY <1>4
<1>6. mpc' = "panic" => text_end' <= MEM_START
  <2>1. CASE Linked
    BY <1>1, <1>2, <1>3, <2>1, LinkedKept DEF BootInv, RoomInv, NeverPanics
  <2>2. CASE ~Linked
    BY <1>3, <2>2, LinkedImage, AddressTypes
  <2>3. QED
    BY <2>1, <2>2
<1>7. ImageInv'
  BY <1>3, <1>5 DEF ImageInv, board
<1>8. ControlInv'
  BY <1>2, <1>5, <1>6 DEF ControlInv, Booting, Early, Running, StackFits, board
<1>9. ConsoleInv'
  BY <1>5 DEF ConsoleInv, ConsoleTellsOutcome, Early, StackFits
<1>10. TrapOnlyForLargeImages'
  BY <1>5 DEF TrapOnlyForLargeImages
<1>11. QED
  BY <1>3, <1>7, <1>8, <1>9, <1>10

(* pz_mm_init again, where it follows what the stack left as the end of    *)
(* the list.                                                               *)
LEMMA StepPzMmInitWild ==
  ASSUME KernelInv, TranslateFollows', PzMmInitWild
  PROVE  KernelInv'
<1> USE DEF KernelInv, PzMmInitWild
<1>1. UNCHANGED <<mem_end, text_end, mpc>>
  BY DEF allVars, vars, mmVars
<1>2. MmTypeOK' /\ Free' = Free
  BY MemoryKept
<1>3. image.shared /\ Free = {}
  BY HeadIsWild DEF WildPage, ControlInv, Booting, BootInv, MmIInv
<1>4. ImageInv'
  BY <1>1 DEF ImageInv, board
<1>5. ControlInv'
  BY DEF ControlInv, Booting, Early, Running, StackFits, board
<1>6. ConsoleInv'
  <2>1. log = <<"loading", "allocator", "vm">> /\ satp = NULL
    BY DEF ConsoleInv, ControlInv, Booting
  <2>2. Last(log) = "vm"
    BY <2>1 DEF Last
  <2>3. QED
    BY <2>1, <2>2 DEF ConsoleInv, ConsoleTellsOutcome, Early, StackFits, Last
<1>7. TrapOnlyForLargeImages'
  BY <1>2, <1>3 DEF TrapOnlyForLargeImages, board
<1>8. QED
  BY <1>2, <1>4, <1>5, <1>6, <1>7

(* What pz_mm_init hands on to the switch.                                 *)
LEMMA SwitchReady ==
  ASSUME MmTypeOK, ImageInv, BootInv, mpc = "mapped"
  PROVE  RunInv /\ ptbl \in Frames /\ held = Tables
<1>1. /\ IInv /\ TreeInv /\ phase = "ready" /\ ptbl \in Frames
  BY DEF BootInv, MmIInv, StageInv
<1>2. MEM_START < text_end
  BY AddressTypes DEF BootInv, MisloadInv
<1>3. Linked /\ SpaceInv
  BY <1>2, LinkedImage DEF BootInv, MapInv
<1>4. Space = Wanted
  BY <1>3, SpaceComplete
<1>5. held = Tables
  BY <1>1 DEF TreeInv, Tables, Inner
<1>6. Pool \ Tables = Free
  BY <1>1, <1>5, AllDonated DEF Free
<1>7. \A t \in Tables, f \in Pool \ Tables : f < t
  BY <1>5, <1>6 DEF BootInv, TopFirst
<1>8. QED
  BY <1>1, <1>3, <1>4, <1>5, <1>7 DEF RunInv

(* The switch: nothing faults unless the stack reaches the text.           *)
LEMMA StepMmInitCpu ==
  ASSUME KernelInv, TranslateFollows', MmInitCpu
  PROVE  KernelInv'
<1> USE DEF KernelInv, MmInitCpu
<1>1. UNCHANGED <<mem_end, text_end, mpc>>
  BY DEF allVars, vars, mmVars
<1>2. MmTypeOK'
  BY MemoryKept
<1>3. RunInv /\ ptbl \in Frames
  BY SwitchReady DEF ControlInv, Booting
<1>4. StackFits => Alive
  BY <1>3, SwitchIsSafe DEF RunInv, ImageInv
<1>5. satp' \in Frames /\ satp' # NULL /\ UNCHANGED <<image, hart, log>>
  BY <1>3 DEF KernelTable, Frames, NULL, board
<1>6. ImageInv'
  BY <1>1, <1>5 DEF ImageInv
<1>7. CASE StackFits
  <2>1. kpc' = "start_init"
    BY <1>4, <1>7
  <2>2. ControlInv'
    BY <1>3, <1>5, <1>7, <2>1, MemoryKept
    DEF ControlInv, Booting, Early, Running, StackFits
  <2>3. ConsoleInv'
    BY <1>5, <2>1 DEF ConsoleInv, ConsoleTellsOutcome, Early
  <2>4. TrapOnlyForLargeImages'
    BY <2>1 DEF TrapOnlyForLargeImages
  <2>5. QED
    BY <1>2, <1>6, <2>2, <2>3, <2>4
<1>8. CASE ~StackFits
  <2>1. sp = image.g_stacks + hart /\ image \in IMAGES /\ hart \in 0..MAXCPU-1
    BY DEF ImageInv
  <2>2. ~Alive
    <3>1. /\ image.text_end \in Nat /\ image.g_stacks \in Nat
          /\ hart \in Nat /\ STACK_USE \in Nat
      BY <2>1, AddressTypes, ImageAssumption DEF ImageInv
    <3>2. ~(sp - STACK_USE >= image.text_end)
      BY <1>8, <2>1, <3>1 DEF StackFits
    <3>3. QED
      BY <3>2 DEF Alive
  <2>3. kpc' = "trap" /\ ~StackFits'
    BY <1>5, <1>8, <2>2 DEF StackFits
  <2>4. ControlInv'
    BY <1>5, <2>3 DEF ControlInv, Booting, Early, Running
  <2>5. ConsoleInv'
    <3>1. log = <<"loading", "allocator", "vm">>
      BY DEF ConsoleInv
    <3>2. Last(log') = "vm"
      BY <1>5, <3>1 DEF Last
    <3>3. QED
      BY <2>3, <3>2 DEF ConsoleInv, ConsoleTellsOutcome, Early
  <2>6. TrapOnlyForLargeImages'
    BY <2>3 DEF TrapOnlyForLargeImages
  <2>7. QED
    BY <1>2, <1>6, <2>4, <2>5, <2>6
<1>9. QED
  BY <1>7, <1>8

(* pz_sch_init and the call of pz_umain.                                   *)
LEMMA StepStartInit ==
  ASSUME KernelInv, TranslateFollows', StartInit
  PROVE  KernelInv'
<1> USE DEF KernelInv, StartInit
<1>1. UNCHANGED <<mem_end, text_end, mpc>>
  BY DEF allVars, vars, mmVars
<1>2. MmTypeOK'
  BY MemoryKept
<1>3. ImageInv'
  BY <1>1 DEF ImageInv, board
<1>4. ControlInv'
  BY MemoryKept DEF ControlInv, Booting, Early, Running, StackFits, board
<1>5. ConsoleInv'
  <2>1. log = <<"loading", "allocator", "vm">>
    BY DEF ConsoleInv
  <2>2. <<"loading", "allocator", "vm">> \o <<"scheduler", "init">> =
          <<"loading", "allocator", "vm", "scheduler", "init">>
    BY LogGrows
  <2>3. QED
    BY <2>1, <2>2 DEF ConsoleInv, ConsoleTellsOutcome, Early, StackFits, Say
<1>6. TrapOnlyForLargeImages'
  BY DEF TrapOnlyForLargeImages
<1>7. QED
  BY <1>2, <1>3, <1>4, <1>5, <1>6

(* pz_shutdown.                                                            *)
LEMMA StepShutdown ==
  ASSUME KernelInv, TranslateFollows', Shutdown
  PROVE  KernelInv'
<1> USE DEF KernelInv, Shutdown
<1>1. UNCHANGED <<mem_end, text_end, mpc>> /\ kpc' = "off"
  BY DEF allVars, vars, mmVars, SbiShutdown
<1>2. MmTypeOK'
  BY MemoryKept
<1>3. ImageInv'
  BY <1>1 DEF ImageInv, board, ShutsDown
<1>4. ControlInv'
  BY <1>1 DEF ControlInv, Booting, Early, Running, StackFits, board
<1>5. MEM_START < image.text_end <=> kpc = "returned"
  <2>1. MEM_START \in Nat /\ text_end \in Nat
    BY AddressTypes
  <2>2. kpc = "returned" => MEM_START < text_end
    BY LinkedImage DEF ControlInv, Running, RunInv
  <2>3. kpc = "panic" => text_end <= MEM_START
    BY DEF ControlInv
  <2>4. QED
    BY <2>1, <2>2, <2>3 DEF ShutsDown, ImageInv
<1>6. ConsoleInv'
  <2>1. MEM_START \in Nat /\ image'.text_end \in Nat /\ image' = image
    BY AddressTypes DEF ImageInv, board
  <2>2. CASE kpc = "returned"
    <3>1. log' = <<"loading", "allocator", "vm", "scheduler", "init", "returned">>
                   \o <<"shutdown">>
      BY <2>2 DEF ConsoleInv, Say
    <3>2. log' = <<"loading", "allocator", "vm">> \o
                 <<"scheduler", "init", "returned", "shutdown">>
      BY <3>1, LogGrows
    <3>3. MEM_START < image'.text_end
      BY <1>5, <2>1, <2>2
    <3>4. QED
      BY <1>1, <2>1, <3>2, <3>3 DEF ConsoleInv, ConsoleTellsOutcome, Early, StackFits
  <2>3. CASE kpc = "panic"
    <3>1. log' = <<"loading", "allocator", "vm">> \o <<"panic", "shutdown">>
      BY <2>3 DEF ConsoleInv, Say
    <3>2. ~(MEM_START < image'.text_end)
      BY <1>5, <2>1, <2>3
    <3>3. QED
      BY <1>1, <2>1, <3>1, <3>2 DEF ConsoleInv, ConsoleTellsOutcome, Early, StackFits
  <2>4. QED
    BY <2>2, <2>3 DEF ShutsDown
<1>7. TrapOnlyForLargeImages'
  BY <1>1 DEF TrapOnlyForLargeImages
<1>8. QED
  BY <1>2, <1>3, <1>4, <1>6, <1>7

(* The program's steps: to begin with, those of the allocator it succeeds  *)
(* in taking.                                                              *)
LEMMA ClientRuns ==
  ASSUME MmTypeOK, RunInv, TranslateFollows', UNCHANGED mmVars,
         \/ Pnew
         \/ \E f \in UserPages : Pfree(f)
         \/ \E f \in UserPages, g \in STORED : ClientStore(f, g)
  PROVE  /\ RunInv' /\ MmTypeOK' /\ mem_end' = mem_end
         /\ UNCHANGED <<Tables, Space, Wanted>>
<1>1. UserPages \subseteq held /\ IInv /\ Tables \subseteq Frames
      /\ mem \in [Frames -> Page] /\ held \subseteq Frames
  BY DEF UserPages, RunInv, IInv, TypeOK
<1>2. IInv'
  BY <1>1, NextIInv DEF Next
<1>3. UNCHANGED <<phase, mem_end>>
  BY DEF Pnew, Pfree, ClientStore
<1>4. UNCHANGED <<mpc, text_end, ptbl, seg, var, last, pa, lvl, tbl>>
  BY DEF mmVars, mapVars, walkVars
<1>5. (\A t \in Tables : mem'[t] = mem[t]) /\ Tables \subseteq held'
  <2>1. CASE Pnew
    <3>1. freelist = NULL \/ freelist \notin Tables
      BY <1>1, HeadIs DEF HeadIsFree, Free, RunInv
    <3>2. QED
      BY <1>1, <2>1, <3>1 DEF Pnew, MemAfterNew, PopFreelist, RunInv
  <2>2. ASSUME NEW f \in UserPages, Pfree(f)
        PROVE  (\A t \in Tables : mem'[t] = mem[t]) /\ Tables \subseteq held'
    BY <1>1, <2>2 DEF Pfree, MemAfterFree, UserPages, RunInv
  <2>3. ASSUME NEW f \in UserPages, NEW g \in STORED, ClientStore(f, g)
        PROVE  (\A t \in Tables : mem'[t] = mem[t]) /\ Tables \subseteq held'
    BY <1>1, <2>3 DEF ClientStore, UserPages, RunInv
  <2>4. QED
    BY <2>1, <2>2, <2>3
<1>6. RunInv' /\ UNCHANGED <<Tables, Space, Wanted>>
  BY <1>2, <1>3, <1>4, <1>5, RunKept
<1>7. MmTypeOK'
  BY <1>2, <1>4 DEF MmTypeOK, IInv
<1>8. QED
  BY <1>3, <1>6, <1>7

(* The program goes on after a call.                                       *)
LEMMA ProgramKept ==
  ASSUME KernelInv, kpc = "umain", RunInv', MmTypeOK',
         UNCHANGED <<kernelVars, mem_end, text_end>>
  PROVE  KernelInv'
<1> USE DEF KernelInv
<1>1. UNCHANGED <<image, hart, sp, satp, left, kpc, log>>
  BY DEF kernelVars, board
<1>2. ImageInv'
  BY <1>1 DEF ImageInv
<1>3. ControlInv'
  BY <1>1 DEF ControlInv, Booting, Early, Running, StackFits, board
<1>4. ConsoleInv'
  BY <1>1 DEF ConsoleInv, ConsoleTellsOutcome, Early, StackFits
<1>5. TrapOnlyForLargeImages'
  BY <1>1 DEF TrapOnlyForLargeImages
<1>6. QED
  BY <1>2, <1>3, <1>4, <1>5

(* The program hangs in a call.                                            *)
LEMMA ProgramHangs ==
  ASSUME KernelInv, TranslateFollows', kpc = "umain",
         kpc' \in {"trap", "uart_fault"},
         UNCHANGED <<allVars, board, sp, satp, left, log>>,
         kpc' = "trap" =>
           \/ mem_end - MEM_START > PAGESZ * Cardinality(Tables)
           \/ image.shared /\ Free = {}
  PROVE  KernelInv'
<1> USE DEF KernelInv
<1>1. UNCHANGED <<mem_end, text_end, image, hart>>
  BY DEF allVars, vars, mmVars, board
<1>2. MmTypeOK' /\ UNCHANGED <<Free, Tables>>
  BY MemoryKept
<1>3. ImageInv'
  BY <1>1 DEF ImageInv
<1>4. ControlInv'
  BY DEF ControlInv, Booting, Early, Running, StackFits, board
<1>5. ConsoleInv'
  <2>1. StackFits' /\ log' = <<"loading", "allocator", "vm", "scheduler", "init">>
        /\ satp' # NULL
    BY <1>1 DEF ConsoleInv, ControlInv, Running, StackFits
  <2>2. Last(log') = "init"
    BY <2>1 DEF Last
  <2>3. QED
    BY <2>1, <2>2 DEF ConsoleInv, ConsoleTellsOutcome, Early, Last
<1>6. TrapOnlyForLargeImages'
  BY <1>1, <1>2 DEF TrapOnlyForLargeImages, StackFits
<1>7. QED
  BY <1>2, <1>3, <1>4, <1>5, <1>6

(* The program takes a page: a fault means that the list hands out pages   *)
(* behind the mapped memory, or has run out.                               *)
LEMMA StepUmainPnew ==
  ASSUME KernelInv, TranslateFollows', UmainPnew
  PROVE  KernelInv'
<1> USE DEF KernelInv, UmainPnew
<1>1. RunInv /\ UNCHANGED mmVars
  BY DEF ControlInv, Running
<1>2. CASE ListHead = NULL \/ (ListHead \in Frames /\ Permits(ListHead, "W"))
  <2>1. RunInv' /\ MmTypeOK' /\ mem_end' = mem_end
    BY <1>1, <1>2, ClientRuns
  <2>2. UNCHANGED <<kernelVars, text_end>>
    BY <1>1, <1>2 DEF kernelVars, mmVars
  <2>3. QED
    BY <2>1, <2>2, ProgramKept
<1>3. CASE ~(ListHead = NULL \/ (ListHead \in Frames /\ Permits(ListHead, "W")))
  <2>1. kpc' = "trap" /\ UNCHANGED allVars
    BY <1>1, <1>3 DEF allVars
  <2>2. CASE ListHead = WILD
    BY <1>1, <2>1, <2>2, HeadIsWild, ProgramHangs DEF RunInv
  <2>3. CASE ListHead # WILD
    <3>1. freelist # NULL /\ ListHead = freelist
      BY <1>3, <2>3 DEF ListHead, ImageInv
    <3>2. freelist \in Free
      BY <1>1, <3>1, HeadIs DEF RunInv, HeadIsFree
    <3>3. freelist \in Pool \ Tables /\ freelist \in Frames
      BY <1>1, <3>2 DEF RunInv, Free, Donated, Pool
    <3>4. QED
      BY <1>1, <1>3, <2>1, <3>1, <3>3, ImageInOrder, FaultIsBeyond, ProgramHangs
  <2>4. QED
    BY <2>2, <2>3
<1>4. QED
  BY <1>2, <1>3

(* The program gives back a page: a fault means the same of that page.     *)
LEMMA StepUmainPfree ==
  ASSUME KernelInv, TranslateFollows', NEW f \in held, UmainPfree(f)
  PROVE  KernelInv'
<1> USE DEF KernelInv, UmainPfree
<1>1. RunInv /\ UNCHANGED mmVars /\ f \in UserPages
  BY DEF ControlInv, Running
<1>2. CASE Permits(f, "W")
  <2>1. RunInv' /\ MmTypeOK' /\ mem_end' = mem_end
    BY <1>1, <1>2, ClientRuns
  <2>2. UNCHANGED <<kernelVars, text_end>>
    BY <1>1, <1>2 DEF kernelVars, mmVars
  <2>3. QED
    BY <2>1, <2>2, ProgramKept
<1>3. CASE ~Permits(f, "W")
  <2>1. kpc' = "trap" /\ UNCHANGED allVars
    BY <1>1, <1>3 DEF allVars
  <2>2. f \in Pool \ Tables
    BY <1>1 DEF UserPages, RunInv, IInv, HeldInv, Donated
  <2>3. QED
    BY <1>1, <1>3, <2>1, <2>2, ImageInOrder, FaultIsBeyond, ProgramHangs
<1>4. QED
  BY <1>2, <1>3

(* The program writes into a page, which is no table.                      *)
LEMMA StepUmainStore ==
  ASSUME KernelInv, TranslateFollows', NEW f \in held, NEW g \in STORED,
         UmainStore(f, g)
  PROVE  KernelInv'
<1> USE DEF KernelInv, UmainStore
<1>1. RunInv
  BY DEF ControlInv, Running
<1>2. RunInv' /\ MmTypeOK' /\ mem_end' = mem_end
  BY <1>1, ClientRuns
<1>3. QED
  BY <1>2, ProgramKept DEF mmVars

(* The program writes to the UART, which may fault and changes nothing.    *)
LEMMA StepUmainUartPuts ==
  ASSUME KernelInv, TranslateFollows', UmainUartPuts
  PROVE  KernelInv'
<1> USE DEF UmainUartPuts
<1>1. CASE kpc' = kpc
  BY <1>1, MemoryKept, ProgramKept
  DEF KernelInv, ControlInv, Running, kernelVars, allVars, vars, mmVars
<1>2. CASE kpc' = "uart_fault"
  BY <1>2, ProgramHangs
<1>3. QED
  BY <1>1, <1>2

(* pz_umain returns.                                                       *)
LEMMA StepUmainReturn ==
  ASSUME KernelInv, TranslateFollows', UmainReturn
  PROVE  KernelInv'
<1> USE DEF KernelInv, UmainReturn
<1>1. UNCHANGED <<mem_end, text_end, mpc>>
  BY DEF allVars, vars, mmVars
<1>2. MmTypeOK'
  BY MemoryKept
<1>3. ImageInv'
  BY <1>1 DEF ImageInv, board
<1>4. ControlInv'
  BY MemoryKept DEF ControlInv, Booting, Early, Running, StackFits, board
<1>5. ConsoleInv'
  <2>1. log = <<"loading", "allocator", "vm", "scheduler", "init">>
    BY DEF ConsoleInv
  <2>2. log' = <<"loading", "allocator", "vm", "scheduler", "init", "returned">>
    BY <2>1, LogGrows DEF Say
  <2>3. QED
    BY <2>2 DEF ConsoleInv, ConsoleTellsOutcome, Early, StackFits
<1>6. TrapOnlyForLargeImages'
  BY DEF TrapOnlyForLargeImages
<1>7. QED
  BY <1>2, <1>3, <1>4, <1>5, <1>6

(* Every step keeps the invariant.                                         *)
LEMMA KernelStep ==
  ASSUME KernelInv, [KernelNext]_everything, TranslateFollows'
  PROVE  KernelInv'
<1>1. CASE Kern
  BY <1>1, StepSetupStack, StepClearBss, StepStartKern, StepAllocInit,
     StepPzMmInit, StepPzMmInitWild, StepMmInitCpu, StepStartInit, StepShutdown
  DEF Kern
<1>2. CASE Umain
  BY <1>2, StepUmainPnew, StepUmainPfree, StepUmainStore, StepUmainUartPuts,
     StepUmainReturn
  DEF Umain
<1>3. CASE UNCHANGED everything
  <2>1. UNCHANGED <<allVars, image, hart, sp, satp, left, kpc, log, text_end, mem_end, mpc>>
    BY <1>3 DEF everything, kernelVars, board, allVars, vars, mmVars
  <2>2. MmTypeOK' /\ UNCHANGED <<Free, Tables>>
    BY <2>1, MemoryKept DEF KernelInv
  <2>3. ImageInv' /\ ConsoleInv'
    BY <2>1 DEF KernelInv, ImageInv, ConsoleInv, ConsoleTellsOutcome, Early, StackFits
  <2>4. ControlInv'
    BY <2>1, MemoryKept DEF KernelInv, ControlInv, Booting, Early, Running, StackFits
  <2>5. TrapOnlyForLargeImages'
    BY <2>1, <2>2 DEF KernelInv, TrapOnlyForLargeImages, StackFits
  <2>6. QED
    BY <2>2, <2>3, <2>4, <2>5 DEF KernelInv
<1>4. QED
  BY <1>1, <1>2, <1>3 DEF KernelNext

-----------------------------------------------------------------------------
(* The boot's and the program's invariant holds at every step.             *)
THEOREM KernelInvariance == KernelSpec => []KernelInv
<1>1. KernelInit => KernelInv
  BY KernelStarts
<1>2. KernelInv /\ [KernelNext]_everything /\ TranslateFollows' => KernelInv'
  BY KernelStep
<1>3. TranslateFollows
  BY TranslateIs
<1>4. QED
  BY <1>1, <1>2, <1>3, PTL DEF KernelSpec

(* KernelTypes: the variables keep their types; in particular the head of  *)
(* the free list and the root table are pages or NULL in a whole boot.     *)
THEOREM KernelTypes == KernelSpec => []KernelTypeOK
<1>1. KernelInv => KernelTypeOK
  BY DEF KernelInv, ImageInv, ControlInv, MmTypeOK, TypeOK, KernelTypeOK,
         Booting, Early, Running
<1>2. QED
  BY <1>1, KernelInvariance, PTL

(* TrapTheorem: pz_umain's calls of the allocator fault only where the     *)
(* image has more pages than the tables took, or when the list is at its   *)
(* end and shares its head with the stack; nothing else in the boot does.  *)
THEOREM TrapTheorem == KernelSpec => []TrapOnlyForLargeImages
<1>1. KernelInv => TrapOnlyForLargeImages
  BY DEF KernelInv
<1>2. QED
  BY <1>1, KernelInvariance, PTL

(* ConsoleTheorem: what the console shows after a shutdown or when the     *)
(* machine hangs tells how the boot went, whatever the image and the hart. *)
THEOREM ConsoleTheorem == KernelSpec => []ConsoleTellsOutcome
<1>1. KernelInv => ConsoleTellsOutcome
  BY DEF KernelInv, ConsoleInv
<1>2. QED
  BY <1>1, KernelInvariance, PTL

(* FreePagesTheorem: the next page pz_alloc_pnew hands out is one of the   *)
(* pool that nobody holds, whatever RAM held at power-on and the stack     *)
(* left in the list's head, and the list ends in NULL where its head is    *)
(* not under the stack.                                                    *)
THEOREM FreePagesTheorem == KernelSpec => []OnlyFreePagesOut
<1>1. ASSUME KernelInv
      PROVE  OnlyFreePagesOut
  <2> SUFFICES ASSUME kpc \in {"mm_init", "init_cpu", "start_init", "umain",
                               "returned"}
               PROVE  IF Free # {} THEN ListHead \in Free
                      ELSE \/ ListHead = NULL
                           \/ image.shared /\ ListHead = WILD
    BY DEF OnlyFreePagesOut
  <2>1. IInv
    BY <1>1 DEF KernelInv, ControlInv, Booting, Running, BootInv, MmIInv, RunInv
  <2>2. HeadIsFree
    BY <2>1, HeadIs
  <2>3. left.freelist = NULL \/ (left.freelist = WILD /\ image.shared)
    BY <1>1 DEF KernelInv, ImageInv
  <2>4. QED
    BY <2>2, <2>3 DEF HeadIsFree, ListHead
<1>2. QED
  BY <1>1, KernelInvariance, PTL

=============================================================================
