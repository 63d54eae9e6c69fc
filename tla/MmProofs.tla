------------------------------- MODULE MmProofs -----------------------------
(***************************************************************************)
(* Theorems about Mm, for every page and table size, window, pool and      *)
(* image, misloaded ones included.                                         *)
(*                                                                         *)
(* The tables are pages of the pool like any other, so the allocator's     *)
(* inductive invariant comes along; what is added is that the held pages   *)
(* are the nodes of a tree of three levels, and where walk's cursor is in  *)
(* it.                                                                     *)
(***************************************************************************)
EXTENDS Mm, KallocProofs

-----------------------------------------------------------------------------
(* The entry i of table t leads to a table.                                *)
Links(t, i) == i \in Slots /\ Valid(mem[t][i])

(* The tables on the way to a leaf entry.                                  *)
Inner == Roots \union Mids

(* The held pages are the tables; no page is a table of two levels, and no *)
(* table is linked from two entries.                                       *)
TreeInv ==
  /\ Inner \union Leaves = held
  /\ Roots \intersect Mids = {}
  /\ Inner \intersect Leaves = {}
  /\ \A t, u \in Inner, i, j \in Slots :
       /\ Links(t, i) /\ Links(u, j)
       /\ PteFrame(mem[t][i]) = PteFrame(mem[u][j])
       => t = u /\ i = j

(* Before the root is allocated nobody holds a page, and only then the     *)
(* allocator may still be booting.                                         *)
StageInv ==
  /\ mpc = "mm_init" => held = {} /\ ptbl = NULL
  /\ mpc # "mm_init" => phase = "ready"
  /\ mpc \in {"kmap", "walk", "mapped"} => ptbl \in Frames

(* walk's table is one of the level it has got to.                         *)
CursorInv ==
  mpc = "walk" => /\ lvl = 2 => tbl = ptbl
                  /\ lvl = 1 => tbl \in Mids
                  /\ lvl = 0 => tbl \in Leaves

MmIInv == IInv /\ MmTypeOK /\ TreeInv /\ StageInv /\ CursorInv

-----------------------------------------------------------------------------
(* Addresses.                                                              *)

(* The span of an entry is not empty.                                      *)
LEMMA SpanType ==
  ASSUME NEW l \in 0..2
  PROVE  Span(l) \in Nat \ {0}
<1>1. PAGESZ * ENTRIES \in Nat \ {0}
  BY PageAssumption, EntriesAssumption, SMT
<1>2. PAGESZ * ENTRIES * ENTRIES \in Nat \ {0}
  BY <1>1, EntriesAssumption, SMT
<1>3. l = 0 \/ l = 1 \/ l = 2
  OBVIOUS
<1>4. QED
  BY <1>1, <1>2, <1>3, PageAssumption DEF Span

(* An index selects a slot of a table.                                     *)
LEMMA IndexType ==
  ASSUME NEW l \in 0..2, NEW va \in Nat
  PROVE  GetLvl(l, va) \in Slots
<1>1. PICK s \in Nat \ {0} : s = Span(l)
  BY SpanType
<1>2. va \div s \in Nat
  BY SMT
<1>3. (va \div s) % ENTRIES \in 0..ENTRIES-1
  BY <1>2, EntriesAssumption, SMT
<1>4. QED
  BY <1>1, <1>3 DEF GetLvl, Slots

(* Rounding up an address does not wrap.                                   *)
LEMMA RoundUpType ==
  ASSUME NEW a \in Nat, a + PAGESZ <= WORD
  PROVE  RoundUp(a, PAGESZ) \in 0..WORD-1
<1>1. PICK k \in Nat : /\ RoundUp(a, PAGESZ) = k * PAGESZ
                       /\ a <= k * PAGESZ
                       /\ \A f \in Nat : a <= f * PAGESZ => k <= f
  BY RoundUpLeast
<1>2. CASE k = 0
  BY <1>1, <1>2, PageAssumption, MmAssumption
<1>3. CASE k # 0
  <2>1. k - 1 \in Nat /\ ~(k <= k - 1)
    BY <1>3
  <2>2. (k - 1) * PAGESZ < a
    BY <1>1, <2>1, PageAssumption
  <2>3. (k - 1) * PAGESZ = k * PAGESZ - PAGESZ
    BY PageAssumption, SMT
  <2>4. k * PAGESZ \in Nat
    BY PageAssumption, SMT
  <2>5. QED
    BY <1>1, <2>2, <2>3, <2>4, PageAssumption, MmAssumption
<1>4. QED
  BY <1>2, <1>3

-----------------------------------------------------------------------------
(* Reading the tree.                                                       *)

(* The tables one entry below a table,                                     *)
LEMMA ChildrenAre ==
  ASSUME NEW t
  PROVE  \A x : x \in Children(t) <=>
                  \E i \in Slots : Links(t, i) /\ x = PteFrame(mem[t][i])
BY DEF Children, Child, Links

(* the tables of the middle level,                                         *)
LEMMA MidsAre ==
  \A x : x \in Mids <=> \E t \in Roots, i \in Slots :
                          Links(t, i) /\ x = PteFrame(mem[t][i])
<1>1. \A x : x \in Mids <=> \E t \in Roots : x \in Children(t)
  BY DEF Mids
<1>2. QED
  BY <1>1, ChildrenAre

(* and those of the last.                                                  *)
LEMMA LeavesAre ==
  \A x : x \in Leaves <=> \E t \in Mids, i \in Slots :
                            Links(t, i) /\ x = PteFrame(mem[t][i])
<1>1. \A x : x \in Leaves <=> \E t \in Mids : x \in Children(t)
  BY DEF Leaves
<1>2. QED
  BY <1>1, ChildrenAre

(* The tree does not change while its inner tables do not.                 *)
LEMMA KeepTree ==
  ASSUME TreeInv, UNCHANGED <<ptbl, held>>, \A t \in Inner : mem'[t] = mem[t]
  PROVE  TreeInv' /\ UNCHANGED <<Roots, Mids, Leaves>>
<1>1. Roots' = Roots
  BY DEF Roots
<1>2. Mids' = Mids
  <2>1. \A t \in Roots : Children(t)' = Children(t)
    BY DEF Children, Child, Inner
  <2>2. QED
    BY <1>1, <2>1 DEF Mids
<1>3. Leaves' = Leaves
  <2>1. \A t \in Mids : Children(t)' = Children(t)
    BY DEF Children, Child, Inner
  <2>2. QED
    BY <1>2, <2>1 DEF Leaves
<1>4. TreeInv'
  BY <1>1, <1>2, <1>3 DEF TreeInv, Inner, Links
<1>5. QED
  BY <1>1, <1>2, <1>3, <1>4

(* What an inner table links to is a table, one level down.                *)
LEMMA LinkedIsTable ==
  ASSUME NEW t \in Inner, NEW i \in Slots, Valid(mem[t][i])
  PROVE  /\ t \in Roots => PteFrame(mem[t][i]) \in Mids
         /\ t \in Mids => PteFrame(mem[t][i]) \in Leaves
BY MidsAre, LeavesAre DEF Links

(* walk links a page that was free, cleared, to the entry i of a table t   *)
(* that leads nowhere.                                                     *)
LEMMA LinkTable ==
  ASSUME TreeInv, held \subseteq Frames, ptbl' = ptbl,
         NEW f \in Frames \ held, held' = held \union {f},
         NEW t \in Inner, NEW i \in Slots, ~Valid(mem[t][i]),
         mem[t] \in Page,
         mem'[t] = [mem[t] EXCEPT ![i] = Pte(f, {"V"})],
         mem'[f] = Filled(Ptr(NULL)),
         \A u \in Inner \ {t} : mem'[u] = mem[u]
  PROVE  /\ TreeInv' /\ Roots' = Roots
         /\ t \in Roots => Mids' = Mids \union {f} /\ Leaves' = Leaves
         /\ t \in Mids => Mids' = Mids /\ Leaves' = Leaves \union {f}
<1>1. f \notin Inner \union Leaves
  BY DEF TreeInv
<1>2. Roots' = Roots
  BY DEF Roots
<1>3. \A j \in Slots : ~Links(f, j)'
  BY DEF Links, Valid, Filled, Ptr
<1>4. \A j \in Slots :
        /\ j # i => mem'[t][j] = mem[t][j]
        /\ j = i => mem'[t][j] = Pte(f, {"V"})
  BY DEF Page
<1>5. Links(t, i)' /\ PteFrame(mem[t][i])' = f /\ ~Links(t, i)
  BY <1>4 DEF Links, Valid, Pte, PteFrame
<1>6. \A j \in Slots \ {i} : /\ Links(t, j)' <=> Links(t, j)
                             /\ PteFrame(mem[t][j])' = PteFrame(mem[t][j])
  BY <1>4 DEF Links, PteFrame
<1>7. \A u \in Inner \ {t}, j \in Slots :
        /\ Links(u, j)' <=> Links(u, j)
        /\ PteFrame(mem[u][j])' = PteFrame(mem[u][j])
  BY DEF Links, PteFrame
<1>8. ASSUME NEW u \in Inner, u # t
      PROVE  Children(u)' = Children(u)
  BY <1>8 DEF Children, Child
<1>9. Children(t)' = Children(t) \union {f}
  <2>1. \A x : x \in Children(t) <=>
                 \E j \in Slots : Links(t, j) /\ x = PteFrame(mem[t][j])
    BY ChildrenAre
  <2>2. \A x : x \in Children(t)' <=>
                 \E j \in Slots : Links(t, j)' /\ x = PteFrame(mem[t][j])'
    BY DEF Children, Child, Links
  <2>3. QED
    BY <2>1, <2>2, <1>5, <1>6
<1>10. Children(f)' = {}
  BY <1>3 DEF Children, Child, Links
<1>11. t \in Roots => Mids' = Mids \union {f} /\ Leaves' = Leaves
  <2> SUFFICES ASSUME t \in Roots
               PROVE  Mids' = Mids \union {f} /\ Leaves' = Leaves
    OBVIOUS
  <2>1. Mids' = Mids \union {f}
    BY <1>2, <1>8, <1>9 DEF Mids, Inner
  <2>2. \A u \in Mids : u # t /\ Children(u)' = Children(u)
    BY <1>8 DEF Inner, TreeInv
  <2>3. Leaves' = Leaves
    BY <2>1, <2>2, <1>10 DEF Leaves
  <2>4. QED
    BY <2>1, <2>3
<1>12. t \in Mids => Mids' = Mids /\ Leaves' = Leaves \union {f}
  <2> SUFFICES ASSUME t \in Mids
               PROVE  Mids' = Mids /\ Leaves' = Leaves \union {f}
    OBVIOUS
  <2>1. \A u \in Roots : u # t /\ Children(u)' = Children(u)
    BY <1>8 DEF Inner, TreeInv
  <2>2. Mids' = Mids
    BY <1>2, <2>1 DEF Mids
  <2>3. Leaves' = Leaves \union {f}
    BY <2>2, <1>8, <1>9 DEF Leaves, Inner
  <2>4. QED
    BY <2>2, <2>3
<1>13. t \in Roots \/ t \in Mids
  BY DEF Inner
<1>14. /\ (Inner \union Leaves = held)'
       /\ (Roots \intersect Mids = {})'
       /\ (Inner \intersect Leaves = {})'
  BY <1>1, <1>2, <1>11, <1>12, <1>13 DEF TreeInv, Inner
<1>15. Inner' \subseteq Inner \union {f}
  BY <1>2, <1>11, <1>12, <1>13 DEF Inner
<1>16. ASSUME NEW u \in Inner, NEW j \in Slots, Links(u, j)
       PROVE  PteFrame(mem[u][j]) # f
  BY <1>1, <1>16, LinkedIsTable DEF Links, Inner
<1>17. ASSUME NEW u \in Inner', NEW v \in Inner', NEW j \in Slots, NEW k \in Slots,
              Links(u, j)', Links(v, k)',
              PteFrame(mem[u][j])' = PteFrame(mem[v][k])'
       PROVE  u = v /\ j = k
  <2>1. u \in Inner /\ v \in Inner
    BY <1>3, <1>15, <1>17
  <2>2. CASE u = t /\ j = i
    <3>1. PteFrame(mem[v][k])' = f
      BY <1>5, <1>17, <2>2
    <3>2. CASE ~(v = t /\ k = i)
      BY <3>1, <3>2, <2>1, <1>6, <1>7, <1>16, <1>17
    <3>3. QED
      BY <3>2, <2>2
  <2>3. CASE v = t /\ k = i
    <3>1. PteFrame(mem[u][j])' = f
      BY <1>5, <1>17, <2>3
    <3>2. CASE ~(u = t /\ j = i)
      BY <3>1, <3>2, <2>1, <1>6, <1>7, <1>16, <1>17
    <3>3. QED
      BY <3>2, <2>3
  <2>4. CASE ~(u = t /\ j = i) /\ ~(v = t /\ k = i)
    <3>1. /\ Links(u, j) /\ Links(v, k)
          /\ PteFrame(mem[u][j]) = PteFrame(mem[v][k])
      BY <2>1, <2>4, <1>6, <1>7, <1>17
    <3>2. QED
      BY <2>1, <3>1 DEF TreeInv
  <2>5. QED
    BY <2>2, <2>3, <2>4
<1>18. TreeInv'
  <2>1. (\A u, v \in Inner, j, k \in Slots :
           /\ Links(u, j) /\ Links(v, k)
           /\ PteFrame(mem[u][j]) = PteFrame(mem[v][k])
           => u = v /\ j = k)'
    BY <1>17
  <2>2. QED
    BY <1>14, <2>1 DEF TreeInv
<1>19. QED
  BY <1>2, <1>11, <1>12, <1>18

-----------------------------------------------------------------------------
(* The invariant is inductive.                                             *)

(* Before pz_mm_init there is no table.                                    *)
LEMMA MmInitIInv == Init /\ MmInit => MmIInv
<1> SUFFICES ASSUME Init, MmInit
             PROVE  MmIInv
  OBVIOUS
<1>1. IInv
  BY InitIInv
<1>2. MmTypeOK
  BY <1>1, MmAssumption DEF IInv, MmTypeOK, MmInit
<1>3. Roots = {}
  BY DEF MmInit, Roots, Frames, NULL
<1>4. Mids = {} /\ Leaves = {}
  BY <1>3 DEF Mids, Leaves
<1>5. TreeInv
  BY <1>3, <1>4 DEF TreeInv, Inner, Init
<1>6. StageInv /\ CursorInv
  BY DEF StageInv, CursorInv, Init, MmInit
<1>7. QED
  BY <1>1, <1>2, <1>5, <1>6 DEF MmIInv

(* The allocator's part, in a step of mm.c that does not call it and       *)
(* writes no free page.                                                    *)
LEMMA IInvKept ==
  ASSUME IInv, UNCHANGED <<mem_end, freelist, phase, p, held, ret>>,
         mem' \in [Frames -> Page], \A f \in Free : mem'[f] = mem[f]
  PROVE  IInv'
<1>1. PICK s \in Seq(Frames) : IsFreeList(s)
  BY DEF IInv, ListInv
<1>2. TypeOK' /\ LoopInv'
  BY DEF IInv, TypeOK, LoopInv
<1>3. Donated' = Donated /\ Free' = Free
  BY DEF Donated, Pool, Free
<1>4. HeldInv'
  BY <1>3 DEF IInv, HeldInv
<1>5. IsFreeList(s)'
  BY <1>1, <1>3, KeepList
<1>6. QED
  BY <1>2, <1>4, <1>5, Zenon DEF IInv, ListInv

(* The same for a step that calls pz_alloc_pnew.                           *)
LEMMA IInvPopped ==
  ASSUME IInv, PopFreelist, UNCHANGED <<mem_end, phase, p>>,
         mem' \in [Frames -> Page],
         \A g \in Free \ {freelist} : mem'[g] = mem[g]
  PROVE  /\ IInv'
         /\ freelist # NULL => freelist \in Frames \ held
<1>1. PICK s \in Seq(Frames) : IsFreeList(s)
  BY DEF IInv, ListInv
<1>2. /\ freelist' \in Frames \union {NULL}
      /\ HeldInv' /\ ListInv'
      /\ ret' = freelist
      /\ freelist = NULL \/ freelist \in Free
  BY <1>1, PopStep
<1>3. held' \subseteq Frames
  BY <1>2 DEF HeldInv, Donated, Pool
<1>4. TypeOK' /\ LoopInv'
  BY <1>2, <1>3 DEF IInv, TypeOK, LoopInv
<1>5. freelist # NULL => freelist \in Frames \ held
  BY <1>2 DEF Free, Donated, Pool
<1>6. QED
  BY <1>2, <1>4, <1>5 DEF IInv

(* The steps one by one: pz_alloc_init,                                    *)
LEMMA BootStepIInv ==
  ASSUME MmIInv, BootStep
  PROVE  MmIInv'
<1> USE DEF MmIInv
<1>1. IInv'
  BY NextIInv DEF BootStep, Boot, Next
<1>2. mpc = "mm_init" /\ held = {} /\ ptbl = NULL
  BY DEF StageInv, BootStep, Boot, FreeRangeStep, FreeRangeEnd
<1>3. UNCHANGED mmVars /\ held' = held
  BY DEF BootStep, Boot, FreeRangeStep, FreeRangeEnd
<1>4. MmTypeOK'
  BY <1>1, <1>3 DEF MmTypeOK, IInv, mmVars, mapVars, walkVars
<1>5. Roots' = {}
  BY <1>2, <1>3 DEF Roots, Frames, NULL, mmVars
<1>6. Mids' = {} /\ Leaves' = {}
  BY <1>5 DEF Mids, Leaves
<1>7. TreeInv'
  BY <1>2, <1>3, <1>5, <1>6 DEF TreeInv, Inner
<1>8. StageInv' /\ CursorInv'
  BY <1>2, <1>3 DEF StageInv, CursorInv, mmVars
<1>9. QED
  BY <1>1, <1>4, <1>7, <1>8

(* The page popped is cleared; JunkEE does not stay.                       *)
LEMMA ClearedPageType == Filled(Ptr(NULL)) \in Page
BY DEF Filled, Ptr, Page, Word, NULL

(* the root table,                                                         *)
LEMMA MmRootIInv ==
  ASSUME MmIInv, MmRoot
  PROVE  MmIInv'
<1> USE DEF MmIInv
<1>1. held = {} /\ ptbl = NULL
  BY DEF StageInv, MmRoot
<1>2. CASE freelist = NULL
  <2>1. UNCHANGED <<mem_end, mem, phase, p, text_end, mapVars, walkVars>>
        /\ PopFreelist /\ ptbl' = NULL /\ mpc' = "trap" /\ phase = "ready"
    BY <1>2 DEF MmRoot
  <2>2. UNCHANGED <<freelist, held>>
    BY <1>2, <2>1 DEF PopFreelist, HeadAfterNew
  <2>3. IInv'
    BY <2>1, IInvPopped DEF IInv, TypeOK
  <2>4. MmTypeOK'
    BY <2>1, <2>3 DEF MmTypeOK, IInv, mapVars, walkVars
  <2>5. TreeInv'
    BY <1>1, <2>1, <2>2, KeepTree DEF TreeInv, Inner
  <2>6. StageInv' /\ CursorInv'
    BY <2>1 DEF StageInv, CursorInv
  <2>7. QED
    BY <2>3, <2>4, <2>5, <2>6
<1>3. CASE freelist # NULL
  <2>1. /\ UNCHANGED <<mem_end, phase, p, text_end, mapVars, walkVars>>
        /\ PopFreelist /\ ptbl' = freelist /\ mpc' = "kmap" /\ phase = "ready"
        /\ mem' = [MemAfterNew EXCEPT ![freelist] = Filled(Ptr(NULL))]
    BY <1>3 DEF MmRoot
  <2>2. MemAfterNew \in [Frames -> Page]
        /\ \A g \in Frames \ {freelist} : MemAfterNew[g] = mem[g]
    BY NewMemType DEF MemAfterNew, IInv, TypeOK
  <2>3. mem' \in [Frames -> Page] /\ \A g \in Free \ {freelist} : mem'[g] = mem[g]
    BY <2>1, <2>2, ClearedPageType DEF Free, Donated, Pool
  <2>4. IInv' /\ freelist \in Frames
    BY <1>3, <2>1, <2>3, IInvPopped
  <2>5. PICK f \in Frames : f = freelist
    BY <2>4
  <2>6. held' = {f} /\ ptbl' = f /\ mem'[f] = Filled(Ptr(NULL))
    BY <1>1, <1>3, <2>1, <2>2, <2>5 DEF PopFreelist
  <2>7. MmTypeOK'
    BY <2>1, <2>4 DEF MmTypeOK, IInv, mapVars, walkVars
  <2>8. Roots' = {f}
    BY <2>6 DEF Roots
  <2>9. Children(f)' = {}
    BY <2>6 DEF Children, Child, Valid, Filled, Ptr
  <2>10. Mids' = {} /\ Leaves' = {}
    BY <2>8, <2>9 DEF Mids, Leaves
  <2>11. TreeInv'
    <3>1. \A j \in Slots : ~Links(f, j)'
      BY <2>6 DEF Links, Valid, Filled, Ptr
    <3>2. QED
      BY <2>6, <2>8, <2>10, <3>1 DEF TreeInv, Inner
  <2>12. StageInv' /\ CursorInv'
    BY <2>1, <2>4 DEF StageInv, CursorInv
  <2>13. QED
    BY <2>4, <2>7, <2>11, <2>12
<1>4. QED
  BY <1>2, <1>3

(* Steps that write no memory and leave the tree as it is.                 *)
LEMMA TreeUnchanged ==
  ASSUME MmIInv, UNCHANGED vars, ptbl' = ptbl
  PROVE  /\ IInv' /\ TreeInv'
         /\ UNCHANGED <<Roots, Mids, Leaves>>
<1>1. IInv'
  BY NextIInv DEF MmIInv
<1>2. QED
  BY <1>1, KeepTree DEF MmIInv, vars

(* the head of map,                                                        *)
LEMMA MapEnterIInv ==
  ASSUME MmIInv, MapEnter
  PROVE  MmIInv'
<1> USE DEF MmIInv
<1>1. UNCHANGED <<vars, text_end, ptbl, seg>> /\ mpc = "kmap" /\ ptbl \in Frames
  BY DEF MapEnter, StageInv
<1>2. IInv' /\ TreeInv'
  BY <1>1, TreeUnchanged
<1>3. Segment(seg).va \in {MEM_START} \union TEXT_ENDS
  BY DEF Segment, MmTypeOK
<1>4. RoundUp(Segment(seg).va, PAGESZ) \in 0..WORD-1
      /\ Segment(seg).va \in 0..WORD-1
  <2>1. PICK a \in Nat : a = Segment(seg).va /\ a + PAGESZ <= WORD
    BY <1>3, MmAssumption
  <2>2. RoundUp(a, PAGESZ) \in 0..WORD-1 /\ a \in 0..WORD-1
    BY <2>1, RoundUpType, MmAssumption, PageAssumption
  <2>3. QED
    BY <2>1, <2>2
<1>5. Segment(seg).sz \in Int
  <2>1. text_end \in Nat /\ mem_end \in Nat
    BY MmAssumption, LayoutAssumption DEF MmTypeOK, TypeOK
  <2>2. (text_end - MEM_START) % WORD \in Int
        /\ (MEM_START + MEM_SIZE - text_end) % WORD \in Int
    BY <2>1, MmAssumption, LayoutAssumption, SMT
  <2>3. QED
    BY <2>2 DEF Segment
<1>6. LastPage(Segment(seg)) \in 0..WORD-1
  <2>1. PICK a \in 0..WORD-1 : a = (Segment(seg).va + Segment(seg).sz - 1) % WORD
    BY <1>4, <1>5, MmAssumption, SMT
  <2>2. (a \div PAGESZ) * PAGESZ \in 0..a
    BY PageAssumption, MmAssumption, SMT
  <2>3. QED
    BY <2>1, <2>2, MmAssumption DEF LastPage, RoundDown
<1>7. CASE Segment(seg).sz = 0
  <2>1. mpc' = "panic" /\ UNCHANGED <<var, last, pa, walkVars>>
    BY <1>7 DEF MapEnter
  <2>2. MmTypeOK' /\ StageInv' /\ CursorInv'
    BY <1>1, <1>2, <2>1
    DEF MmTypeOK, StageInv, CursorInv, IInv, walkVars, vars
  <2>3. QED
    BY <1>2, <2>2
<1>8. CASE Segment(seg).sz # 0
  <2>1. /\ mpc' = "walk"
        /\ var' = RoundUp(Segment(seg).va, PAGESZ)
        /\ last' = LastPage(Segment(seg))
        /\ pa' = Segment(seg).va
        /\ lvl' = 2
        /\ tbl' = ptbl
    BY <1>8 DEF MapEnter
  <2>2. MmTypeOK'
    BY <1>1, <1>2, <1>4, <1>6, <2>1 DEF MmTypeOK, IInv
  <2>3. StageInv' /\ CursorInv'
    BY <1>1, <2>1 DEF StageInv, CursorInv, vars
  <2>4. QED
    BY <1>2, <2>2, <2>3
<1>9. QED
  BY <1>7, <1>8

(* Where walk is: the table it looks at, and the entry.                    *)
LEMMA WalkAt ==
  ASSUME MmIInv, InWalk
  PROVE  /\ Index \in Slots
         /\ tbl \in Frames /\ ptbl \in Frames
         /\ lvl = 2 => tbl \in Roots
         /\ lvl = 1 => tbl \in Mids
         /\ lvl = 0 => tbl \in Leaves
         /\ held \subseteq Frames /\ tbl \in held
         /\ mem[tbl] \in Page
<1>1. var \in Nat /\ lvl \in 0..2 /\ held \subseteq Frames /\ mem \in [Frames -> Page]
  BY MmAssumption DEF MmIInv, MmTypeOK, TypeOK
<1>2. Index \in Slots
  BY <1>1, IndexType DEF Index
<1>3. ptbl \in Frames
  BY DEF MmIInv, StageInv, InWalk
<1>4. /\ lvl = 2 => tbl \in Roots
      /\ lvl = 1 => tbl \in Mids
      /\ lvl = 0 => tbl \in Leaves
  BY <1>3 DEF MmIInv, CursorInv, InWalk, Roots
<1>5. tbl \in held
  BY <1>1, <1>4 DEF MmIInv, TreeInv, Inner
<1>6. QED
  BY <1>1, <1>2, <1>3, <1>4, <1>5

(* walk finds a table,                                                     *)
LEMMA WalkDownIInv ==
  ASSUME MmIInv, WalkDown
  PROVE  MmIInv'
<1> USE DEF MmIInv
<1>1. /\ UNCHANGED <<vars, text_end, ptbl, mpc, mapVars>>
      /\ InWalk /\ lvl > 0 /\ Valid(mem[tbl][Index])
      /\ tbl' = PteFrame(mem[tbl][Index]) /\ lvl' = lvl - 1
  BY DEF WalkDown, Entry
<1>2. IInv' /\ TreeInv' /\ UNCHANGED <<Roots, Mids, Leaves>>
  BY <1>1, TreeUnchanged
<1>3. /\ lvl = 2 => tbl' \in Mids
      /\ lvl = 1 => tbl' \in Leaves
  BY <1>1, WalkAt, LinkedIsTable DEF Inner, TreeInv
<1>4. lvl \in {1, 2}
  BY <1>1 DEF MmTypeOK
<1>5. tbl' \in Frames
  BY <1>3, <1>4 DEF TreeInv, Inner, MmTypeOK, TypeOK
<1>6. MmTypeOK'
  BY <1>1, <1>2, <1>4, <1>5 DEF MmTypeOK, IInv, mapVars
<1>7. StageInv' /\ CursorInv'
  BY <1>1, <1>2, <1>3, <1>4 DEF StageInv, CursorInv, vars, InWalk
<1>8. QED
  BY <1>2, <1>6, <1>7

(* What walk does with the page it gets for a missing table.               *)
LEMMA WalkAllocTree ==
  ASSUME MmIInv, WalkAlloc
  PROVE  /\ IInv' /\ TreeInv' /\ Roots' = Roots
         /\ freelist \in Frames \ held
         /\ held' = held \union {freelist}
         /\ mem'[tbl] = [mem[tbl] EXCEPT ![Index] = Pte(freelist, {"V"})]
         /\ mem'[freelist] = Filled(Ptr(NULL))
         /\ \A g \in Frames \ {tbl, freelist} : mem'[g] = mem[g]
         /\ lvl = 2 => Mids' = Mids \union {freelist} /\ Leaves' = Leaves
         /\ lvl = 1 => Mids' = Mids /\ Leaves' = Leaves \union {freelist}
<1> USE DEF MmIInv
<1>1. /\ InWalk /\ lvl \in {1, 2} /\ ~Valid(mem[tbl][Index]) /\ freelist # NULL
      /\ PopFreelist /\ mem' = MemAfterWalk
      /\ UNCHANGED <<mem_end, phase, p, ptbl>>
  BY DEF WalkAlloc, Entry, MmTypeOK
<1>2. /\ Index \in Slots /\ tbl \in held /\ held \subseteq Frames
      /\ mem[tbl] \in Page
      /\ lvl = 2 => tbl \in Roots
      /\ lvl = 1 => tbl \in Mids
  BY <1>1, WalkAt
<1>3. tbl \notin Free /\ tbl \in Frames
  BY <1>2 DEF Free
<1>4. freelist \in Free
  <2>1. PICK s \in Seq(Frames) : IsFreeList(s)
    BY DEF IInv, ListInv
  <2>2. Len(s) # 0 /\ 1 \in 1..Len(s) /\ freelist = s[1]
    BY <1>1, <2>1 DEF IsFreeList
  <2>3. QED
    BY <2>1, <2>2 DEF IsFreeList
<1>5. freelist \in Frames \ held /\ freelist # tbl
  BY <1>3, <1>4 DEF Free, Donated, Pool
<1>6. MemAfterNew \in [Frames -> Page]
      /\ \A g \in Frames \ {freelist} : MemAfterNew[g] = mem[g]
  BY <1>1, NewMemType DEF MemAfterNew, IInv, TypeOK
<1>7. Pte(freelist, {"V"}) \in Word
  BY <1>5 DEF Pte, Word, Flags, Frames
<1>8. /\ mem'[freelist] = Filled(Ptr(NULL))
      /\ mem'[tbl] = [mem[tbl] EXCEPT ![Index] = Pte(freelist, {"V"})]
      /\ \A g \in Frames \ {tbl, freelist} : mem'[g] = mem[g]
  BY <1>1, <1>2, <1>3, <1>5, <1>6 DEF MemAfterWalk
<1>9. mem' \in [Frames -> Page]
  <2>1. [mem[tbl] EXCEPT ![Index] = Pte(freelist, {"V"})] \in Page
    BY <1>2, <1>7 DEF Page
  <2>2. DOMAIN mem' = Frames /\ mem' = [g \in Frames |-> mem'[g]]
    BY <1>1, <1>6 DEF MemAfterWalk
  <2>3. \A g \in Frames : mem'[g] \in Page
    BY <1>8, <2>1, ClearedPageType DEF IInv, TypeOK
  <2>4. QED
    BY <2>2, <2>3
<1>10. IInv'
  <2>1. \A g \in Free \ {freelist} : mem'[g] = mem[g]
    BY <1>3, <1>8 DEF Free, Donated, Pool
  <2>2. QED
    BY <1>1, <1>9, <2>1, IInvPopped
<1>11. held' = held \union {freelist}
  BY <1>1 DEF PopFreelist
<1>12. PICK f \in Frames \ held, t \in Inner, i \in Slots :
         f = freelist /\ t = tbl /\ i = Index
  BY <1>1, <1>2, <1>5 DEF Inner
<1>13. \A u \in Inner \ {t} : mem'[u] = mem[u]
  BY <1>2, <1>8, <1>12 DEF TreeInv
<1>14. /\ TreeInv' /\ Roots' = Roots
       /\ t \in Roots => Mids' = Mids \union {f} /\ Leaves' = Leaves
       /\ t \in Mids => Mids' = Mids /\ Leaves' = Leaves \union {f}
  BY <1>1, <1>2, <1>8, <1>11, <1>12, <1>13, LinkTable
<1>15. QED
  BY <1>2, <1>5, <1>8, <1>10, <1>11, <1>12, <1>14

(* walk allocates, clears and links one,                                   *)
LEMMA WalkAllocIInv ==
  ASSUME MmIInv, WalkAlloc
  PROVE  MmIInv'
<1> USE DEF MmIInv
<1>1. /\ UNCHANGED <<phase, text_end, ptbl, mpc, mapVars>>
      /\ mpc = "walk" /\ lvl \in {1, 2} /\ tbl' = freelist /\ lvl' = lvl - 1
  BY DEF WalkAlloc, InWalk, MmTypeOK
<1>2. /\ IInv' /\ TreeInv' /\ freelist \in Frames
      /\ lvl = 2 => freelist \in Mids'
      /\ lvl = 1 => freelist \in Leaves'
  BY WalkAllocTree
<1>3. MmTypeOK'
  BY <1>1, <1>2 DEF MmTypeOK, IInv, mapVars
<1>4. StageInv' /\ CursorInv'
  BY <1>1, <1>2 DEF StageInv, CursorInv
<1>5. QED
  BY <1>2, <1>3, <1>4

(* walk finds no page,                                                     *)
LEMMA WalkNoPageIInv ==
  ASSUME MmIInv, WalkNoPage
  PROVE  MmIInv'
<1> USE DEF MmIInv
<1>1. /\ UNCHANGED <<mem_end, mem, phase, p, text_end, ptbl, mapVars, walkVars>>
      /\ mpc = "walk" /\ freelist = NULL /\ PopFreelist /\ mpc' = "panic"
  BY DEF WalkNoPage, FailedMap, InWalk
<1>2. UNCHANGED held
  BY <1>1 DEF PopFreelist
<1>3. IInv'
  BY <1>1, IInvPopped DEF IInv, TypeOK
<1>4. TreeInv'
  BY <1>1, <1>2, KeepTree
<1>5. MmTypeOK' /\ StageInv' /\ CursorInv'
  BY <1>1, <1>3
  DEF MmTypeOK, StageInv, CursorInv, IInv, mapVars, walkVars
<1>6. QED
  BY <1>3, <1>4, <1>5

(* map writes into the tables of the last level only.                      *)
LEMMA MapSetTree ==
  ASSUME MmIInv, MapSet
  PROVE  /\ IInv' /\ TreeInv' /\ UNCHANGED <<Roots, Mids, Leaves>>
         /\ tbl \in Leaves
         /\ \A f \in Free : mem'[f] = mem[f]
<1> USE DEF MmIInv
<1>1. InWalk /\ lvl = 0
      /\ UNCHANGED <<mem_end, freelist, phase, p, held, ret, ptbl>>
      /\ \/ mem' = mem
         \/ mem' = [mem EXCEPT ![tbl][Index] =
                      Pte(FrameOf(pa), Segment(seg).perm \union {"V"})]
  BY DEF MapSet
<1>2. tbl \in Leaves /\ tbl \in held /\ tbl \in Frames /\ Index \in Slots
  BY <1>1, WalkAt
<1>3. \A g \in Frames \ {tbl} : mem'[g] = mem[g]
  BY <1>1 DEF IInv, TypeOK
<1>4. mem' \in [Frames -> Page]
  <2>1. FrameOf(pa) \in Nat
    BY PageAssumption, MmAssumption, SMT DEF MmTypeOK, FrameOf
  <2>2. Segment(seg).perm \in SUBSET Flags
    BY DEF Segment, Flags
  <2>3. Pte(FrameOf(pa), Segment(seg).perm \union {"V"}) \in Word
    BY <2>1, <2>2 DEF Pte, Word, Flags
  <2>4. QED
    BY <1>1, <1>2, <2>3 DEF IInv, TypeOK, Page
<1>5. \A f \in Free : mem'[f] = mem[f]
  BY <1>2, <1>3 DEF Free, Donated, Pool
<1>6. IInv'
  BY <1>1, <1>4, <1>5, IInvKept
<1>7. \A t \in Inner : mem'[t] = mem[t]
  BY <1>2, <1>3 DEF TreeInv, IInv, TypeOK
<1>8. TreeInv' /\ UNCHANGED <<Roots, Mids, Leaves>>
  BY <1>1, <1>7, KeepTree
<1>9. QED
  BY <1>2, <1>5, <1>6, <1>8

(* map writes the leaf entry,                                              *)
LEMMA MapSetIInv ==
  ASSUME MmIInv, MapSet
  PROVE  MmIInv'
<1> USE DEF MmIInv
<1>1. IInv' /\ TreeInv' /\ UNCHANGED <<Roots, Mids, Leaves>>
  BY MapSetTree
<1>2. /\ mpc = "walk" /\ UNCHANGED <<phase, held, text_end, ptbl, last>>
      /\ ptbl \in Frames
  BY DEF MapSet, InWalk, StageInv
<1>3. \A a \in 0..WORD-1 : (a + PAGESZ) % WORD \in 0..WORD-1
  BY PageAssumption, MmAssumption, SMT
<1>4. MmTypeOK'
  BY <1>1, <1>2, <1>3 DEF MapSet, MmTypeOK, IInv, walkVars
<1>5. StageInv'
  BY <1>2 DEF MapSet, StageInv
<1>6. CursorInv'
  BY <1>1, <1>2 DEF MapSet, CursorInv, walkVars
<1>7. QED
  BY <1>1, <1>4, <1>5, <1>6

(* and walk refuses an address.                                            *)
LEMMA WalkTooLargeIInv ==
  ASSUME MmIInv, WalkTooLarge
  PROVE  MmIInv'
<1> USE DEF MmIInv
<1>1. UNCHANGED <<vars, text_end, ptbl, mapVars, walkVars>>
      /\ mpc = "walk" /\ mpc' = "panic"
  BY DEF WalkTooLarge
<1>2. IInv' /\ TreeInv'
  BY <1>1, TreeUnchanged
<1>3. MmTypeOK' /\ StageInv' /\ CursorInv'
  BY <1>1, <1>2
  DEF MmTypeOK, StageInv, CursorInv, IInv, vars, mapVars, walkVars
<1>4. QED
  BY <1>2, <1>3

(* Every step keeps the invariant.                                         *)
LEMMA MmNextIInv ==
  ASSUME MmIInv, [MmNext]_allVars
  PROVE  MmIInv'
<1>1. CASE UNCHANGED allVars
  <2>1. UNCHANGED <<vars, text_end, ptbl, mpc, mapVars, walkVars>>
    BY <1>1 DEF allVars, mmVars
  <2>2. IInv' /\ TreeInv' /\ UNCHANGED <<Roots, Mids, Leaves>>
    BY <2>1, TreeUnchanged
  <2>3. MmTypeOK' /\ StageInv' /\ CursorInv'
    BY <2>1, <2>2
    DEF MmIInv, MmTypeOK, StageInv, CursorInv, IInv, vars, mapVars, walkVars
  <2>4. QED
    BY <2>2, <2>3 DEF MmIInv
<1>2. QED
  BY <1>1, BootStepIInv, MmRootIInv, MapEnterIInv, WalkTooLargeIInv,
     WalkDownIInv, WalkAllocIInv, WalkNoPageIInv, MapSetIInv
  DEF MmNext, MmStep

(* MmInvariance: throughout pz_mm_init the held pages are the nodes of a   *)
(* tree of tables, walk's cursor is in it at its level, and the free list  *)
(* stays sound, for images at any address.                                 *)
THEOREM MmInvariance == MmSpec => []MmIInv
<1>1. Init /\ MmInit => MmIInv
  BY MmInitIInv
<1>2. MmIInv /\ [MmNext]_allVars => MmIInv'
  BY MmNextIInv
<1>3. QED
  BY <1>1, <1>2, PTL DEF MmSpec

(* MmTypes: every variable of pz_mm_init keeps its type; in particular     *)
(* walk's table is always a page of RAM or NULL, and no address leaves the *)
(* 64 bits.                                                                *)
THEOREM MmTypes == MmSpec => []MmTypeOK
<1>1. MmIInv => MmTypeOK
  BY DEF MmIInv
<1>2. QED
  BY <1>1, MmInvariance, PTL

(* TreeTheorem: at every moment of pz_mm_init the pages that were taken    *)
(* are the tables reachable from the root, and no table is shared.         *)
THEOREM TreeTheorem == MmSpec => []TablesAreATree
<1>1. ASSUME MmIInv
      PROVE  TablesAreATree
  <2> DEFINE E == {e \in Inner \X Slots : Valid(mem[e[1]][e[2]])}
             Linked == Mids \union Leaves
             target == [e \in E |-> PteFrame(mem[e[1]][e[2]])]
  <2>1. TreeInv /\ held \subseteq Frames
    BY <1>1 DEF MmIInv, MmTypeOK, TypeOK
  <2>2. Roots \union Linked = held /\ Roots \intersect Linked = {}
    BY <2>1 DEF TreeInv, Inner
  <2>3. IsFiniteSet(held)
    <3>1. IsFiniteSet(Frames)
      BY RamAssumption, FS_Interval DEF Frames
    <3>2. QED
      BY <2>1, <3>1, FS_Subset
  <2>4. IsFiniteSet(Roots) /\ IsFiniteSet(Linked)
    BY <2>2, <2>3, FS_Subset
  <2>5. \A e \in E : target[e] \in Linked
    BY LinkedIsTable DEF Inner
  <2>6. \A d, e \in E : target[d] = target[e] => d = e
    <3> SUFFICES ASSUME NEW d \in E, NEW e \in E, target[d] = target[e]
                 PROVE  d = e
      OBVIOUS
    <3>1. /\ d[1] \in Inner /\ d[2] \in Slots /\ d = <<d[1], d[2]>>
          /\ e[1] \in Inner /\ e[2] \in Slots /\ e = <<e[1], e[2]>>
          /\ Links(d[1], d[2]) /\ Links(e[1], e[2])
          /\ PteFrame(mem[d[1]][d[2]]) = PteFrame(mem[e[1]][e[2]])
      BY DEF Links
    <3>2. d[1] = e[1] /\ d[2] = e[2]
      BY <2>1, <3>1 DEF TreeInv
    <3>3. QED
      BY <3>1, <3>2
  <2>7. \A f \in Linked : \E e \in E : target[e] = f
    <3> SUFFICES ASSUME NEW f \in Linked
                 PROVE  \E e \in E : target[e] = f
      OBVIOUS
    <3>1. PICK t \in Inner, i \in Slots : Links(t, i) /\ f = PteFrame(mem[t][i])
      BY MidsAre, LeavesAre DEF Inner
    <3>2. <<t, i>> \in E
      BY <3>1 DEF Links
    <3>3. QED
      BY <3>1, <3>2
  <2>8. target \in Injection(E, Linked) /\ target \in Surjection(E, Linked)
    BY <2>5, <2>6, <2>7 DEF Injection, Surjection, IsInjective
  <2>9. Cardinality(E) = Cardinality(Linked)
    <3> HIDE DEF E, Linked, target
    <3>1. QED
      BY <2>4, <2>8, FS_Injection
  <2>10. Cardinality(held) = Cardinality(Roots) + Cardinality(Linked)
    <3> HIDE DEF Linked
    <3>1. Cardinality(Roots \intersect Linked) = 0
      BY <2>2, FS_EmptySet
    <3>2. /\ Cardinality(Roots) \in Nat /\ Cardinality(Linked) \in Nat
      BY <2>4, FS_CardinalityType
    <3>3. Cardinality(Roots \union Linked) =
            Cardinality(Roots) + Cardinality(Linked)
              - Cardinality(Roots \intersect Linked)
      BY <2>4, FS_Union
    <3>4. Cardinality(held) = Cardinality(Roots \union Linked)
      BY <2>2, Zenon
    <3>5. QED
      BY <3>1, <3>2, <3>3, <3>4
  <2>11. Roots \union Mids \union Leaves = held
    BY <2>2
  <2>12. {e \in (Roots \union Mids) \X Slots : Valid(mem[e[1]][e[2]])} = E
    BY DEF Inner
  <2>13. QED
    BY <2>9, <2>10, <2>11, <2>12 DEF TablesAreATree
<1>2. QED
  BY <1>1, MmInvariance, PTL

(* MmFreeListTheorem: mapping leaves the allocator a sound free list.      *)
THEOREM MmFreeListTheorem == MmSpec => []FreeListSound
<1>1. MmIInv => FreeListSound
  <2> SUFFICES ASSUME MmIInv
               PROVE  FreeListSound
    OBVIOUS
  <2>1. PICK s \in Seq(Frames) : IsFreeList(s)
    BY DEF MmIInv, IInv, ListInv
  <2>2. FreeSeq = s
    BY <2>1, FreeSeqIsList
  <2>3. QED
    BY <2>1, <2>2 DEF FreeListSound
<1>2. QED
  BY <1>1, MmInvariance, PTL

-----------------------------------------------------------------------------
(* pz_mm_init as a client of the allocator.                                *)
LEMMA MmNextIsClient ==
  ASSUME MmIInv, [MmNext]_allVars,
         (\A s \in Seq(Frames) : IsFreeList(s) => FreeSeq = s)'
  PROVE  [Stack!Next]_(Stack!absVars)
<1>1. PICK s \in Seq(Frames) : IsFreeList(s)
  BY DEF MmIInv, IInv, ListInv
<1>2. FreeSeq = s
  BY <1>1, FreeSeqIsList
<1>3. CASE BootStep
  <2>1. [Next]_vars
    BY <1>3 DEF BootStep, Boot, Next
  <2>2. QED
    BY <2>1, NextRefines DEF MmIInv
<1>4. CASE MmRoot \/ WalkAlloc \/ WalkNoPage
  <2>1. PopFreelist /\ UNCHANGED <<mem_end, p>>
    BY <1>4 DEF MmRoot, WalkAlloc, WalkNoPage
  <2>2. \A g \in Free \ {freelist} : mem'[g] = mem[g]
    <3>1. CASE MmRoot
      BY <3>1, NewMemType
      DEF MmRoot, MemAfterNew, Free, Donated, Pool, MmIInv, IInv, TypeOK
    <3>2. CASE WalkAlloc
      <4>1. tbl \notin Free
        BY <3>2, WalkAt DEF WalkAlloc, Free
      <4>2. QED
        BY <3>2, <4>1, WalkAllocTree DEF Free, Donated, Pool
    <3>3. CASE WalkNoPage
      BY <3>3 DEF WalkNoPage
    <3>4. QED
      BY <1>4, <3>1, <3>2, <3>3
  <2>3. Stack!Take \/ Stack!Refuse
    BY <2>1, <2>2, PopRefines DEF MmIInv
  <2>4. QED
    BY <2>3 DEF Stack!Next
<1>5. ASSUME MapEnter \/ WalkTooLarge \/ WalkDown \/ MapSet \/ UNCHANGED allVars
      PROVE  UNCHANGED Stack!absVars
  <2>1. UNCHANGED <<freelist, mem_end, p, held, ret>>
    BY <1>5 DEF MapEnter, WalkTooLarge, WalkDown, MapSet, allVars, vars
  <2>2. \A f \in Free : mem'[f] = mem[f]
    BY <1>5, MapSetTree DEF MapEnter, WalkTooLarge, WalkDown, allVars, vars
  <2>3. Free' = Free
    BY <2>1 DEF Free, Donated, Pool
  <2>4. IsFreeList(s)'
    BY <1>1, <2>1, <2>2, <2>3, KeepList
  <2>5. FreeSeq' = s
    BY <2>4
  <2>6. QED
    BY <1>2, <2>1, <2>5 DEF Stack!absVars
<1>6. QED
  BY <1>3, <1>4, <1>5 DEF MmNext, MmStep

(* MmIsClient: to the allocator pz_mm_init is one more client, whatever it *)
(* writes into its tables: every table is the page freed last, and a walk  *)
(* gives up exactly when no page is free.                                  *)
THEOREM MmIsClient == MmSpec => ImplementsPageStack
<1>1. \A s \in Seq(Frames) : IsFreeList(s) => FreeSeq = s
  BY FreeSeqIsList
<1>2. MmIInv /\ [MmNext]_allVars
        /\ (\A s \in Seq(Frames) : IsFreeList(s) => FreeSeq = s)'
        => [Stack!Next]_(Stack!absVars)
  BY MmNextIsClient
<1>3. QED
  BY <1>1, <1>2, InitRefines, MmInvariance, PTL
  DEF MmSpec, ImplementsPageStack, Stack!Spec

-----------------------------------------------------------------------------
(* The boot ends.                                                          *)

(* The two parts of TurnsLeft.                                             *)
Donating ==
  IF phase = "ready" THEN 0
  ELSE IF p < mem_end + MEM_SIZE THEN 1 + (mem_end + MEM_SIZE) - p ELSE 1

PerRange == 4 * WORD + 5
MappingAt(m, s, v, l) ==
  CASE m \in {"mapped", "panic", "trap"} -> 0
    [] m = "mm_init" -> 2 * PerRange
    [] m = "kmap" -> (2 - s) * PerRange + 4 * WORD + 4
    [] m = "walk" -> (2 - s) * PerRange + 4 * (WORD - v) + l
Mapping == MappingAt(mpc, seg, var, lvl)

(* TurnsLeft is their sum.                                                 *)
LEMMA TurnsAre ==
  /\ TurnsLeft = Donating + Mapping
  /\ TurnsLeft' = Donating' + Mapping'
BY DEF TurnsLeft, Donating, Mapping, MappingAt, PerRange

(* Each stage of pz_mm_init has its own share.                             *)
LEMMA MappingIs ==
  ASSUME NEW m \in {"mm_init", "kmap", "walk", "mapped", "panic", "trap"},
         NEW s \in {1, 2}, NEW v \in 0..WORD-1, NEW l \in 0..2
  PROVE  /\ m \in {"mapped", "panic", "trap"} => MappingAt(m, s, v, l) = 0
         /\ m = "mm_init" => MappingAt(m, s, v, l) = 2 * PerRange
         /\ m = "kmap" =>
              MappingAt(m, s, v, l) = (2 - s) * PerRange + 4 * WORD + 4
         /\ m = "walk" =>
              MappingAt(m, s, v, l) = (2 - s) * PerRange + 4 * (WORD - v) + l
         /\ MappingAt(m, s, v, l) \in Nat
         /\ m \in {"kmap", "walk"} => MappingAt(m, s, v, l) > 0
<1> DEFINE M == MappingAt(m, s, v, l)
<1>1. s = 1 \/ s = 2  OBVIOUS
<1>2. WORD \in Nat \ {0} /\ PerRange = 4 * WORD + 5
  BY MmAssumption DEF PerRange
<1>3. CASE m \in {"mapped", "panic", "trap"}
  <2>1. M = 0  BY <1>3 DEF MappingAt
  <2> QED  BY <1>3, <2>1
<1>4. CASE m = "mm_init"
  <2>1. M = 2 * PerRange  BY <1>4 DEF MappingAt
  <2> QED  BY <1>2, <1>4, <2>1
<1>5. CASE m = "kmap"
  <2>1. M = (2 - s) * PerRange + 4 * WORD + 4  BY <1>5 DEF MappingAt
  <2> QED  BY <1>1, <1>2, <1>5, <2>1
<1>6. CASE m = "walk"
  <2>1. M = (2 - s) * PerRange + 4 * (WORD - v) + l  BY <1>6 DEF MappingAt
  <2> QED  BY <1>1, <1>2, <1>6, <2>1
<1> QED  BY <1>3, <1>4, <1>5, <1>6

(* So before a step, and after it.                                         *)
LEMMA MappingStep ==
  ASSUME MmTypeOK, MmTypeOK'
  PROVE  /\ mpc = "mm_init" => Mapping = 2 * PerRange
         /\ mpc = "kmap" => Mapping = (2 - seg) * PerRange + 4 * WORD + 4
         /\ mpc = "walk" =>
              Mapping = (2 - seg) * PerRange + 4 * (WORD - var) + lvl
         /\ Mapping \in Nat /\ Mapping' \in Nat
         /\ mpc \in {"kmap", "walk"} => Mapping > 0
         /\ mpc' \in {"mapped", "panic", "trap"} => Mapping' = 0
         /\ mpc' = "kmap" => Mapping' = (2 - seg') * PerRange + 4 * WORD + 4
         /\ mpc' = "walk" =>
              Mapping' = (2 - seg') * PerRange + 4 * (WORD - var') + lvl'
<1>1. /\ mpc \in {"mm_init", "kmap", "walk", "mapped", "panic", "trap"}
      /\ seg \in {1, 2} /\ var \in 0..WORD-1 /\ lvl \in 0..2
  BY DEF MmTypeOK
<1>2. /\ mpc' \in {"mm_init", "kmap", "walk", "mapped", "panic", "trap"}
      /\ seg' \in {1, 2} /\ var' \in 0..WORD-1 /\ lvl' \in 0..2
  BY DEF MmTypeOK
<1>3. /\ Mapping = MappingAt(mpc, seg, var, lvl)
      /\ Mapping' = MappingAt(mpc', seg', var', lvl')
  BY DEF Mapping, MappingAt, PerRange
<1>4. /\ mpc = "mm_init" => Mapping = 2 * PerRange
      /\ mpc = "kmap" => Mapping = (2 - seg) * PerRange + 4 * WORD + 4
      /\ mpc = "walk" =>
           Mapping = (2 - seg) * PerRange + 4 * (WORD - var) + lvl
      /\ Mapping \in Nat
      /\ mpc \in {"kmap", "walk"} => Mapping > 0
  BY ONLY <1>1, <1>3, MappingIs
<1>5. /\ Mapping' \in Nat
      /\ mpc' \in {"mapped", "panic", "trap"} => Mapping' = 0
      /\ mpc' = "kmap" => Mapping' = (2 - seg') * PerRange + 4 * WORD + 4
      /\ mpc' = "walk" =>
           Mapping' = (2 - seg') * PerRange + 4 * (WORD - var') + lvl'
  BY ONLY <1>2, <1>3, MappingIs
<1> QED  BY <1>4, <1>5

(* What is left of free_range.                                             *)
LEMMA DonatingType ==
  ASSUME MmTypeOK
  PROVE  Donating \in Nat
<1>1. p \in Nat /\ mem_end + MEM_SIZE \in Nat
  BY LayoutAssumption DEF MmTypeOK, TypeOK
<1> QED  BY <1>1 DEF Donating

(* The addresses that map accepts have an end.                             *)
LEMMA MaxVaType == MAX_VA \in Int
<1>1. PAGESZ * ENTRIES * ENTRIES * ENTRIES \in Nat
  BY PageAssumption, EntriesAssumption, SMT
<1> QED  BY <1>1, SMT DEF MAX_VA

(* A turn of free_range.                                                   *)
LEMMA DonatingFalls ==
  ASSUME MmTypeOK, Boot
  PROVE  Donating' < Donating /\ Donating \in Nat /\ Donating' \in Nat
<1>1. /\ p \in Nat /\ mem_end + MEM_SIZE \in Nat /\ PAGESZ \in Nat \ {0}
      /\ mem_end' = mem_end
  BY PageAssumption, LayoutAssumption
  DEF MmTypeOK, TypeOK, Boot, FreeRangeStep, FreeRangeEnd
<1> DEFINE stop == mem_end + MEM_SIZE
<1>2. CASE FreeRangeStep
  <2>1. /\ p + PAGESZ <= stop /\ p' = p + PAGESZ
        /\ phase = "free_range" /\ phase' = phase
    BY <1>2 DEF FreeRangeStep
  <2>2. Donating = IF p < stop THEN 1 + stop - p ELSE 1
    BY <2>1 DEF Donating
  <2>3. Donating' = IF p' < stop THEN 1 + stop - p' ELSE 1
    BY <1>1, <2>1 DEF Donating
  <2>4. stop \in Nat  BY <1>1
  <2> HIDE DEF stop
  <2> QED  BY ONLY <1>1, <2>1, <2>2, <2>3, <2>4
<1>3. CASE FreeRangeEnd
  <2>1. Donating' = 0  BY <1>3 DEF FreeRangeEnd, Donating
  <2>2. Donating = IF p < stop THEN 1 + stop - p ELSE 1
    BY <1>3 DEF FreeRangeEnd, Donating
  <2>3. stop \in Nat  BY <1>1
  <2> HIDE DEF stop
  <2> QED  BY ONLY <1>1, <2>1, <2>2, <2>3
<1> QED  BY <1>2, <1>3 DEF Boot

(* A step of pz_mm_init.                                                   *)
LEMMA MappingFalls ==
  ASSUME MmTypeOK, MmTypeOK', MmStep
  PROVE  Mapping' < Mapping
<1>1. /\ seg = 1 \/ seg = 2
      /\ seg' = 1 \/ seg' = 2
      /\ var \in 0..WORD-1 /\ var' \in 0..WORD-1
      /\ lvl \in 0..2 /\ lvl' \in 0..2
  BY DEF MmTypeOK
<1>2. WORD \in Nat \ {0} /\ PerRange = 4 * WORD + 5 /\ PAGESZ \in Nat \ {0}
  BY MmAssumption, PageAssumption DEF PerRange
<1>3. Mapping \in Nat /\ (mpc \in {"kmap", "walk"} => Mapping > 0)
  BY MappingStep
<1>5. /\ mpc' \in {"mapped", "panic", "trap"} => Mapping' = 0
      /\ mpc' = "kmap" => Mapping' = (2 - seg') * PerRange + 4 * WORD + 4
      /\ mpc' = "walk" =>
           Mapping' = (2 - seg') * PerRange + 4 * (WORD - var') + lvl'
  BY MappingStep
<1>6. CASE MmRoot
  <2>1. Mapping = 2 * PerRange  BY <1>6, MappingStep DEF MmRoot
  <2>2. mpc' = "trap" \/ mpc' = "kmap"  BY <1>6 DEF MmRoot
  <2> QED  BY ONLY <1>1, <1>2, <1>5, <2>1, <2>2
<1>7. CASE MapEnter
  <2>1. /\ mpc = "kmap" /\ seg' = seg
        /\ mpc' = "panic" \/ mpc' = "walk"
    BY <1>7 DEF MapEnter
  <2>2. Mapping = (2 - seg) * PerRange + 4 * WORD + 4  BY <2>1, MappingStep
  <2> QED  BY ONLY <1>1, <1>2, <1>5, <2>1, <2>2
<1>8. CASE WalkTooLarge \/ WalkNoPage
  <2>1. mpc = "walk" /\ mpc' = "panic"
    BY <1>8 DEF WalkTooLarge, WalkNoPage, InWalk, FailedMap
  <2> QED  BY <1>3, <1>5, <2>1
<1>9. CASE WalkDown \/ WalkAlloc
  <2>1. /\ mpc = "walk" /\ mpc' = "walk" /\ lvl > 0 /\ lvl' = lvl - 1
        /\ seg' = seg /\ var' = var
    BY <1>9 DEF WalkDown, WalkAlloc, InWalk, mapVars
  <2>2. Mapping = (2 - seg) * PerRange + 4 * (WORD - var) + lvl
    BY <2>1, MappingStep
  <2> QED  BY ONLY <1>1, <1>2, <1>5, <2>1, <2>2
<1>10. CASE MapSet
  <2>1. mpc = "walk" /\ lvl = 0 /\ var < MAX_VA
    BY <1>10 DEF MapSet, InWalk
  <2>2. Mapping = (2 - seg) * PerRange + 4 * (WORD - var) + lvl
    BY <2>1, MappingStep
  <2>3. \/ mpc' \in {"panic", "mapped"}
        \/ mpc' = "kmap" /\ seg = 1 /\ seg' = 2
        \/ /\ mpc' = "walk" /\ seg' = seg /\ lvl' = 2
           /\ var' = (var + PAGESZ) % WORD
    <3>1. CASE Valid(Entry)  BY <1>10, <3>1 DEF MapSet
    <3>2. CASE ~Valid(Entry) /\ var = last
      <4>1. mpc' = (IF seg = 1 THEN "kmap" ELSE "mapped") /\ seg' = 2
        BY <1>10, <3>2 DEF MapSet
      <4> QED  BY <4>1
    <3>3. CASE ~Valid(Entry) /\ var # last
      BY <1>10, <2>1, <3>3 DEF MapSet
    <3> QED  BY <3>1, <3>2, <3>3
  <2>4. CASE mpc' \in {"panic", "mapped"}
    BY <1>3, <1>5, <2>1, <2>4
  <2>5. CASE mpc' = "kmap" /\ seg = 1 /\ seg' = 2
    BY ONLY <1>1, <1>2, <1>5, <2>1, <2>2, <2>5
  <2>6. CASE /\ mpc' = "walk" /\ seg' = seg /\ lvl' = 2
             /\ var' = (var + PAGESZ) % WORD
(* walk has checked the address, so that the next one does not wrap.       *)
    <3>1. MAX_VA \in Int /\ MAX_VA + PAGESZ <= WORD
      BY MaxVaType, MaxVaAssumption
    <3>2. var + PAGESZ \in 0..WORD-1
      BY ONLY <1>1, <1>2, <2>1, <3>1
    <3>3. var' = var + PAGESZ  BY ONLY <1>2, <2>6, <3>2
    <3> QED  BY ONLY <1>1, <1>2, <1>5, <2>1, <2>2, <2>6, <3>3
  <2> QED  BY ONLY <2>3, <2>4, <2>5, <2>6
<1> QED  BY <1>6, <1>7, <1>8, <1>9, <1>10 DEF MmStep

(* EndTheorem: every step of the boot up to the end of pz_mm_init brings   *)
(* that end nearer, for images at any address, with pages enough or not.   *)
THEOREM EndTheorem == MmSpec => EndComesNearer
<1>1. ASSUME MmIInv, MmIInv', MmNext
      PROVE  TurnsLeft' \in Nat /\ TurnsLeft' < TurnsLeft
  <2>1. MmTypeOK /\ MmTypeOK'  BY <1>1 DEF MmIInv
  <2>2. TurnsLeft = Donating + Mapping /\ TurnsLeft' = Donating' + Mapping'
    BY TurnsAre
  <2>3. Mapping \in Nat /\ Mapping' \in Nat  BY <2>1, MappingStep
  <2>4. CASE BootStep
    <3>1. Donating' < Donating /\ Donating \in Nat /\ Donating' \in Nat
      BY <2>1, <2>4, DonatingFalls DEF BootStep
    <3>2. Mapping' = Mapping
      BY <2>4 DEF BootStep, mmVars, mapVars, walkVars, Mapping,
                  MappingAt, PerRange
    <3>3. \A a, b, m \in Nat : b < a => b + m \in Nat /\ b + m < a + m
      OBVIOUS
    <3> QED  BY <2>2, <2>3, <3>1, <3>2, <3>3
  <2>5. CASE MmStep
    <3>1. Mapping' < Mapping  BY <2>1, <2>5, MappingFalls
    <3>2. UNCHANGED <<mem_end, phase, p>>
      BY <2>5 DEF MmStep, MmRoot, MapEnter, WalkTooLarge, WalkDown, WalkAlloc,
                  WalkNoPage, MapSet, vars
    <3>3. Donating' = Donating /\ Donating \in Nat
      BY <2>1, <3>2, DonatingType DEF Donating
    <3>4. \A a, b, d \in Nat : b < a => d + b \in Nat /\ d + b < d + a
      OBVIOUS
    <3> QED  BY <2>2, <2>3, <3>1, <3>3, <3>4
  <2> QED  BY <1>1, <2>4, <2>5 DEF MmNext
<1>2. MmIInv /\ MmIInv' /\ [MmNext]_allVars
        => [TurnsLeft' \in Nat /\ TurnsLeft' < TurnsLeft]_allVars
  BY <1>1
<1> QED  BY <1>2, MmInvariance, PTL DEF MmSpec, EndComesNearer

=============================================================================
