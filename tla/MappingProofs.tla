----------------------------- MODULE MappingProofs --------------------------
(***************************************************************************)
(* Theorems about what pz_mm_init maps, for an image that is where it is   *)
(* linked for, whatever the page and table sizes and the layout.           *)
(***************************************************************************)
EXTENDS MmLinked, MmProofs

-----------------------------------------------------------------------------
(* Arithmetic.                                                             *)

(* Arithmetic the solver needs help with: products,                        *)
LEMMA TimesMonotone ==
  ASSUME NEW a \in Int, NEW b \in Int, a <= b, NEW k \in Nat
  PROVE  k * a <= k * b
<1>1. k * (b - a) >= 0
  BY SMT
<1>2. QED
  BY <1>1, SMT

(* which keep a strict order,                                              *)
LEMMA TimesLess ==
  ASSUME NEW a \in Int, NEW b \in Int, NEW k \in Nat \ {0}
  PROVE  k * a < k * b <=> a < b
<1>1. a < b => k * (a + 1) <= k * b
  BY TimesMonotone
<1>2. a >= b => k * b <= k * a
  BY TimesMonotone
<1>3. k * (a + 1) = k * a + k
  BY SMT
<1>4. k * a \in Int /\ k * b \in Int
  BY SMT
<1>5. QED
  BY <1>1, <1>2, <1>3, <1>4

(* The quotient and the remainder.                                         *)
LEMMA Quotient ==
  ASSUME NEW a \in Nat, NEW b \in Nat \ {0}
  PROVE  /\ a \div b \in Nat
         /\ a % b \in 0..b-1
         /\ a = b * (a \div b) + (a % b)
BY SMT

(* quotients and remainders,                                               *)
LEMMA QuotientAndRest ==
  ASSUME NEW a \in Nat, NEW b \in Nat, NEW c \in Nat \ {0},
         a \div c = b \div c, a % c = b % c
  PROVE  a = b
BY Quotient

(* a quotient told by its bounds,                                          *)
LEMMA QuotientIs ==
  ASSUME NEW a \in Nat, NEW b \in Nat \ {0}, NEW q \in Nat,
         b * q <= a, a < b * (q + 1)
  PROVE  a \div b = q
<1>1. PICK d \in Nat : d = a \div b /\ b * d <= a /\ a < b * d + b
  BY Quotient
<1>2. b * (d + 1) = b * d + b /\ b * d \in Int /\ b * q \in Int /\ b * (q + 1) \in Int
  BY SMT
<1>3. b * d < b * (q + 1) /\ b * q < b * (d + 1)
  BY <1>1, <1>2
<1>4. d < q + 1 /\ q < d + 1
  BY <1>3, TimesLess
<1>5. QED
  BY <1>1, <1>4

(* A quotient of quotients, and a factor cancelled.                        *)
LEMMA QuotientTwice ==
  ASSUME NEW a \in Nat, NEW b \in Nat \ {0}, NEW c \in Nat \ {0}
  PROVE  a \div (b * c) = (a \div b) \div c
<1>1. PICK q \in Nat, r \in 0..b-1 : q = a \div b /\ a = b * q + r
  BY Quotient
<1>2. PICK d \in Nat, s \in 0..c-1 : d = q \div c /\ q = c * d + s
  BY Quotient
<1>3. a = (b * c) * d + (b * s + r)
  <2>1. b * (c * d + s) = (b * c) * d + b * s
    BY SMTT(60)
  <2>2. b * q = (b * c) * d + b * s
    BY <1>2, <2>1
  <2>3. b * q \in Int /\ (b * c) * d \in Int /\ b * s \in Int
    BY SMT
  <2>4. QED
    BY <1>1, <2>2, <2>3
<1>4. b * s <= b * (c - 1)
  BY TimesMonotone
<1>5. b * (c - 1) = b * c - b /\ b * c \in Nat \ {0} /\ b * s \in Nat
  BY SMT
<1>6. (b * c) * (d + 1) = (b * c) * d + b * c /\ (b * c) * d \in Nat
  BY SMT
<1>7. (b * c) * d <= a /\ a < (b * c) * (d + 1)
  BY <1>3, <1>4, <1>5, <1>6
<1>8. a \div (b * c) = d
  BY <1>5, <1>7, QuotientIs
<1>9. QED
  BY <1>1, <1>2, <1>8

(* the quotient of a multiple,                                             *)
LEMMA QuotientCancel ==
  ASSUME NEW v \in Nat, NEW b \in Nat \ {0}
  PROVE  (v * b) \div b = v
<1>1. v * b \in Nat /\ b * v = v * b /\ b * (v + 1) = b * v + b
  BY SMT
<1>2. QED
  BY <1>1, QuotientIs

(* and of less than a multiple.                                            *)
LEMMA QuotientLess ==
  ASSUME NEW v \in Nat, NEW b \in Nat \ {0}, NEW w \in Nat, v < b * w
  PROVE  v \div b < w
<1>1. PICK q \in Nat : q = v \div b /\ b * q <= v
  BY Quotient
<1>2. b * q < b * w
  BY <1>1, SMT
<1>3. QED
  BY <1>1, <1>2, TimesLess

-----------------------------------------------------------------------------
(* The indices of a page.                                                  *)

(* The three indices of page v are its digits in base ENTRIES.             *)
LEMMA Indices ==
  ASSUME NEW v \in Nat
  PROVE  /\ GetLvl(0, v * PAGESZ) = v % ENTRIES
         /\ GetLvl(1, v * PAGESZ) = (v \div ENTRIES) % ENTRIES
         /\ GetLvl(2, v * PAGESZ) = ((v \div ENTRIES) \div ENTRIES) % ENTRIES
<1>1. v * PAGESZ \in Nat /\ (v * PAGESZ) \div PAGESZ = v
  BY PageAssumption, QuotientCancel, SMT
<1>2. PAGESZ * ENTRIES \in Nat \ {0}
  BY PageAssumption, EntriesAssumption, SMT
<1>3. (v * PAGESZ) \div (PAGESZ * ENTRIES) = v \div ENTRIES
  BY <1>1, PageAssumption, EntriesAssumption, QuotientTwice
<1>4. (v * PAGESZ) \div ((PAGESZ * ENTRIES) * ENTRIES) = (v \div ENTRIES) \div ENTRIES
  BY <1>1, <1>2, <1>3, EntriesAssumption, QuotientTwice
<1>5. QED
  BY <1>1, <1>3, <1>4 DEF GetLvl, Span

(* A page of the address space is named by its three indices.              *)
LEMMA IndicesName ==
  ASSUME NEW u \in Nat, u < ENTRIES * (ENTRIES * ENTRIES),
         NEW v \in Nat, v < ENTRIES * (ENTRIES * ENTRIES),
         \A l \in 0..2 : GetLvl(l, u * PAGESZ) = GetLvl(l, v * PAGESZ)
  PROVE  u = v
<1>1. ENTRIES \in Nat \ {0} /\ ENTRIES * ENTRIES \in Nat
  BY EntriesAssumption, SMT
<1>2. ASSUME NEW w \in Nat, w < ENTRIES * (ENTRIES * ENTRIES)
      PROVE  /\ w \div ENTRIES \in Nat
             /\ (w \div ENTRIES) \div ENTRIES \in 0..ENTRIES-1
             /\ ((w \div ENTRIES) \div ENTRIES) % ENTRIES
                  = (w \div ENTRIES) \div ENTRIES
  <2>1. PICK q \in Nat : q = w \div ENTRIES /\ q < ENTRIES * ENTRIES
    BY <1>1, <1>2, Quotient, QuotientLess
  <2>2. PICK r \in Nat : r = q \div ENTRIES /\ r < ENTRIES
    BY <1>1, <2>1, Quotient, QuotientLess
  <2>3. r % ENTRIES = r
    BY <1>1, <2>2, SMT
  <2>4. QED
    BY <1>1, <2>1, <2>2, <2>3
<1>3. (u \div ENTRIES) \div ENTRIES = (v \div ENTRIES) \div ENTRIES
  BY <1>2, Indices
<1>4. u \div ENTRIES = v \div ENTRIES
  <2>1. (u \div ENTRIES) % ENTRIES = (v \div ENTRIES) % ENTRIES
    BY Indices
  <2>2. QED
    BY <1>1, <1>2, <1>3, <2>1, QuotientAndRest
<1>5. u % ENTRIES = v % ENTRIES
  BY Indices
<1>6. QED
  BY <1>1, <1>4, <1>5, QuotientAndRest

(* Below MAX_VA that is every page.                                        *)
LEMMA PagesNamed ==
  ASSUME NEW v \in Nat, v * PAGESZ < MAX_VA
  PROVE  v < ENTRIES * (ENTRIES * ENTRIES)
<1>1. PICK n \in Nat : n = PAGESZ * ENTRIES * ENTRIES * ENTRIES
  BY PageAssumption, EntriesAssumption, SMT
<1>2. n \div 2 <= n
  BY SMT
<1>3. n = PAGESZ * (ENTRIES * (ENTRIES * ENTRIES))
      /\ ENTRIES * (ENTRIES * ENTRIES) \in Nat /\ v * PAGESZ = PAGESZ * v
  BY <1>1, PageAssumption, EntriesAssumption, SMT
<1>4. PAGESZ * v < PAGESZ * (ENTRIES * (ENTRIES * ENTRIES))
  BY <1>1, <1>2, <1>3, PageAssumption, SMT DEF MAX_VA
<1>5. QED
  BY <1>3, <1>4, PageAssumption, TimesLess

-----------------------------------------------------------------------------
(* The way of a virtual address through the tables.                        *)
HasMid(va) == ptbl \in Frames /\ Links(ptbl, GetLvl(2, va))
MidOf(va) == PteFrame(mem[ptbl][GetLvl(2, va)])
HasLeaf(va) == HasMid(va) /\ Links(MidOf(va), GetLvl(1, va))
LeafOf(va) == PteFrame(mem[MidOf(va)][GetLvl(1, va)])

(* What Translate gives.                                                   *)
TranslateFollows ==
  \A va \in Nat :
    Translate(va) = IF HasLeaf(va) THEN mem[LeafOf(va)][GetLvl(0, va)]
                    ELSE Ptr(NULL)

(* The MMU's translation is that path.                                     *)
LEMMA TranslateIs == TranslateFollows
<1> SUFFICES ASSUME NEW va \in Nat
             PROVE  Translate(va) =
                      IF HasLeaf(va) THEN mem[LeafOf(va)][GetLvl(0, va)]
                      ELSE Ptr(NULL)
  BY DEF TranslateFollows
<1> DEFINE mids == UNION {Child(t, GetLvl(2, va)) : t \in Roots}
           leaves == UNION {Child(t, GetLvl(1, va)) : t \in mids}
<1>1. Translate(va) = IF leaves = {} THEN Ptr(NULL)
                      ELSE mem[CHOOSE t \in leaves : TRUE][GetLvl(0, va)]
  BY DEF Translate
<1>2. \A l \in 0..2 : GetLvl(l, va) \in Slots
  BY IndexType
<1>3. mids = IF HasMid(va) THEN {MidOf(va)} ELSE {}
  BY <1>2 DEF HasMid, MidOf, Roots, Child, Links
<1>4. leaves = IF HasLeaf(va) THEN {LeafOf(va)} ELSE {}
  BY <1>2, <1>3 DEF HasLeaf, LeafOf, Child, Links
<1> HIDE DEF mids, leaves
<1>5. CASE HasLeaf(va)
  <2>1. (CHOOSE t \in leaves : TRUE) = LeafOf(va)
    BY <1>4, <1>5
  <2>2. QED
    BY <1>1, <1>4, <1>5, <2>1
<1>6. CASE ~HasLeaf(va)
  BY <1>1, <1>4, <1>6
<1>7. QED
  BY <1>5, <1>6

(* The tables on the way are tables of the tree.                           *)
LEMMA OnTheWay ==
  ASSUME NEW va \in Nat
  PROVE  /\ ptbl \in Frames => ptbl \in Roots
         /\ HasMid(va) => MidOf(va) \in Mids
         /\ HasLeaf(va) => LeafOf(va) \in Leaves
<1>1. \A l \in 0..2 : GetLvl(l, va) \in Slots
  BY IndexType
<1>2. ptbl \in Frames => ptbl \in Roots
  BY DEF Roots
<1>3. HasMid(va) => MidOf(va) \in Mids
  BY <1>1, <1>2, MidsAre DEF HasMid, MidOf
<1>4. QED
  BY <1>1, <1>2, <1>3, LeavesAre DEF HasLeaf, LeafOf

(* The same leaf is reached by addresses with the same upper indices only. *)
LEMMA OneWay ==
  ASSUME TreeInv, NEW u \in Nat, NEW v \in Nat,
         HasLeaf(u), HasLeaf(v), LeafOf(u) = LeafOf(v)
  PROVE  GetLvl(2, u) = GetLvl(2, v) /\ GetLvl(1, u) = GetLvl(1, v)
<1>1. \A l \in 0..2 : GetLvl(l, u) \in Slots /\ GetLvl(l, v) \in Slots
  BY IndexType
<1>2. MidOf(u) \in Inner /\ MidOf(v) \in Inner /\ ptbl \in Inner
  BY OnTheWay DEF HasLeaf, HasMid, Inner
<1>3. MidOf(u) = MidOf(v) /\ GetLvl(1, u) = GetLvl(1, v)
  BY <1>1, <1>2 DEF TreeInv, HasLeaf, LeafOf
<1>4. GetLvl(2, u) = GetLvl(2, v)
  BY <1>1, <1>2, <1>3 DEF TreeInv, HasLeaf, HasMid, MidOf
<1>5. QED
  BY <1>3, <1>4

(* The space depends on the translation of its pages only.                 *)
LEMMA SpaceKept ==
  ASSUME \A v \in VirtualPages : Translate(v * PAGESZ)' = Translate(v * PAGESZ)
  PROVE  Space' = Space
BY DEF Space

-----------------------------------------------------------------------------
(* What the steps of walk and map do to the translation.                   *)

(* walk's table is the one its address leads to.                           *)
PathInv ==
  mpc = "walk" => /\ lvl = 1 => HasMid(var) /\ tbl = MidOf(var)
                  /\ lvl = 0 => HasLeaf(var) /\ tbl = LeafOf(var)

(* A step that leaves memory and root alone changes no path.               *)
LEMMA TranslateKept ==
  ASSUME UNCHANGED <<mem, ptbl>>, NEW va
  PROVE  /\ Translate(va)' = Translate(va)
         /\ HasMid(va)' = HasMid(va) /\ MidOf(va)' = MidOf(va)
         /\ HasLeaf(va)' = HasLeaf(va) /\ LeafOf(va)' = LeafOf(va)
<1>1. Translate(va)' = Translate(va)
  BY DEF Translate, Roots, Child, Valid, PteFrame
<1>2. QED
  BY <1>1 DEF HasMid, MidOf, HasLeaf, LeafOf, Links, Valid, PteFrame

(* A table that is linked is empty: it translates nothing more.            *)
LEMMA WalkAllocPath ==
  ASSUME MmIInv, PathInv, WalkAlloc, TranslateFollows'
  PROVE  /\ PathInv'
         /\ \A va \in Nat : Translate(va)' = Translate(va)
<1> DEFINE f == freelist
<1>1. /\ InWalk /\ lvl \in {1, 2} /\ ~Valid(mem[tbl][Index])
      /\ tbl' = f /\ lvl' = lvl - 1 /\ UNCHANGED <<mpc, ptbl, var>>
  BY DEF WalkAlloc, Entry, MmIInv, MmTypeOK, mapVars
<1>2. /\ TreeInv /\ f \in Frames \ held
      /\ mem'[tbl] = [mem[tbl] EXCEPT ![Index] = Pte(f, {"V"})]
      /\ mem'[f] = Filled(Ptr(NULL))
      /\ \A g \in Frames \ {tbl, f} : mem'[g] = mem[g]
  BY WalkAllocTree DEF MmIInv
<1>3. /\ Index \in Slots /\ Index = GetLvl(lvl, var)
      /\ tbl \in Frames /\ ptbl \in Frames /\ tbl \in held
      /\ held \subseteq Frames /\ mem[tbl] \in Page
      /\ lvl = 2 => tbl = ptbl
  BY <1>1, WalkAt DEF Index, MmIInv, CursorInv, InWalk
<1>4. var \in Nat
  BY MmAssumption DEF MmIInv, MmTypeOK
<1>5. /\ \A i \in Slots : ~Valid(mem'[f][i]) /\ mem'[f][i] = Ptr(NULL)
      /\ \A i \in Slots \ {Index} : mem'[tbl][i] = mem[tbl][i]
      /\ mem'[tbl][Index] = Pte(f, {"V"})
  BY <1>2, <1>3 DEF Filled, Valid, Ptr, Page
<1>6. Valid(mem'[tbl][Index]) /\ PteFrame(mem'[tbl][Index]) = f
  BY <1>5 DEF Valid, PteFrame, Pte
<1>7. PathInv'
  <2>1. CASE lvl = 2
    <3>1. HasMid(var)' /\ MidOf(var)' = f
      BY <1>1, <1>3, <1>6, <2>1 DEF HasMid, MidOf, Links, Valid, PteFrame
    <3>2. QED
      BY <1>1, <2>1, <3>1 DEF PathInv
  <2>2. CASE lvl = 1
    <3>1. HasMid(var) /\ tbl = MidOf(var)
      BY <1>1, <2>2 DEF PathInv, InWalk
    <3>2. ptbl # tbl
      BY <1>2, <3>1, <1>4, OnTheWay DEF TreeInv, HasMid
    <3>3. mem'[ptbl] = mem[ptbl]
      BY <1>2, <1>3, <3>2, <3>1, <1>4, OnTheWay DEF TreeInv, Inner, HasMid
    <3>4. HasMid(var)' /\ MidOf(var)' = tbl
      BY <1>1, <3>1, <3>3 DEF HasMid, MidOf, Links, Valid, PteFrame
    <3>5. HasLeaf(var)' /\ LeafOf(var)' = f
      BY <1>1, <1>3, <1>6, <2>2, <3>4 DEF HasLeaf, LeafOf, Links, Valid, PteFrame
    <3>6. QED
      BY <1>1, <2>2, <3>5 DEF PathInv
  <2>3. QED
    BY <1>1, <2>1, <2>2
<1>8. ASSUME NEW va \in Nat
      PROVE  Translate(va)' = Translate(va)
  <2>1. \A l \in 0..2 : GetLvl(l, va) \in Slots
    BY IndexType
  <2>2. /\ Translate(va) = IF HasLeaf(va) THEN mem[LeafOf(va)][GetLvl(0, va)]
                           ELSE Ptr(NULL)
        /\ Translate(va)' = IF HasLeaf(va)' THEN mem'[LeafOf(va)'][GetLvl(0, va)]
                            ELSE Ptr(NULL)
    BY TranslateIs DEF TranslateFollows
  <2>3. /\ ptbl \in Roots
        /\ HasMid(va) => MidOf(va) \in Mids
        /\ HasLeaf(va) => LeafOf(va) \in Leaves
    BY <1>3, OnTheWay
  <2>4. \A g \in held \ {tbl} : mem'[g] = mem[g]
    BY <1>2, <1>3
  <2>5. ASSUME HasMid(va), MidOf(va) # tbl,
               HasMid(va)', MidOf(va)' = MidOf(va), tbl \in Inner
        PROVE  Translate(va)' = Translate(va)
    <3>1. mem'[MidOf(va)] = mem[MidOf(va)]
      BY <1>2, <2>3, <2>4, <2>5 DEF TreeInv, Inner
    <3>2. (HasLeaf(va)' <=> HasLeaf(va)) /\ LeafOf(va)' = LeafOf(va)
      BY <2>5, <3>1 DEF HasLeaf, LeafOf, Links, Valid, PteFrame
    <3>3. HasLeaf(va) => mem'[LeafOf(va)] = mem[LeafOf(va)]
      BY <1>2, <2>3, <2>4, <2>5 DEF TreeInv
    <3>4. QED
      BY <2>2, <3>2, <3>3
  <2>6. CASE lvl = 2 /\ GetLvl(2, va) # Index
    <3>1. mem'[ptbl][GetLvl(2, va)] = mem[ptbl][GetLvl(2, va)]
      BY <1>3, <1>5, <2>1, <2>6
    <3>2. (HasMid(va)' <=> HasMid(va)) /\ MidOf(va)' = MidOf(va)
      BY <1>1, <3>1 DEF HasMid, MidOf, Links, Valid, PteFrame
    <3>3. CASE HasMid(va)
      <4>1. MidOf(va) # tbl /\ tbl \in Inner
        BY <1>2, <1>3, <2>3, <2>6, <3>3 DEF TreeInv, Inner
      <4>2. QED
        BY <2>5, <3>2, <3>3, <4>1
    <3>4. CASE ~HasMid(va)
      <4>1. ~HasLeaf(va) /\ ~HasLeaf(va)'
        BY <3>2, <3>4 DEF HasLeaf
      <4>2. QED
        BY <2>2, <4>1
    <3>5. QED
      BY <3>3, <3>4
  <2>7. CASE lvl = 2 /\ GetLvl(2, va) = Index
    <3>1. ~HasLeaf(va)
      BY <1>1, <1>3, <2>7 DEF HasLeaf, HasMid, Links
    <3>2. MidOf(va)' = f
      BY <1>1, <1>3, <1>6, <2>7 DEF MidOf, PteFrame
    <3>3. ~HasLeaf(va)'
      BY <1>5, <2>1, <3>2 DEF HasLeaf, Links, Valid
    <3>4. QED
      BY <2>2, <3>1, <3>3
  <2>8. CASE lvl = 1
    <3>1. tbl \in Mids
      BY <1>1, <2>8, WalkAt
    <3>2. mem'[ptbl] = mem[ptbl]
      BY <1>2, <1>3, <2>3, <2>4, <3>1 DEF TreeInv, Inner
    <3>3. (HasMid(va)' <=> HasMid(va)) /\ MidOf(va)' = MidOf(va)
      BY <1>1, <3>2 DEF HasMid, MidOf, Links, Valid, PteFrame
    <3>4. CASE ~HasMid(va)
      <4>1. ~HasLeaf(va) /\ ~HasLeaf(va)'
        BY <3>3, <3>4 DEF HasLeaf
      <4>2. QED
        BY <2>2, <4>1
    <3>5. CASE HasMid(va) /\ MidOf(va) # tbl
      BY <2>5, <3>1, <3>3, <3>5 DEF Inner
    <3>6. CASE HasMid(va) /\ MidOf(va) = tbl /\ GetLvl(1, va) # Index
      <4>1. mem'[tbl][GetLvl(1, va)] = mem[tbl][GetLvl(1, va)]
        BY <1>5, <2>1, <3>6
      <4>2. (HasLeaf(va)' <=> HasLeaf(va)) /\ LeafOf(va)' = LeafOf(va)
        BY <3>3, <3>6, <4>1 DEF HasLeaf, LeafOf, Links, Valid, PteFrame
      <4>3. HasLeaf(va) => mem'[LeafOf(va)] = mem[LeafOf(va)]
        BY <1>2, <2>3, <2>4, <3>1 DEF TreeInv, Inner
      <4>4. QED
        BY <2>2, <4>2, <4>3
    <3>7. CASE HasMid(va) /\ MidOf(va) = tbl /\ GetLvl(1, va) = Index
      <4>1. ~HasLeaf(va)
        BY <1>1, <3>7 DEF HasLeaf, Links
      <4>2. LeafOf(va)' = f
        BY <1>6, <3>3, <3>7 DEF LeafOf, PteFrame
      <4>3. mem'[f][GetLvl(0, va)] = Ptr(NULL)
        BY <1>5, <2>1
      <4>4. QED
        BY <2>2, <4>1, <4>2, <4>3
    <3>8. QED
      BY <3>4, <3>5, <3>6, <3>7
  <2>9. QED
    BY <1>1, <2>6, <2>7, <2>8
<1>9. QED
  BY <1>7, <1>8

(* Setting a leaf entry changes the translation of one page.               *)
LEMMA MapSetTranslate ==
  ASSUME MmIInv, PathInv, MapSet, ~Valid(Entry), TranslateFollows',
         NEW va \in Nat
  PROVE  Translate(va)' =
           IF \A l \in 0..2 : GetLvl(l, va) = GetLvl(l, var)
           THEN Pte(FrameOf(pa), Segment(seg).perm \union {"V"})
           ELSE Translate(va)
<1> DEFINE new == Pte(FrameOf(pa), Segment(seg).perm \union {"V"})
<1>1. /\ InWalk /\ lvl = 0 /\ ptbl' = ptbl
      /\ mem' = [mem EXCEPT ![tbl][Index] = new]
  BY DEF MapSet
<1>2. /\ Index \in Slots /\ Index = GetLvl(0, var)
      /\ tbl \in Frames /\ ptbl \in Frames /\ tbl \in Leaves
  BY <1>1, WalkAt DEF Index
<1>3. HasLeaf(var) /\ tbl = LeafOf(var) /\ var \in Nat
  BY <1>1, MmAssumption DEF PathInv, InWalk, MmIInv, MmTypeOK
<1>4. /\ TreeInv /\ mem \in [Frames -> Page] /\ held \subseteq Frames
  BY DEF MmIInv, MmTypeOK, TypeOK
<1>5. \A l \in 0..2 : GetLvl(l, va) \in Slots
  BY IndexType
<1>6. /\ ptbl \in Roots
      /\ HasMid(va) => MidOf(va) \in Mids
      /\ HasLeaf(va) => LeafOf(va) \in Leaves
  BY <1>2, OnTheWay
<1>7. /\ \A g \in Frames \ {tbl} : mem'[g] = mem[g]
      /\ mem'[tbl][Index] = new
      /\ \A i \in Slots \ {Index} : mem'[tbl][i] = mem[tbl][i]
  BY <1>1, <1>2, <1>4 DEF Page
<1>8. (HasMid(va)' <=> HasMid(va)) /\ MidOf(va)' = MidOf(va)
  <2>1. mem'[ptbl] = mem[ptbl]
    BY <1>2, <1>4, <1>6, <1>7 DEF TreeInv, Inner
  <2>2. QED
    BY <1>1, <2>1 DEF HasMid, MidOf, Links, Valid, PteFrame
<1>9. (HasLeaf(va)' <=> HasLeaf(va)) /\ (HasLeaf(va) => LeafOf(va)' = LeafOf(va))
  <2>1. HasMid(va) => mem'[MidOf(va)] = mem[MidOf(va)]
    BY <1>2, <1>4, <1>6, <1>7 DEF TreeInv, Inner
  <2>2. QED
    BY <1>8, <2>1 DEF HasLeaf, LeafOf, Links, Valid, PteFrame
<1>10. /\ Translate(va) = IF HasLeaf(va) THEN mem[LeafOf(va)][GetLvl(0, va)]
                          ELSE Ptr(NULL)
       /\ Translate(va)' = IF HasLeaf(va)' THEN mem'[LeafOf(va)'][GetLvl(0, va)]
                           ELSE Ptr(NULL)
  BY TranslateIs DEF TranslateFollows
<1>11. CASE \A l \in 0..2 : GetLvl(l, va) = GetLvl(l, var)
  <2>1. MidOf(va) = MidOf(var) /\ (HasMid(va) <=> HasMid(var))
    BY <1>11 DEF MidOf, HasMid
  <2>2. HasLeaf(va) /\ LeafOf(va) = tbl
    BY <1>3, <1>11, <2>1 DEF HasLeaf, LeafOf
  <2>3. QED
    BY <1>2, <1>7, <1>9, <1>10, <1>11, <2>2
<1>12. CASE ~(\A l \in 0..2 : GetLvl(l, va) = GetLvl(l, var))
  <2>1. CASE HasLeaf(va) /\ LeafOf(va) = tbl
    <3>1. GetLvl(2, va) = GetLvl(2, var) /\ GetLvl(1, va) = GetLvl(1, var)
      BY <1>3, <1>4, <2>1, OneWay
    <3>2. GetLvl(0, va) # Index
      BY <1>2, <1>12, <3>1
    <3>3. QED
      BY <1>5, <1>7, <1>9, <1>10, <1>12, <2>1, <3>2
  <2>2. CASE HasLeaf(va) /\ LeafOf(va) # tbl
    <3>1. LeafOf(va) \in Frames
      BY <1>4, <1>6, <2>2 DEF TreeInv
    <3>2. QED
      BY <1>7, <1>9, <1>10, <1>12, <2>2, <3>1
  <2>3. CASE ~HasLeaf(va)
    BY <1>9, <1>10, <1>12, <2>3
  <2>4. QED
    BY <2>1, <2>2, <2>3
<1>13. QED
  BY <1>11, <1>12

-----------------------------------------------------------------------------
(* The two ranges.                                                         *)
MEM_STOP == MEM_START + MEM_SIZE
SegStart == IF seg = 1 THEN MEM_START ELSE text_end
SegStop == IF seg = 1 THEN text_end ELSE MEM_STOP

Aligned(a) == a % PAGESZ = 0

(* An aligned address is the address of a page.                            *)
LEMMA AlignedIs ==
  ASSUME NEW a \in Nat
  PROVE  Aligned(a) <=> \E k \in Nat : a = k * PAGESZ
<1>1. PICK q \in Nat, r \in 0..PAGESZ-1 :
        q = a \div PAGESZ /\ r = a % PAGESZ /\ a = PAGESZ * q + r
  BY Quotient, PageAssumption
<1>2. Aligned(a) => a = q * PAGESZ
  BY <1>1, PageAssumption, SMT DEF Aligned
<1>3. ASSUME NEW k \in Nat, a = k * PAGESZ
      PROVE  Aligned(a)
  <2>1. q = k
    BY <1>1, <1>3, PageAssumption, QuotientCancel
  <2>2. PAGESZ * q = k * PAGESZ /\ k * PAGESZ \in Nat
    BY <2>1, PageAssumption, SMT
  <2>3. QED
    BY <1>1, <1>3, <2>2, PageAssumption DEF Aligned
<1>4. QED
  BY <1>2, <1>3

(* Rounding the last byte of a range down gives its last page.             *)
LEMMA RoundDownIs ==
  ASSUME NEW a \in Nat \ {0}
  PROVE  \E k \in Nat : /\ RoundDown(a - 1, PAGESZ) = k * PAGESZ
                        /\ k * PAGESZ < a
                        /\ a <= k * PAGESZ + PAGESZ
<1>1. PICK q \in Nat, r \in 0..PAGESZ-1 :
        q = (a - 1) \div PAGESZ /\ a - 1 = PAGESZ * q + r
  BY Quotient, PageAssumption
<1>2. PAGESZ * q = q * PAGESZ /\ q * PAGESZ \in Nat
  BY PageAssumption, SMT
<1>3. QED
  BY <1>1, <1>2, PageAssumption DEF RoundDown

(* The two ranges of pz_mm_init: in order, aligned, and within what map    *)
(* accepts.                                                                *)
LEMMA LayoutIs ==
  ASSUME MmTypeOK, Linked
  PROVE  /\ MEM_START \in Nat /\ text_end \in Nat /\ MEM_STOP \in Nat
         /\ MEM_START < text_end /\ text_end < MEM_STOP
         /\ MEM_STOP <= MAX_VA /\ MAX_VA \in Nat /\ MAX_VA < WORD
         /\ Aligned(MEM_START) /\ Aligned(text_end) /\ Aligned(MAX_VA)
         /\ MEM_STOP <= (RAM_TOP + 1) * PAGESZ
<1>1. /\ text_end \in TEXT_ENDS /\ mem_end \in MEM_ENDS
      /\ MEM_START \in Nat /\ text_end \in Nat /\ mem_end \in Nat
      /\ MEM_SIZE \in Nat
  BY MmAssumption, LayoutAssumption DEF MmTypeOK, TypeOK
<1>2. PAGESZ * ENTRIES * ENTRIES * ENTRIES \in Nat
  BY PageAssumption, EntriesAssumption, SMT
<1>3. MAX_VA \in Nat
  BY <1>2, SMT DEF MAX_VA
<1>4. MEM_START <= mem_end /\ mem_end + MEM_SIZE <= (RAM_TOP + 1) * PAGESZ
  BY <1>1, LayoutAssumption DEF Linked, LinkedAt
<1>5. (RAM_TOP + 1) * PAGESZ \in Nat
  BY RamAssumption, PageAssumption, SMT
<1>6. QED
  BY <1>1, <1>3, <1>4, <1>5, BoardAssumption
  DEF Aligned, MEM_STOP, Linked, LinkedAt

(* The arguments of kmap's two calls, whose sizes do not wrap.             *)
LEMMA SegmentIs ==
  ASSUME MmTypeOK, Linked
  PROVE  /\ Segment(seg).va = SegStart
         /\ Segment(seg).sz = SegStop - SegStart
         /\ Segment(seg).perm = IF seg = 1 THEN {"R", "X"} ELSE {"R", "W"}
         /\ SegStart \in Nat /\ SegStop \in Nat /\ SegStart < SegStop
         /\ Aligned(SegStart)
         /\ MEM_START <= SegStart /\ SegStop <= MEM_STOP
<1>1. /\ MEM_START \in Nat /\ text_end \in Nat /\ MEM_STOP \in Nat
      /\ MEM_START < text_end /\ text_end < MEM_STOP
      /\ MEM_STOP < WORD /\ WORD \in Nat
      /\ Aligned(MEM_START) /\ Aligned(text_end)
      /\ seg \in {1, 2}
  BY LayoutIs, MmAssumption DEF MmTypeOK
<1>2. /\ (text_end - MEM_START) % WORD = text_end - MEM_START
      /\ (MEM_START + MEM_SIZE - text_end) % WORD = MEM_STOP - text_end
  BY <1>1, LayoutAssumption, SMT DEF MEM_STOP
<1>3. CASE seg = 1
  <2>1. SegStart = MEM_START /\ SegStop = text_end
    BY <1>3 DEF SegStart, SegStop
  <2>2. /\ Segment(seg).va = MEM_START /\ Segment(seg).perm = {"R", "X"}
        /\ Segment(seg).sz = (text_end - MEM_START) % WORD
    BY <1>3 DEF Segment
  <2>3. QED
    BY <1>1, <1>2, <1>3, <2>1, <2>2
<1>4. CASE seg = 2
  <2>1. SegStart = text_end /\ SegStop = MEM_STOP
    BY <1>4 DEF SegStart, SegStop
  <2>2. /\ Segment(seg).va = text_end /\ Segment(seg).perm = {"R", "W"}
        /\ Segment(seg).sz = (MEM_START + MEM_SIZE - text_end) % WORD
    BY <1>4 DEF Segment
  <2>3. QED
    BY <1>1, <1>2, <1>4, <2>1, <2>2
<1>5. QED
  BY <1>1, <1>3, <1>4

-----------------------------------------------------------------------------
(* Where map is in its range: at a page boundary, at the same virtual and  *)
(* physical page, not past the last page.                                  *)
RangeInv ==
  /\ mpc \in {"mm_init", "trap"} => seg = 1
  /\ mpc = "walk" => /\ Aligned(var) /\ Aligned(last) /\ pa = var
                     /\ SegStart <= var /\ var <= last
                     /\ last < SegStop /\ SegStop <= last + PAGESZ

(* The address up to which everything is mapped.                           *)
Reached ==
  IF mpc \in {"walk", "panic"} THEN var
  ELSE IF mpc = "mapped" THEN MEM_STOP
  ELSE SegStart

Below(a) == {v \in VirtualPages : MEM_START <= v * PAGESZ /\ v * PAGESZ < a}

(* Exactly the pages up to there are mapped, and each as it is wanted.     *)
SpaceInv == Space = [v \in Below(Reached) |-> Wanted[v]]

MapInv == PathInv /\ RangeInv /\ SpaceInv

(* Nothing is mapped, and nothing is to be mapped yet.                     *)
LEMMA NothingMapped ==
  ASSUME \A va \in Nat : Translate(va) = Ptr(NULL), MEM_START \in Nat
  PROVE  Space = [v \in Below(MEM_START) |-> Wanted[v]]
<1>1. \A v \in VirtualPages : v * PAGESZ \in Nat
  BY PageAssumption, SMT DEF VirtualPages
<1>2. \A v \in VirtualPages : ~Valid(Translate(v * PAGESZ))
  BY <1>1 DEF Valid, Ptr
<1>3. Below(MEM_START) = {}
  BY <1>1 DEF Below
<1>4. QED
  BY <1>2, <1>3 DEF Space

(* Before pz_mm_init nothing is mapped.                                    *)
LEMMA MapInitInv ==
  ASSUME Init, MmInit, MmIInv
  PROVE  MapInv /\ Goal!Init
<1>1. ptbl \notin Frames
  BY DEF MmInit, Frames, NULL
<1>2. \A va \in Nat : Translate(va) = Ptr(NULL)
  BY <1>1, TranslateIs DEF TranslateFollows, HasLeaf, HasMid
<1>3. Space = [v \in Below(MEM_START) |-> Wanted[v]]
  BY <1>2, NothingMapped, MmAssumption
<1>4. SpaceInv
  BY <1>3 DEF SpaceInv, Reached, SegStart, MmInit
<1>5. Below(MEM_START) = {}
  <2>1. \A v \in VirtualPages : v * PAGESZ \in Nat
    BY PageAssumption, SMT DEF VirtualPages
  <2>2. QED
    BY <2>1, MmAssumption DEF Below
<1>6. Goal!Init
  BY <1>3, <1>5 DEF Goal!Init
<1>7. QED
  BY <1>4, <1>6 DEF MapInv, PathInv, RangeInv, MmInit

-----------------------------------------------------------------------------
(* Every step installs one page, or none.                                  *)

(* A step that changes no translation keeps SpaceInv and AddressSpace's    *)
(* view.                                                                   *)
LEMMA QuietStep ==
  ASSUME \A va \in Nat : Translate(va)' = Translate(va),
         text_end' = text_end, Reached' = Reached
  PROVE  /\ SpaceInv => SpaceInv'
         /\ UNCHANGED Goal!spaceVars
<1>1. \A v \in VirtualPages : v * PAGESZ \in Nat
  BY PageAssumption, SMT DEF VirtualPages
<1>2. Space' = Space
  BY <1>1, SpaceKept
<1>3. Wanted' = Wanted
  BY DEF Wanted
<1>4. Below(Reached)' = Below(Reached)
  BY DEF Below
<1>5. QED
  BY <1>2, <1>3, <1>4 DEF SpaceInv, Goal!spaceVars

(* pz_alloc_init maps nothing,                                             *)
LEMMA BootStepMaps ==
  ASSUME MmIInv, MapInv, BootStep
  PROVE  MapInv' /\ UNCHANGED Goal!spaceVars
<1>1. UNCHANGED mmVars /\ mpc = "mm_init" /\ ptbl = NULL
  BY DEF BootStep, Boot, FreeRangeStep, FreeRangeEnd, MmIInv, StageInv
<1>2. UNCHANGED <<text_end, ptbl, mpc, seg, var, last, pa>>
  BY <1>1 DEF mmVars, mapVars
<1>3. Roots = {} /\ Roots' = {}
  BY <1>1, <1>2 DEF Roots, Frames, NULL
<1>4. \A va \in Nat : Translate(va)' = Translate(va)
  BY <1>3 DEF Translate
<1>5. Reached' = Reached
  BY <1>2 DEF Reached, SegStart
<1>6. SpaceInv' /\ UNCHANGED Goal!spaceVars
  BY <1>2, <1>4, <1>5, QuietStep DEF MapInv
<1>7. PathInv' /\ RangeInv'
  BY <1>1, <1>2 DEF MapInv, PathInv, RangeInv
<1>8. QED
  BY <1>6, <1>7 DEF MapInv

(* an empty root table maps nothing,                                       *)
LEMMA MmRootMaps ==
  ASSUME MmIInv, MapInv, MmRoot, TranslateFollows'
  PROVE  MapInv' /\ UNCHANGED Goal!spaceVars
<1>1. /\ mpc = "mm_init" /\ ptbl = NULL /\ seg = 1
      /\ UNCHANGED <<text_end, seg, var, last, pa>>
      /\ mpc' \in {"trap", "kmap"}
  BY DEF MmRoot, MmIInv, StageInv, MapInv, RangeInv, mapVars
<1>2. \A va \in Nat : ~HasLeaf(va) /\ ~HasLeaf(va)'
  <2> SUFFICES ASSUME NEW va \in Nat
               PROVE  ~HasLeaf(va) /\ ~HasLeaf(va)'
    OBVIOUS
  <2>1. ~HasLeaf(va)
    BY <1>1 DEF HasLeaf, HasMid, Frames, NULL
  <2>2. CASE freelist = NULL
    BY <2>1, <2>2 DEF MmRoot, HasLeaf, HasMid, Frames, NULL
  <2>3. CASE freelist # NULL
    <3>1. MemAfterNew \in [Frames -> Page]
      BY NewMemType DEF MmIInv, MmTypeOK
    <3>2. freelist \in Frames
      BY <2>3 DEF MmIInv, MmTypeOK, TypeOK
    <3>3. mem'[ptbl'] = Filled(Ptr(NULL))
      BY <2>3, <3>1, <3>2 DEF MmRoot
    <3>4. GetLvl(2, va) \in Slots
      BY IndexType
    <3>5. ~Valid(mem'[ptbl'][GetLvl(2, va)])
      BY <3>3, <3>4 DEF Filled, Valid, Ptr
    <3>6. QED
      BY <2>1, <3>5 DEF HasLeaf, HasMid, Links, Valid
  <2>4. QED
    BY <2>1, <2>2, <2>3
<1>3. \A va \in Nat : Translate(va)' = Translate(va)
  BY <1>2, TranslateIs DEF TranslateFollows
<1>4. Reached' = Reached
  BY <1>1 DEF Reached, SegStart
<1>5. SpaceInv' /\ UNCHANGED Goal!spaceVars
  BY <1>1, <1>3, <1>4, QuietStep DEF MapInv
<1>6. PathInv' /\ RangeInv'
  BY <1>1 DEF PathInv, RangeInv
<1>7. QED
  BY <1>5, <1>6 DEF MapInv

(* entering map maps nothing, and its first page is the first of the       *)
(* range,                                                                  *)
LEMMA MapEnterMaps ==
  ASSUME MmIInv, Linked, MapInv, MapEnter
  PROVE  MapInv' /\ UNCHANGED Goal!spaceVars
<1>1. /\ MmTypeOK /\ mpc = "kmap"
      /\ UNCHANGED <<mem, text_end, ptbl, seg>>
  BY DEF MapEnter, MmIInv, vars
<1>2. /\ Segment(seg).va = SegStart
      /\ Segment(seg).sz = SegStop - SegStart
      /\ SegStart \in Nat /\ SegStop \in Nat /\ SegStart < SegStop
      /\ Aligned(SegStart) /\ SegStop <= MEM_STOP
  BY <1>1, SegmentIs
<1>3. /\ mpc' = "walk" /\ lvl' = 2
      /\ var' = RoundUp(SegStart, PAGESZ)
      /\ last' = LastPage(Segment(seg))
      /\ pa' = SegStart
  BY <1>2 DEF MapEnter
<1>4. var' = SegStart
  <2>1. PICK a \in Nat : a = SegStart /\ Aligned(a)
    BY <1>2
  <2>2. PICK k \in Nat : a = k * PAGESZ
    BY <2>1, AlignedIs
  <2>3. PICK n \in Nat : /\ RoundUp(a, PAGESZ) = n * PAGESZ
                         /\ a <= n * PAGESZ
                         /\ \A f \in Nat : a <= f * PAGESZ => n <= f
    BY RoundUpLeast
  <2>4. n <= k
    BY <2>2, <2>3
  <2>5. PAGESZ * n <= PAGESZ * k
    BY <2>4, TimesMonotone, PageAssumption
  <2>6. n * PAGESZ = k * PAGESZ
    BY <2>2, <2>3, <2>5, PageAssumption, SMT
  <2>7. QED
    BY <1>3, <2>1, <2>2, <2>3, <2>6
<1>5. /\ Aligned(last') /\ last' \in Nat
      /\ last' < SegStop /\ SegStop <= last' + PAGESZ
  <2>1. MEM_STOP \in Nat /\ MEM_STOP < WORD /\ WORD \in Nat
    BY <1>1, LayoutIs, MmAssumption
  <2>2. PICK e \in Nat \ {0} : e = SegStop /\ e < WORD
    BY <1>2, <2>1
  <2>3. Segment(seg).va + Segment(seg).sz - 1 = e - 1
    BY <1>2, <2>2
  <2>4. (e - 1) % WORD = e - 1
    BY <2>1, <2>2, SMT
  <2>5. last' = RoundDown(e - 1, PAGESZ)
    BY <1>3, <2>3, <2>4 DEF LastPage
  <2>6. PICK k \in Nat : /\ RoundDown(e - 1, PAGESZ) = k * PAGESZ
                         /\ k * PAGESZ < e
                         /\ e <= k * PAGESZ + PAGESZ
    BY RoundDownIs
  <2>7. k * PAGESZ \in Nat
    BY PageAssumption, SMT
  <2>8. Aligned(last')
    BY <2>5, <2>6, <2>7, AlignedIs
  <2>9. QED
    BY <2>2, <2>5, <2>6, <2>7, <2>8
<1>6. SegStart <= last'
  <2>1. PICK k \in Nat : SegStart = k * PAGESZ
    BY <1>2, AlignedIs
  <2>2. PICK n \in Nat : last' = n * PAGESZ
    BY <1>5, AlignedIs
  <2>3. PAGESZ * k < PAGESZ * (n + 1)
    BY <1>2, <1>5, <2>1, <2>2, PageAssumption, SMT
  <2>4. k <= n
    BY <2>3, TimesLess, PageAssumption
  <2>5. PAGESZ * k <= PAGESZ * n
    BY <2>4, TimesMonotone, PageAssumption
  <2>6. QED
    BY <2>1, <2>2, <2>5, PageAssumption, SMT
<1>7. Reached' = Reached /\ SegStart' = SegStart /\ SegStop' = SegStop
  BY <1>1, <1>3, <1>4 DEF Reached, SegStart, SegStop
<1>8. SpaceInv' /\ UNCHANGED Goal!spaceVars
  BY <1>1, <1>7, TranslateKept, QuietStep DEF MapInv
<1>9. PathInv' /\ RangeInv'
  BY <1>2, <1>3, <1>4, <1>5, <1>6, <1>7 DEF PathInv, RangeInv
<1>10. QED
  BY <1>8, <1>9 DEF MapInv

(* nor does going down a level: walk stays on the path of its address,     *)
LEMMA WalkDownMaps ==
  ASSUME MmIInv, MapInv, WalkDown
  PROVE  MapInv' /\ UNCHANGED Goal!spaceVars
<1>1. /\ mpc = "walk" /\ lvl \in {1, 2} /\ InWalk /\ Valid(mem[tbl][Index])
      /\ tbl' = PteFrame(mem[tbl][Index]) /\ lvl' = lvl - 1
      /\ UNCHANGED <<mem, text_end, ptbl, mpc, seg, var, last, pa>>
  BY DEF WalkDown, InWalk, Entry, vars, mapVars, MmIInv, MmTypeOK
<1>2. /\ Index \in Slots /\ Index = GetLvl(lvl, var) /\ ptbl \in Frames
      /\ lvl = 2 => tbl = ptbl
  BY <1>1, WalkAt DEF Index, MmIInv, CursorInv
<1>3. PathInv'
  <2>1. CASE lvl = 2
    <3>1. HasMid(var) /\ tbl' = MidOf(var)
      BY <1>1, <1>2, <2>1 DEF HasMid, MidOf, Links
    <3>2. HasMid(var)' /\ tbl' = MidOf(var)'
      BY <1>1, <3>1 DEF HasMid, MidOf, Links, Valid, PteFrame
    <3>3. QED
      BY <1>1, <2>1, <3>2 DEF PathInv
  <2>2. CASE lvl = 1
    <3>1. HasMid(var) /\ tbl = MidOf(var)
      BY <1>1, <2>2 DEF MapInv, PathInv
    <3>2. HasLeaf(var) /\ tbl' = LeafOf(var)
      BY <1>1, <1>2, <2>2, <3>1 DEF HasLeaf, LeafOf, Links
    <3>3. HasLeaf(var)' /\ tbl' = LeafOf(var)'
      BY <1>1, <3>2
      DEF HasLeaf, LeafOf, HasMid, MidOf, Links, Valid, PteFrame
    <3>4. QED
      BY <1>1, <2>2, <3>3 DEF PathInv
  <2>3. QED
    BY <1>1, <2>1, <2>2
<1>4. Reached' = Reached /\ RangeInv'
  BY <1>1 DEF Reached, SegStart, SegStop, MapInv, RangeInv
<1>5. SpaceInv' /\ UNCHANGED Goal!spaceVars
  BY <1>1, <1>4, TranslateKept, QuietStep DEF MapInv
<1>6. QED
  BY <1>3, <1>4, <1>5 DEF MapInv

(* or linking an empty table.                                              *)
LEMMA WalkAllocMaps ==
  ASSUME MmIInv, MapInv, WalkAlloc, TranslateFollows'
  PROVE  MapInv' /\ UNCHANGED Goal!spaceVars
<1>1. UNCHANGED <<text_end, mpc, seg, var, last, pa>>
  BY DEF WalkAlloc, mapVars
<1>2. PathInv' /\ \A va \in Nat : Translate(va)' = Translate(va)
  BY WalkAllocPath DEF MapInv
<1>3. Reached' = Reached /\ RangeInv'
  BY <1>1 DEF Reached, SegStart, SegStop, MapInv, RangeInv
<1>4. SpaceInv' /\ UNCHANGED Goal!spaceVars
  BY <1>1, <1>2, <1>3, QuietStep DEF MapInv
<1>5. QED
  BY <1>2, <1>3, <1>4 DEF MapInv

(* A panic in walk or map leaves what is mapped, and nothing else happens. *)
LEMMA PanicMaps ==
  ASSUME MapInv, mpc = "walk", mpc' = "panic",
         UNCHANGED <<mem, ptbl, text_end, mapVars>>
  PROVE  MapInv' /\ UNCHANGED Goal!spaceVars
<1>1. Reached' = Reached
  BY DEF Reached, mapVars
<1>2. SpaceInv' /\ UNCHANGED Goal!spaceVars
  BY <1>1, TranslateKept, QuietStep DEF MapInv
<1>3. QED
  BY <1>2 DEF MapInv, PathInv, RangeInv

(* The page that MapSet is at.                                             *)
LEMMA PageAt ==
  ASSUME MmTypeOK, Linked, RangeInv, InWalk
  PROVE  \E k \in VirtualPages :
           /\ var = k * PAGESZ /\ k \in 0..RAM_TOP
           /\ FrameOf(pa) = k
           /\ \A l \in VirtualPages :
                (\A i \in 0..2 : GetLvl(i, l * PAGESZ) = GetLvl(i, var))
                  <=> l = k
<1>1. /\ Aligned(var) /\ pa = var /\ var \in Nat /\ last \in Nat
      /\ var <= last /\ last < SegStop /\ var < MAX_VA
  BY MmAssumption DEF RangeInv, InWalk, MmTypeOK
<1>2. PICK k \in Nat : var = k * PAGESZ
  BY <1>1, AlignedIs
<1>3. /\ SegStop <= MEM_STOP /\ SegStop \in Nat /\ MEM_STOP \in Nat
      /\ MAX_VA \in Nat /\ Aligned(MAX_VA)
      /\ MEM_STOP <= (RAM_TOP + 1) * PAGESZ
  BY SegmentIs, LayoutIs
<1>4. PICK m \in Nat : MAX_VA = m * PAGESZ
  BY <1>3, AlignedIs
<1>5. VirtualPages = 0..m-1
  BY <1>4, QuotientCancel, PageAssumption DEF VirtualPages
<1>6. k < m
  <2>1. PAGESZ * k < PAGESZ * m
    BY <1>1, <1>2, <1>4, PageAssumption, SMT
  <2>2. QED
    BY <2>1, TimesLess, PageAssumption
<1>7. k < RAM_TOP + 1
  <2>1. var < (RAM_TOP + 1) * PAGESZ
    <3>1. (RAM_TOP + 1) * PAGESZ \in Nat
      BY RamAssumption, PageAssumption, SMT
    <3>2. QED
      BY <1>1, <1>3, <3>1
  <2>2. PAGESZ * k < PAGESZ * (RAM_TOP + 1)
    BY <1>2, <2>1, RamAssumption, PageAssumption, SMT
  <2>3. QED
    BY <2>2, TimesLess, PageAssumption, RamAssumption
<1>8. FrameOf(pa) = k
  BY <1>1, <1>2, PageTimes
<1>9. \A l \in VirtualPages : l \in Nat /\ l < ENTRIES * (ENTRIES * ENTRIES)
  <2> SUFFICES ASSUME NEW l \in Nat, l < m
               PROVE  l < ENTRIES * (ENTRIES * ENTRIES)
    BY <1>5
  <2>1. PAGESZ * l < PAGESZ * m
    BY TimesLess, PageAssumption
  <2>2. l * PAGESZ < MAX_VA
    BY <1>4, <2>1, PageAssumption, SMT
  <2>3. QED
    BY <2>2, PagesNamed
<1>10. k \in VirtualPages
  BY <1>5, <1>6
<1>11. \A l \in VirtualPages :
         (\A i \in 0..2 : GetLvl(i, l * PAGESZ) = GetLvl(i, var)) <=> l = k
  BY <1>2, <1>9, <1>10, IndicesName
<1>12. QED
  BY <1>2, <1>7, <1>8, <1>10, <1>11, RamAssumption

(* map's body installs the page that walk has reached, as it is wanted,    *)
LEMMA MapSetInstalls ==
  ASSUME MmIInv, Linked, MapInv, MapSet, ~Valid(Entry), TranslateFollows'
  PROVE  \E k \in VirtualPages : var = k * PAGESZ /\ Goal!Install(k)
<1>1. MmTypeOK /\ InWalk /\ mpc = "walk" /\ text_end' = text_end /\ seg \in {1, 2}
  BY DEF MmIInv, MapSet, InWalk, MmTypeOK
<1>2. PICK k \in VirtualPages :
        /\ var = k * PAGESZ /\ k \in 0..RAM_TOP
        /\ FrameOf(pa) = k
        /\ \A l \in VirtualPages :
             (\A i \in 0..2 : GetLvl(i, l * PAGESZ) = GetLvl(i, var)) <=> l = k
  BY <1>1, PageAt DEF MapInv
<1>3. /\ var \in Nat /\ last \in Nat /\ SegStart <= var /\ var <= last
      /\ last < SegStop
  BY <1>1, MmAssumption DEF MapInv, RangeInv, MmTypeOK
<1>4. /\ Segment(seg).perm = IF seg = 1 THEN {"R", "X"} ELSE {"R", "W"}
      /\ SegStart \in Nat /\ SegStop \in Nat /\ MEM_STOP \in Nat
      /\ MEM_START <= SegStart /\ SegStop <= MEM_STOP /\ MEM_START \in Nat
      /\ text_end \in Nat
  BY <1>1, SegmentIs, LayoutIs
<1>5. Segment(seg).perm = IF var < text_end THEN {"R", "X"} ELSE {"R", "W"}
  BY <1>1, <1>3, <1>4 DEF SegStart, SegStop
<1>6. /\ k \in DOMAIN Wanted
      /\ Wanted[k] = [frame |-> k, perm |-> Segment(seg).perm]
  <2>1. MEM_START <= k * PAGESZ /\ k * PAGESZ < MEM_START + MEM_SIZE
    BY <1>2, <1>3, <1>4 DEF MEM_STOP
  <2>2. QED
    BY <1>2, <1>5, <2>1 DEF Wanted
<1>7. Space = [v \in Below(var) |-> Wanted[v]]
  BY <1>1 DEF MapInv, SpaceInv, Reached
<1>8. k \notin DOMAIN Space
  BY <1>2, <1>3, <1>7 DEF Below
<1>9. \A v \in VirtualPages :
        Translate(v * PAGESZ)' =
          IF v = k THEN Pte(k, Segment(seg).perm \union {"V"})
          ELSE Translate(v * PAGESZ)
  <2> SUFFICES ASSUME NEW v \in VirtualPages
               PROVE  Translate(v * PAGESZ)' =
                        IF v = k THEN Pte(k, Segment(seg).perm \union {"V"})
                        ELSE Translate(v * PAGESZ)
    OBVIOUS
  <2>1. v * PAGESZ \in Nat
    BY PageAssumption, SMT DEF VirtualPages
  <2>2. PICK va \in Nat : va = v * PAGESZ
    BY <2>1
  <2>3. Translate(va)' =
          IF \A l \in 0..2 : GetLvl(l, va) = GetLvl(l, var)
          THEN Pte(FrameOf(pa), Segment(seg).perm \union {"V"})
          ELSE Translate(va)
    BY MapSetTranslate DEF MapInv
  <2>4. QED
    BY <1>2, <2>2, <2>3
<1>10. Space' = [u \in DOMAIN Space \union {k} |-> Wanted[u]]
  <2>1. \A v \in VirtualPages :
          /\ v = k => /\ Valid(Translate(v * PAGESZ)')
                      /\ PteFrame(Translate(v * PAGESZ)') = k
                      /\ Translate(v * PAGESZ)'.flags \ {"V"} = Segment(seg).perm
          /\ v # k => Translate(v * PAGESZ)' = Translate(v * PAGESZ)
    BY <1>4, <1>9 DEF Valid, Pte, PteFrame
  <2>2. DOMAIN Space' = DOMAIN Space \union {k}
    BY <2>1 DEF Space
  <2>3. ASSUME NEW u \in DOMAIN Space \union {k}
        PROVE  Space'[u] = Wanted[u]
    <3>1. CASE u = k
      BY <1>6, <2>1, <2>2, <3>1 DEF Space
    <3>2. CASE u # k
      <4>1. Space[u] = Wanted[u]
        BY <1>7, <3>2
      <4>2. Space'[u] = Space[u]
        BY <2>1, <2>2, <3>2 DEF Space
      <4>3. QED
        BY <4>1, <4>2
    <3>3. QED
      BY <3>1, <3>2
  <2>4. Space' = [u \in DOMAIN Space' |-> Space'[u]]
    BY DEF Space
  <2>5. QED
    BY <2>2, <2>3, <2>4
<1>11. Wanted' = Wanted
  BY <1>1 DEF Wanted
<1>12. QED
  BY <1>2, <1>6, <1>8, <1>10, <1>11 DEF Goal!Install

(* map never meets an entry that is there already.                         *)
LEMMA EntryIsFree ==
  ASSUME MmIInv, Linked, MapInv, InWalk, lvl = 0
  PROVE  ~Valid(Entry)
<1>1. MmTypeOK /\ mpc = "walk" /\ var \in Nat
  BY MmAssumption DEF MmIInv, InWalk, MmTypeOK
<1>2. PICK k \in VirtualPages : var = k * PAGESZ
  BY <1>1, PageAt DEF MapInv
<1>3. Translate(var) = Entry
  <2>1. HasLeaf(var) /\ tbl = LeafOf(var)
    BY <1>1 DEF MapInv, PathInv
  <2>2. QED
    BY <1>1, <2>1, TranslateIs DEF TranslateFollows, Entry, Index
<1>4. k \notin DOMAIN Space
  BY <1>1, <1>2 DEF MapInv, SpaceInv, Reached, Below
<1>5. QED
  BY <1>2, <1>3, <1>4 DEF Space

(* and everything below the next page is mapped then.                      *)
LEMMA MapSetMaps ==
  ASSUME MmIInv, Linked, MapInv, MapSet, TranslateFollows'
  PROVE  MapInv' /\ Goal!Next
<1>1. /\ MmTypeOK /\ InWalk /\ mpc = "walk" /\ lvl = 0 /\ ~Valid(Entry)
      /\ text_end' = text_end /\ last' = last /\ seg \in {1, 2}
  BY EntryIsFree DEF MapSet, InWalk, MmIInv, MmTypeOK
<1>2. PICK k \in VirtualPages : var = k * PAGESZ /\ Goal!Install(k)
  BY <1>1, MapSetInstalls
<1>3. k \in Nat /\ VirtualPages \subseteq Nat
  BY DEF VirtualPages
<1>4. /\ Aligned(var) /\ Aligned(last) /\ pa = var /\ SegStart <= var
      /\ var <= last /\ last < SegStop /\ SegStop <= last + PAGESZ
      /\ var \in Nat /\ last \in Nat
  BY <1>1, MmAssumption DEF MapInv, RangeInv, MmTypeOK
<1>5. /\ SegStart \in Nat /\ SegStop \in Nat /\ MEM_START <= SegStart
      /\ SegStop <= MEM_STOP /\ MEM_STOP \in Nat /\ MEM_STOP < WORD
      /\ MEM_START \in Nat /\ WORD \in Nat
  BY <1>1, SegmentIs, LayoutIs, MmAssumption
<1>6. Space' = [u \in Below(var) \union {k} |-> Wanted'[u]]
  <2>1. Space = [v \in Below(var) |-> Wanted[v]]
    BY <1>1 DEF MapInv, SpaceInv, Reached
  <2>2. QED
    BY <1>2, <2>1 DEF Goal!Install
<1>7. ASSUME NEW a \in Nat, var < a, a <= var + PAGESZ
      PROVE  Below(var) \union {k} = Below(a)
  <2>1. MEM_START <= k * PAGESZ
    BY <1>2, <1>4, <1>5
  <2>2. ASSUME NEW u \in VirtualPages
        PROVE  u * PAGESZ < a <=> u * PAGESZ < var \/ u = k
    <3>1. u \in Nat /\ u * PAGESZ \in Nat /\ u * PAGESZ = PAGESZ * u
          /\ k * PAGESZ = PAGESZ * k /\ PAGESZ * (k + 1) = k * PAGESZ + PAGESZ
      BY <1>3, PageAssumption, SMT
    <3>2. PAGESZ * u < PAGESZ * (k + 1) <=> u < k + 1
      BY <1>3, <3>1, PageAssumption, TimesLess
    <3>3. PAGESZ * u < PAGESZ * k <=> u < k
      BY <1>3, <3>1, PageAssumption, TimesLess
    <3>4. CASE u < k
      BY <1>2, <1>4, <1>7, <3>1, <3>3, <3>4
    <3>5. CASE u = k
      BY <1>2, <1>7, <3>5
    <3>6. CASE u > k
      BY <1>2, <1>3, <1>4, <1>7, <3>1, <3>2, <3>6, PageAssumption
    <3>7. QED
      BY <1>3, <3>1, <3>4, <3>5, <3>6
  <2>3. QED
    BY <2>1, <2>2 DEF Below
<1>8. CASE var = last
  <2>1. /\ mpc' = IF seg = 1 THEN "kmap" ELSE "mapped"
        /\ seg' = 2
    BY <1>1, <1>8 DEF MapSet
  <2>2. Reached' = SegStop
    BY <1>1, <2>1 DEF Reached, SegStart, SegStop
  <2>3. Below(var) \union {k} = Below(SegStop)
    BY <1>4, <1>5, <1>7, <1>8
  <2>4. SpaceInv'
    <3>1. Below(Reached)' = Below(SegStop)
      BY <2>2 DEF Below
    <3>2. QED
      BY <1>6, <2>3, <3>1 DEF SpaceInv
  <2>5. PathInv' /\ RangeInv'
    BY <2>1 DEF PathInv, RangeInv
  <2>6. QED
    BY <1>2, <2>4, <2>5 DEF MapInv, Goal!Next, Goal!Install
<1>9. CASE var # last
  <2>1. /\ var' = (var + PAGESZ) % WORD /\ pa' = (pa + PAGESZ) % WORD
        /\ mpc' = mpc /\ seg' = seg /\ lvl' = 2
    BY <1>1, <1>9 DEF MapSet
  <2>2. var + PAGESZ <= last
    <3>1. PICK m \in Nat : last = m * PAGESZ
      BY <1>4, AlignedIs
    <3>2. k * PAGESZ = PAGESZ * k /\ m * PAGESZ = PAGESZ * m
          /\ PAGESZ * (k + 1) = k * PAGESZ + PAGESZ
      BY <1>3, PageAssumption, SMT
    <3>3. k < m
      BY <1>2, <1>3, <1>4, <1>9, <3>1, <3>2, TimesLess, PageAssumption
    <3>4. PAGESZ * (k + 1) <= PAGESZ * m
      BY <1>3, <3>3, TimesMonotone, PageAssumption
    <3>5. QED
      BY <1>2, <3>1, <3>2, <3>4
  <2>3. var' = var + PAGESZ /\ pa' = var + PAGESZ /\ var' \in Nat
    BY <1>4, <1>5, <2>1, <2>2, PageAssumption, SMT
  <2>4. Aligned(var')
    <3>1. (k + 1) * PAGESZ = k * PAGESZ + PAGESZ
      BY <1>3, PageAssumption, SMT
    <3>2. QED
      BY <1>2, <1>3, <2>3, <3>1, AlignedIs
  <2>5. SegStart' = SegStart /\ SegStop' = SegStop
    BY <1>1, <2>1 DEF SegStart, SegStop
  <2>6. PathInv' /\ RangeInv'
    BY <1>1, <1>4, <1>5, <2>1, <2>2, <2>3, <2>4, <2>5, PageAssumption
    DEF PathInv, RangeInv, Aligned
  <2>7. Reached' = var + PAGESZ
    BY <1>1, <2>1, <2>3 DEF Reached
  <2>8. Below(var) \union {k} = Below(var + PAGESZ)
    BY <1>4, <1>7, <2>3, PageAssumption
  <2>9. SpaceInv'
    <3>1. Below(Reached)' = Below(var + PAGESZ)
      BY <2>7 DEF Below
    <3>2. QED
      BY <1>6, <2>8, <3>1 DEF SpaceInv
  <2>10. QED
    BY <1>2, <2>6, <2>9 DEF MapInv, Goal!Next, Goal!Install
<1>10. QED
  BY <1>8, <1>9

(* Every step keeps MapInv, and is a step of AddressSpace or none.         *)
LEMMA MmNextMaps ==
  ASSUME MmIInv, Linked, MapInv, [MmNext]_allVars, TranslateFollows'
  PROVE  MapInv' /\ [Goal!Next]_(Goal!spaceVars)
<1>1. CASE UNCHANGED allVars
  <2>1. UNCHANGED <<mem, ptbl, text_end, mpc, seg, var, last, pa, lvl, tbl>>
    BY <1>1 DEF allVars, vars, mmVars, mapVars, walkVars
  <2>2. \A va \in Nat : /\ Translate(va)' = Translate(va)
                        /\ HasMid(va)' = HasMid(va) /\ MidOf(va)' = MidOf(va)
                        /\ HasLeaf(va)' = HasLeaf(va) /\ LeafOf(va)' = LeafOf(va)
    BY <2>1, TranslateKept
  <2>3. Reached' = Reached /\ RangeInv'
    BY <2>1 DEF Reached, SegStart, SegStop, MapInv, RangeInv
  <2>4. SpaceInv' /\ UNCHANGED Goal!spaceVars
    BY <2>1, <2>2, <2>3, QuietStep DEF MapInv
  <2>5. PathInv'
    <3>1. var \in Nat
      BY MmAssumption DEF MmIInv, MmTypeOK
    <3>2. QED
      BY <2>1, <2>2, <3>1 DEF MapInv, PathInv, HasLeaf, LeafOf, HasMid, MidOf,
                              Links, Valid, PteFrame
  <2>6. QED
    BY <2>3, <2>4, <2>5 DEF MapInv
<1>2. ASSUME WalkTooLarge \/ WalkNoPage
      PROVE  MapInv' /\ UNCHANGED Goal!spaceVars
  BY <1>2, PanicMaps
  DEF WalkTooLarge, WalkNoPage, InWalk, FailedMap, vars
<1>3. QED
  BY <1>1, <1>2, BootStepMaps, MmRootMaps, MapEnterMaps, WalkDownMaps,
     WalkAllocMaps, MapSetMaps
  DEF MmNext, MmStep

(* The image stays where it is.                                            *)
LEMMA LinkedKept ==
  ASSUME Linked, [MmNext]_allVars
  PROVE  Linked'
<1>1. UNCHANGED <<text_end, mem_end>>
  BY DEF MmNext, BootStep, Boot, FreeRangeStep, FreeRangeEnd, MmStep, MmRoot,
         MapEnter, WalkTooLarge, WalkDown, WalkAlloc, WalkNoPage, MapSet,
         allVars, vars, mmVars
<1>2. QED
  BY <1>1 DEF Linked, LinkedAt

(* MapInvariance: what is mapped is, at every moment, exactly the wanted   *)
(* pages below the address that map has reached.                           *)
THEOREM MapInvariance == MmSpec /\ Linked => [](MmIInv /\ Linked /\ MapInv)
<1>1. Init /\ MmInit => MmIInv /\ MapInv
  BY MmInitIInv, MapInitInv
<1>2. MmIInv /\ Linked /\ MapInv /\ [MmNext]_allVars /\ TranslateFollows'
        => MmIInv' /\ Linked' /\ MapInv'
  BY MmNextIInv, MmNextMaps, LinkedKept
<1>3. TranslateFollows
  BY TranslateIs
<1>4. QED
  BY <1>1, <1>2, <1>3, PTL DEF MmSpec

(* MappingTheorem: for an image that is where it is linked for, pz_mm_init *)
(* maps page after page of the image and of the memory after it onto       *)
(* itself, with its final permissions, and nothing else.                   *)
THEOREM MappingTheorem == MmSpec /\ Linked => BuildsAddressSpace
<1>1. Init /\ MmInit => Goal!Init
  BY MmInitIInv, MapInitInv
<1>2. MmIInv /\ Linked /\ MapInv /\ [MmNext]_allVars /\ TranslateFollows'
        => [Goal!Next]_(Goal!spaceVars)
  BY MmNextMaps
<1>3. TranslateFollows
  BY TranslateIs
<1>4. QED
  BY <1>1, <1>2, <1>3, MapInvariance, PTL
  DEF MmSpec, BuildsAddressSpace, Goal!Safety

-----------------------------------------------------------------------------
(***************************************************************************)
(* pz_mm_init always finds a page for a table it is missing: there are no  *)
(* more tables to make than the window has pages, and none is made twice.  *)
(***************************************************************************)

(* A table is linked only where a page to map needs it.                    *)
NeededInv ==
  ptbl \in Frames =>
    \A i \in Slots :
      Links(ptbl, i) =>
        /\ i \in RootEntries
        /\ \A j \in Slots : Links(PteFrame(mem[ptbl][i]), j) => <<i, j>> \in MidEntries

RoomInv == NeededInv /\ NeverPanics

(* A step that leaves the inner tables alone keeps NeededInv.              *)
LEMMA NeededKept ==
  ASSUME MmIInv, NeededInv, ptbl' = ptbl,
         \A t \in Inner : mem'[t] = mem[t]
  PROVE  NeededInv'
<1> SUFFICES ASSUME ptbl \in Frames
             PROVE  NeededInv'
  BY DEF NeededInv
<1>1. ptbl \in Roots /\ mem'[ptbl] = mem[ptbl]
  BY DEF Roots, Inner
<1>2. ASSUME NEW i \in Slots, Links(ptbl, i)'
      PROVE  /\ i \in RootEntries
             /\ \A j \in Slots : Links(PteFrame(mem[ptbl][i]), j)' => <<i, j>> \in MidEntries
  <2>1. Links(ptbl, i) /\ PteFrame(mem[ptbl][i])' = PteFrame(mem[ptbl][i])
    BY <1>1, <1>2 DEF Links, Valid, PteFrame
  <2>2. PteFrame(mem[ptbl][i]) \in Inner
    BY <1>1, <2>1, MidsAre DEF Inner
  <2>3. \A j \in Slots : Links(PteFrame(mem[ptbl][i]), j)'
                           <=> Links(PteFrame(mem[ptbl][i]), j)
    BY <2>1, <2>2 DEF Links, Valid
  <2>4. QED
    BY <2>1, <2>3 DEF NeededInv
<1>3. QED
  BY <1>2 DEF NeededInv

(* The page that walk is called for is one to map.                         *)
LEMMA WalkIsNeeded ==
  ASSUME MmIInv, Linked, MapInv, InWalk
  PROVE  /\ GetLvl(2, var) \in RootEntries
         /\ <<GetLvl(2, var), GetLvl(1, var)>> \in MidEntries
<1>1. MmTypeOK /\ RangeInv
  BY DEF MmIInv, MapInv
<1>2. PICK k \in 0..RAM_TOP : var = k * PAGESZ
  BY <1>1, PageAt
<1>3. MEM_START <= var /\ var < MEM_START + MEM_SIZE
  <2>1. /\ SegStart <= var /\ var <= last /\ last < SegStop
        /\ var \in Nat /\ last \in Nat
    BY <1>1, MmAssumption DEF RangeInv, InWalk, MmTypeOK
  <2>2. /\ MEM_START <= SegStart /\ SegStop <= MEM_STOP
        /\ SegStart \in Nat /\ SegStop \in Nat /\ MEM_STOP \in Nat
        /\ MEM_START \in Nat
    BY <1>1, SegmentIs, LayoutIs
  <2>3. MEM_START <= var /\ var < MEM_STOP
    BY <2>1, <2>2
  <2>4. QED
    BY <2>3 DEF MEM_STOP
<1>4. k \in PagesToMap
  BY <1>2, <1>3 DEF PagesToMap
<1>5. QED
  BY <1>2, <1>4 DEF RootEntries, MidEntries

(* walk links a table only on the path of a page to map.                   *)
LEMMA WalkAllocNeeded ==
  ASSUME MmIInv, Linked, MapInv, NeededInv, WalkAlloc
  PROVE  NeededInv'
<1> DEFINE f == freelist
<1>1. /\ InWalk /\ lvl \in {1, 2} /\ ptbl' = ptbl
  BY DEF WalkAlloc, MmIInv, MmTypeOK
<1>2. /\ TreeInv /\ f \in Frames \ held /\ held \subseteq Frames
      /\ mem'[tbl] = [mem[tbl] EXCEPT ![Index] = Pte(f, {"V"})]
      /\ mem'[f] = Filled(Ptr(NULL))
      /\ \A g \in Frames \ {tbl, f} : mem'[g] = mem[g]
  BY WalkAllocTree DEF MmIInv, MmTypeOK, TypeOK
<1>3. /\ Index \in Slots /\ Index = GetLvl(lvl, var)
      /\ tbl \in Frames /\ ptbl \in Frames /\ tbl \in held
      /\ mem[tbl] \in Page
      /\ lvl = 2 => tbl = ptbl
      /\ lvl = 1 => tbl \in Mids /\ HasMid(var) /\ tbl = MidOf(var)
  BY <1>1, WalkAt DEF Index, MmIInv, CursorInv, InWalk, MapInv, PathInv
<1>4. /\ \A i \in Slots : ~Valid(mem'[f][i])
      /\ \A i \in Slots \ {Index} : mem'[tbl][i] = mem[tbl][i]
      /\ PteFrame(mem'[tbl][Index]) = f
  BY <1>2, <1>3 DEF Filled, Valid, Ptr, Page, PteFrame, Pte
<1>5. /\ GetLvl(2, var) \in RootEntries
      /\ <<GetLvl(2, var), GetLvl(1, var)>> \in MidEntries
  BY <1>1, WalkIsNeeded
<1>6. \A g \in Inner \ {tbl} : mem'[g] = mem[g]
  BY <1>2 DEF TreeInv
<1>7. ptbl \in Roots
  BY <1>3 DEF Roots
<1>8. ASSUME NEW i \in Slots, Valid(mem'[ptbl][i])
      PROVE  /\ i \in RootEntries
             /\ \A j \in Slots : Valid(mem'[PteFrame(mem'[ptbl][i])][j])
                                   => <<i, j>> \in MidEntries
  <2>1. CASE lvl = 2 /\ i = Index
    BY <1>3, <1>4, <1>5, <2>1
  <2>2. CASE ~(lvl = 2 /\ i = Index)
    <3>1. mem'[ptbl][i] = mem[ptbl][i]
      <4>1. CASE lvl = 2
        BY <1>3, <1>4, <2>2, <4>1
      <4>2. CASE lvl = 1
        BY <1>2, <1>3, <1>6, <1>7, <4>2 DEF TreeInv, Inner
      <4>3. QED
        BY <1>1, <4>1, <4>2
    <3>2. Links(ptbl, i)
      BY <1>8, <3>1 DEF Links
    <3>3. PICK m \in Mids : m = PteFrame(mem[ptbl][i])
      BY <1>7, <3>2, MidsAre
    <3>4. ASSUME NEW j \in Slots, Valid(mem'[m][j])
          PROVE  <<i, j>> \in MidEntries
      <4>1. CASE mem'[m][j] = mem[m][j]
        BY <1>3, <3>2, <3>3, <3>4, <4>1 DEF NeededInv, Links
      <4>2. CASE mem'[m][j] # mem[m][j]
        <5>1. m = tbl /\ j = Index
          BY <1>4, <1>6, <4>2 DEF Inner
        <5>2. lvl = 1
          BY <1>1, <1>2, <1>3, <1>7, <5>1 DEF TreeInv, Inner
        <5>3. i = GetLvl(2, var)
          <6>1. Links(ptbl, GetLvl(2, var))
                /\ PteFrame(mem[ptbl][i]) = PteFrame(mem[ptbl][GetLvl(2, var)])
            BY <1>3, <3>3, <5>1, <5>2 DEF HasMid, MidOf
          <6>2. GetLvl(2, var) \in Slots /\ ptbl \in Inner
            BY <1>7, <6>1 DEF Links, Inner
          <6>3. QED
            BY <1>2, <3>2, <6>1, <6>2 DEF TreeInv
        <5>4. QED
          BY <1>3, <1>5, <5>1, <5>2, <5>3
      <4>3. QED
        BY <4>1, <4>2
    <3>5. QED
      BY <1>3, <3>1, <3>2, <3>3, <3>4 DEF NeededInv
  <2>3. QED
    BY <2>1, <2>2
<1>9. QED
  BY <1>1, <1>8 DEF NeededInv, Links, Valid, PteFrame

-----------------------------------------------------------------------------
(* There is a page for every table.                                        *)

(* There are finitely many entries to make.                                *)
LEMMA EntriesFinite ==
  /\ IsFiniteSet(RootEntries) /\ IsFiniteSet(MidEntries)
  /\ Cardinality(RootEntries) \in Nat /\ Cardinality(MidEntries) \in Nat
<1>1. IsFiniteSet(Slots) /\ IsFiniteSet(Slots \X Slots)
  <2>1. IsFiniteSet(Slots)
    BY EntriesAssumption, FS_Interval DEF Slots
  <2>2. QED
    BY <2>1, FS_Product
<1>2. \A v \in PagesToMap : v * PAGESZ \in Nat
  BY PageAssumption, SMT DEF PagesToMap
<1>3. RootEntries \subseteq Slots /\ MidEntries \subseteq Slots \X Slots
  BY <1>2, IndexType DEF RootEntries, MidEntries
<1>4. QED
  BY <1>1, <1>3, FS_Subset, FS_CardinalityType

(* A set of entries leads to at most as many tables.                       *)
LEMMA NoMoreTables ==
  ASSUME NEW S, IsFiniteSet(S), NEW T, NEW g \in [S -> T],
         \A y \in T : \E x \in S : g[x] = y
  PROVE  /\ IsFiniteSet(T)
         /\ Cardinality(T) \in Nat
         /\ Cardinality(T) <= Cardinality(S)
<1>1. g \in Surjection(S, T)
  BY DEF Surjection
<1>2. QED
  BY <1>1, FS_Surjection, FS_CardinalityType

(* Two finite sets have together no more members than one by one.          *)
LEMMA BothSmall ==
  ASSUME NEW S, NEW T, IsFiniteSet(S), IsFiniteSet(T)
  PROVE  /\ IsFiniteSet(S \union T)
         /\ Cardinality(S \union T) \in Nat
         /\ Cardinality(S \union T) <= Cardinality(S) + Cardinality(T)
<1>1. /\ IsFiniteSet(S \union T) /\ IsFiniteSet(S \intersect T)
      /\ Cardinality(S \union T) =
           Cardinality(S) + Cardinality(T) - Cardinality(S \intersect T)
  BY FS_Union, FS_Intersection
<1>2. /\ Cardinality(S) \in Nat /\ Cardinality(T) \in Nat
      /\ Cardinality(S \union T) \in Nat
      /\ Cardinality(S \intersect T) \in Nat
  BY <1>1, FS_CardinalityType
<1>3. QED
  BY <1>1, <1>2

(* While an entry that is needed is missing, a page is free.               *)
LEMMA RoomForTable ==
  ASSUME MmIInv, Linked, MapInv, NeededInv, InWalk, lvl > 0, ~Valid(Entry)
  PROVE  freelist # NULL
<1> SUFFICES ASSUME freelist = NULL
             PROVE  FALSE
  OBVIOUS
<1>1. /\ lvl \in {1, 2} /\ TreeInv /\ held \subseteq Frames
      /\ phase = "ready" /\ mem_end \in MEM_ENDS
  BY DEF MmIInv, MmTypeOK, TypeOK, StageInv, InWalk
<1>2. /\ Index \in Slots /\ Index = GetLvl(lvl, var) /\ ptbl \in Frames
      /\ lvl = 2 => tbl = ptbl
      /\ lvl = 1 => tbl \in Mids /\ HasMid(var) /\ tbl = MidOf(var)
  BY <1>1, WalkAt DEF Index, MmIInv, CursorInv, InWalk, MapInv, PathInv
<1>3. /\ GetLvl(2, var) \in RootEntries
      /\ <<GetLvl(2, var), GetLvl(1, var)>> \in MidEntries
  BY WalkIsNeeded
<1>4. Roots = {ptbl}
  BY <1>2 DEF Roots
<1>5. Pool \subseteq held
  <2>1. Free = {}
    <3>1. PICK s \in Seq(Frames) : IsFreeList(s)
      BY DEF MmIInv, IInv, ListInv
    <3>2. CASE Len(s) # 0
      <4>1. s[1] \in Frames
        BY <3>2
      <4>2. QED
        BY <3>1, <3>2, <4>1 DEF IsFreeList, Frames, NULL
    <3>3. CASE Len(s) = 0
      BY <3>1, <3>3 DEF IsFreeList
    <3>4. QED
      BY <3>2, <3>3
  <2>2. Donated = Pool
    BY <1>1, AllDonated DEF MmIInv
  <2>3. QED
    BY <2>1, <2>2 DEF Free
<1> DEFINE RootUsed == {i \in RootEntries : Links(ptbl, i)}
           MidUsed == {e \in MidEntries : /\ Links(ptbl, e[1])
                                          /\ Links(PteFrame(mem[ptbl][e[1]]), e[2])}
<1>6. /\ IsFiniteSet(RootUsed) /\ IsFiniteSet(MidUsed)
      /\ Cardinality(RootUsed) \in Nat /\ Cardinality(MidUsed) \in Nat
      /\ Cardinality(RootUsed) <= Cardinality(RootEntries)
      /\ Cardinality(MidUsed) <= Cardinality(MidEntries)
  BY EntriesFinite, FS_Subset, FS_CardinalityType
<1>7. Cardinality(RootUsed) + Cardinality(MidUsed)
        < Cardinality(RootEntries) + Cardinality(MidEntries)
  <2>1. CASE lvl = 2
    <3>1. RootUsed # RootEntries
      BY <1>2, <1>3, <2>1 DEF Links, Entry
    <3>2. Cardinality(RootUsed) # Cardinality(RootEntries)
      BY <3>1, EntriesFinite, FS_Subset
    <3>3. QED
      BY <1>6, <3>2, EntriesFinite
  <2>2. CASE lvl = 1
    <3>1. <<GetLvl(2, var), GetLvl(1, var)>> \notin MidUsed
      BY <1>2, <2>2 DEF Links, Entry, MidOf
    <3>2. Cardinality(MidUsed) # Cardinality(MidEntries)
      BY <1>3, <3>1, EntriesFinite, FS_Subset
    <3>3. QED
      BY <1>6, <3>2, EntriesFinite
  <2>3. QED
    BY <1>1, <2>1, <2>2
<1>8. /\ IsFiniteSet(Mids) /\ Cardinality(Mids) \in Nat
      /\ Cardinality(Mids) <= Cardinality(RootUsed)
  <2> DEFINE g == [i \in RootUsed |-> PteFrame(mem[ptbl][i])]
  <2>1. \A m \in Mids : \E i \in RootUsed : g[i] = m
    BY <1>2, <1>4, MidsAre DEF NeededInv
  <2>2. g \in [RootUsed -> Mids]
    BY <1>4, MidsAre DEF Links
  <2> HIDE DEF g, RootUsed
  <2>3. QED
    BY <1>6, <2>1, <2>2, NoMoreTables
<1>9. /\ IsFiniteSet(Leaves) /\ Cardinality(Leaves) \in Nat
      /\ Cardinality(Leaves) <= Cardinality(MidUsed)
  <2> DEFINE g == [e \in MidUsed |-> PteFrame(mem[PteFrame(mem[ptbl][e[1]])][e[2]])]
  <2>1. ASSUME NEW y \in Leaves
        PROVE  \E e \in MidUsed : g[e] = y
    <3>1. PICK m \in Mids, j \in Slots : Links(m, j) /\ y = PteFrame(mem[m][j])
      BY LeavesAre
    <3>2. PICK i \in Slots : Links(ptbl, i) /\ m = PteFrame(mem[ptbl][i])
      BY <1>4, MidsAre
    <3>3. <<i, j>> \in MidUsed
      BY <1>2, <3>1, <3>2 DEF NeededInv
    <3>4. QED
      BY <3>1, <3>2, <3>3
  <2>2. g \in [MidUsed -> Leaves]
    <3> SUFFICES ASSUME NEW e \in MidUsed
                 PROVE  PteFrame(mem[PteFrame(mem[ptbl][e[1]])][e[2]]) \in Leaves
      OBVIOUS
    <3>1. PICK m \in Mids : m = PteFrame(mem[ptbl][e[1]])
      BY <1>4, MidsAre DEF Links
    <3>2. QED
      BY <3>1, LeavesAre DEF Links
  <2> HIDE DEF g, MidUsed
  <2>3. QED
    BY <1>6, <2>1, <2>2, NoMoreTables
<1> HIDE DEF RootUsed, MidUsed
<1>10. /\ IsFiniteSet(held) /\ Cardinality(held) \in Nat
       /\ Cardinality(held) <= 1 + Cardinality(Mids) + Cardinality(Leaves)
  <2>1. IsFiniteSet({ptbl}) /\ Cardinality({ptbl}) = 1
    BY FS_Singleton
  <2>2. /\ IsFiniteSet({ptbl} \union Mids)
        /\ Cardinality({ptbl} \union Mids) \in Nat
        /\ Cardinality({ptbl} \union Mids) <= 1 + Cardinality(Mids)
    BY <1>8, <2>1, BothSmall
  <2>3. /\ IsFiniteSet(({ptbl} \union Mids) \union Leaves)
        /\ Cardinality(({ptbl} \union Mids) \union Leaves) \in Nat
        /\ Cardinality(({ptbl} \union Mids) \union Leaves)
             <= Cardinality({ptbl} \union Mids) + Cardinality(Leaves)
    BY <1>9, <2>2, BothSmall
  <2>4. held = ({ptbl} \union Mids) \union Leaves
    BY <1>1, <1>4 DEF TreeInv, Inner
  <2>5. QED
    BY <1>8, <1>9, <2>2, <2>3, <2>4
<1>11. /\ Cardinality(Pool) \in Nat
       /\ Cardinality(Pool) <= Cardinality(held)
  BY <1>5, <1>10, FS_Subset, FS_CardinalityType
<1>12. 1 + Cardinality(RootEntries) + Cardinality(MidEntries) <= Cardinality(Pool)
  BY <1>1, RoomAssumption DEF Pool
<1>13. QED
  BY <1>6, <1>7, <1>8, <1>9, <1>10, <1>11, <1>12, EntriesFinite

(* And there is one for the root.                                          *)
LEMMA RoomForRoot ==
  ASSUME MmIInv, MmRoot
  PROVE  freelist # NULL
<1>1. held = {} /\ IInv /\ phase = "ready" /\ mem_end \in MEM_ENDS
  BY DEF MmIInv, StageInv, MmRoot, MmTypeOK, TypeOK
<1>2. Free = Pool
  BY <1>1, AllDonated DEF Free
<1>3. Pool # {}
  <2>1. 1 <= Cardinality(Pool)
    <3>1. 1 + Cardinality(RootEntries) + Cardinality(MidEntries) <= Cardinality(Pool)
      BY <1>1, RoomAssumption DEF Pool
    <3>2. IsFiniteSet(Pool) /\ Cardinality(Pool) \in Nat
      <4>1. IsFiniteSet(Frames)
        BY RamAssumption, FS_Interval DEF Frames
      <4>2. Pool \subseteq Frames
        BY DEF Pool
      <4>3. QED
        BY <4>1, <4>2, FS_Subset, FS_CardinalityType
    <3>3. QED
      BY <3>1, <3>2, EntriesFinite
  <2>2. Cardinality({}) = 0
    BY FS_EmptySet
  <2>3. QED
    BY <2>1, <2>2
<1>4. PICK s \in Seq(Frames) : IsFreeList(s)
  BY <1>1 DEF IInv, ListInv
<1>5. Len(s) # 0
  BY <1>2, <1>3, <1>4 DEF IsFreeList
<1>6. s[1] \in Frames
  BY <1>5
<1>7. QED
  BY <1>4, <1>5, <1>6 DEF IsFreeList, Frames, NULL

(* The empty root needs no table.                                          *)
LEMMA MmRootNeeded ==
  ASSUME MmIInv, MmRoot
  PROVE  NeededInv' /\ mpc' = "kmap"
<1>1. freelist # NULL
  BY RoomForRoot
<1>2. /\ MemAfterNew \in [Frames -> Page] /\ freelist \in Frames
  BY <1>1, NewMemType DEF MmIInv, MmTypeOK, TypeOK
<1>3. mem'[ptbl'] = Filled(Ptr(NULL)) /\ mpc' = "kmap"
  BY <1>1, <1>2 DEF MmRoot
<1>4. \A i \in Slots : ~Links(ptbl, i)'
  BY <1>3 DEF Links, Valid, Filled, Ptr
<1>5. QED
  BY <1>3, <1>4 DEF NeededInv

(* Every step keeps RoomInv: there is a page whenever a table is missing,  *)
(* and no entry is met twice.                                              *)
LEMMA MmNextRoom ==
  ASSUME MmIInv, Linked, MapInv, RoomInv, [MmNext]_allVars
  PROVE  RoomInv'
<1> USE DEF RoomInv
<1>1. CASE BootStep
  <2>1. ptbl = NULL /\ UNCHANGED <<ptbl, mpc>>
    BY <1>1 DEF BootStep, Boot, FreeRangeStep, FreeRangeEnd, mmVars, MmIInv, StageInv
  <2>2. QED
    BY <2>1 DEF NeededInv, NeverPanics, Frames, NULL
<1>2. CASE MmRoot
  BY <1>2, MmRootNeeded DEF NeverPanics
<1>3. CASE MapEnter
  <2>1. Segment(seg).sz # 0
    BY SegmentIs DEF MmIInv
  <2>2. UNCHANGED <<mem, ptbl>> /\ mpc' = "walk"
    BY <1>3, <2>1 DEF MapEnter, vars
  <2>3. QED
    BY <2>2, NeededKept DEF NeverPanics
<1>4. CASE WalkTooLarge
  <2>1. /\ var <= last /\ last < SegStop /\ var \in Nat /\ last \in Nat
        /\ MmTypeOK
    BY <1>4, MmAssumption DEF WalkTooLarge, MapInv, RangeInv, MmIInv, MmTypeOK
  <2>2. SegStop \in Nat /\ SegStop <= MEM_STOP /\ MEM_STOP \in Nat
        /\ MEM_STOP <= MAX_VA /\ MAX_VA \in Nat
    BY <2>1, SegmentIs, LayoutIs
  <2>3. var < MAX_VA
    BY <2>1, <2>2
  <2>4. QED
    BY <1>4, <2>1, <2>2, <2>3 DEF WalkTooLarge
<1>5. CASE WalkDown
  <2>1. UNCHANGED <<mem, ptbl, mpc>>
    BY <1>5 DEF WalkDown, vars
  <2>2. QED
    BY <2>1, NeededKept DEF NeverPanics
<1>6. CASE WalkAlloc
  BY <1>6, WalkAllocNeeded DEF WalkAlloc, NeverPanics
<1>7. CASE WalkNoPage
  BY <1>7, RoomForTable DEF WalkNoPage
<1>8. CASE MapSet
  <2>1. ~Valid(Entry) /\ ptbl' = ptbl
    BY <1>8, EntryIsFree DEF MapSet
  <2>2. mpc' \in {"walk", "kmap", "mapped"}
    BY <1>8, <2>1 DEF MapSet, InWalk
  <2>3. \A t \in Inner : mem'[t] = mem[t]
    <3>1. tbl \notin Inner /\ tbl \in Leaves
      BY <1>8, MapSetTree DEF MmIInv, TreeInv
    <3>2. Inner \subseteq Frames
      BY DEF MmIInv, TreeInv, MmTypeOK, TypeOK
    <3>3. QED
      BY <1>8, <3>1, <3>2 DEF MapSet, MmIInv, MmTypeOK, TypeOK
  <2>4. QED
    BY <2>1, <2>2, <2>3, NeededKept DEF NeverPanics
<1>9. CASE UNCHANGED allVars
  <2>1. UNCHANGED <<mem, ptbl, mpc>>
    BY <1>9 DEF allVars, vars, mmVars
  <2>2. QED
    BY <2>1, NeededKept DEF NeverPanics
<1>10. QED
  BY <1>1, <1>2, <1>3, <1>4, <1>5, <1>6, <1>7, <1>8, <1>9 DEF MmNext, MmStep

(* NoPanicTheorem: with an image that is where it is linked for, no panic  *)
(* of kmap, map or walk stops the boot, and no table is written at         *)
(* address 0.                                                              *)
THEOREM NoPanicTheorem == MmSpec /\ Linked => []NeverPanics
<1>1. Init /\ MmInit => RoomInv
  BY DEF MmInit, RoomInv, NeededInv, NeverPanics, Frames, NULL
<1>2. MmIInv /\ Linked /\ MapInv /\ RoomInv /\ [MmNext]_allVars => RoomInv'
  BY MmNextRoom
<1>3. RoomInv => NeverPanics
  BY DEF RoomInv
<1>4. QED
  BY <1>1, <1>2, <1>3, MapInvariance, PTL DEF MmSpec

=============================================================================
