----------------------------- MODULE KallocProofs ---------------------------
(***************************************************************************)
(* Theorems about Kalloc, for every window, page size and _mem_end.        *)
(*                                                                         *)
(* The inductive invariant says that some sequence s of distinct pages is  *)
(* threaded through memory from freelist to NULL and holds exactly the     *)
(* free pages.  pz_alloc_pfree replaces s by <<f>> \o s and pz_alloc_pnew  *)
(* by its tail.                                                            *)
(***************************************************************************)
EXTENDS Kalloc, SequenceTheorems, FiniteSetTheorems, TLAPS

-----------------------------------------------------------------------------
(* Arithmetic of pages.                                                    *)

(* The page at address f * PAGESZ is f.                                    *)
LEMMA PageTimes ==
  ASSUME NEW f \in Nat
  PROVE  FrameOf(f * PAGESZ) = f
BY PageAssumption, SMT DEF FrameOf

(* RoundUp gives the first page boundary at or after a.                    *)
LEMMA RoundUpLeast ==
  ASSUME NEW a \in Nat
  PROVE  \E k \in Nat : /\ RoundUp(a, PAGESZ) = k * PAGESZ
                        /\ a <= k * PAGESZ
                        /\ \A f \in Nat : a <= f * PAGESZ => k <= f
<1> DEFINE k == (a - 1) \div PAGESZ + 1
<1>1. k \in Nat
  BY PageAssumption, SMT
<1>2. RoundUp(a, PAGESZ) = k * PAGESZ
  BY DEF RoundUp
<1>3. a <= k * PAGESZ
  BY PageAssumption, SMT
<1>4. ASSUME NEW f \in Nat, a <= f * PAGESZ
      PROVE  k <= f
  BY <1>4, PageAssumption, SMT
<1>5. QED
  BY <1>1, <1>2, <1>3, <1>4

-----------------------------------------------------------------------------
(* Where free_range's loop is: p is a page boundary at or after the first  *)
(* one not below _mem_end, and the loop is over only when no page is left. *)
LoopInv ==
  /\ \E k \in Nat : p = k * PAGESZ
  /\ mem_end <= p
  /\ phase = "ready" => p + PAGESZ > mem_end + MEM_SIZE

(* The pages the clients hold came from the list.                          *)
HeldInv == held \subseteq Donated

ListInv == \E s \in Seq(Frames) : IsFreeList(s)

IInv == TypeOK /\ LoopInv /\ HeldInv /\ ListInv

-----------------------------------------------------------------------------
(* What the two writes of the allocator leave in memory.                   *)

(* memset and the link in pz_alloc_pfree leave memory made of words.       *)
LEMMA FreeMemType ==
  ASSUME TypeOK, NEW f \in Frames
  PROVE  MemAfterFree(f) \in [Frames -> Page]
<1>1. freelist \in Frames \union {NULL}
  BY DEF TypeOK
<1>2. JunkBB \in Word /\ Ptr(freelist) \in Word
  BY <1>1 DEF JunkBB, Ptr, Word, Flags, Frames, NULL
<1>3. [Filled(JunkBB) EXCEPT ![0] = Ptr(freelist)] \in Page
  BY <1>2 DEF Filled, Page
<1>4. QED
  BY <1>3 DEF MemAfterFree, TypeOK

(* So does the memset of pz_alloc_pnew.                                    *)
LEMMA NewMemType ==
  ASSUME TypeOK
  PROVE  MemAfterNew \in [Frames -> Page]
<1>1. JunkEE \in Word
  BY DEF JunkEE, Word, Flags, NULL
<1>2. Filled(JunkEE) \in Page
  BY <1>1 DEF Filled, Page
<1>3. QED
  BY <1>2 DEF MemAfterNew, TypeOK

(* pz_alloc_pfree links its page to the old head and writes no other page. *)
LEMMA FreeLink ==
  ASSUME TypeOK, NEW f \in Frames
  PROVE  /\ Deref(MemAfterFree(f)[f][0]) = freelist
         /\ \A g \in Frames : g # f => MemAfterFree(f)[g] = mem[g]
<1>1. 0 \in Slots
  BY EntriesAssumption DEF Slots
<1>2. MemAfterFree(f)[f][0] = Ptr(freelist)
  BY <1>1 DEF MemAfterFree, Filled, TypeOK
<1>3. \A g \in Frames : g # f => MemAfterFree(f)[g] = mem[g]
  BY DEF MemAfterFree, TypeOK
<1>4. QED
  BY <1>2, <1>3 DEF Deref, Ptr

-----------------------------------------------------------------------------
(* The list of free pages is carried across each change.                   *)

(* Pushing a page that is not on the list.                                 *)
LEMMA PushList ==
  ASSUME TypeOK, NEW s \in Seq(Frames), IsFreeList(s),
         NEW f \in Frames, f \notin Free,
         freelist' = f, mem' = MemAfterFree(f),
         Free' = Free \union {f}
  PROVE  IsFreeList(<<f>> \o s)'
<1> DEFINE t == <<f>> \o s
<1>1. /\ t \in Seq(Frames)
      /\ Len(t) = Len(s) + 1
      /\ t[1] = f
      /\ \A i \in 1..Len(s) : t[i + 1] = s[i]
  OBVIOUS
<1>2. \A i \in 1..Len(s) : s[i] \in Frames /\ s[i] \in Free /\ s[i] # f
  BY DEF IsFreeList
<1>3. Len(s) \in Nat
  OBVIOUS
<1>4. (freelist = IF Len(t) = 0 THEN NULL ELSE t[1])'
  BY <1>1, <1>3
<1>5. ASSUME NEW i \in 1..Len(t)
      PROVE  Deref(mem'[t[i]][0]) = IF i = Len(t) THEN NULL ELSE t[i + 1]
  <2>1. CASE i = 1
    <3>1. Deref(mem'[f][0]) = freelist
      BY FreeLink
    <3>2. freelist = IF Len(s) = 0 THEN NULL ELSE s[1]
      BY DEF IsFreeList
    <3>3. QED
      BY <2>1, <3>1, <3>2, <1>1, <1>3
  <2>2. CASE i # 1
    <3>1. i - 1 \in 1..Len(s) /\ t[i] = s[i - 1]
      BY <2>2, <1>1, <1>3
    <3>2. mem'[s[i - 1]] = mem[s[i - 1]]
      BY <3>1, <1>2, FreeLink
    <3>3. Deref(mem[s[i - 1]][0]) = IF i - 1 = Len(s) THEN NULL ELSE s[i]
      BY <3>1, <1>3 DEF IsFreeList
    <3>4. i # Len(t) => t[i + 1] = s[i]
      BY <3>1, <1>1, <1>3
    <3>5. QED
      BY <3>1, <3>2, <3>3, <3>4, <1>1, <1>3
  <2>3. QED
    BY <2>1, <2>2
<1>6. ASSUME NEW i \in 1..Len(t), NEW j \in 1..Len(t), t[i] = t[j]
      PROVE  i = j
  <2>1. \A m \in 1..Len(t) : m = 1 \/ (m - 1 \in 1..Len(s) /\ t[m] = s[m - 1])
    BY <1>1, <1>3
  <2>2. \A m, n \in 1..Len(s) : s[m] = s[n] => m = n
    BY DEF IsFreeList
  <2>3. QED
    BY <2>1, <2>2, <1>1, <1>2, <1>3, <1>6
<1>7. {t[i] : i \in 1..Len(t)} = Free'
  <2>1. {s[i] : i \in 1..Len(s)} = Free
    BY DEF IsFreeList
  <2>2. \A m \in 1..Len(t) : m = 1 \/ (m - 1 \in 1..Len(s) /\ t[m] = s[m - 1])
    BY <1>1, <1>3
  <2>3. \A g \in Free : \E i \in 1..Len(t) : t[i] = g
    <3>1. ASSUME NEW g \in Free
          PROVE  \E i \in 1..Len(t) : t[i] = g
      <4>1. PICK i \in 1..Len(s) : s[i] = g
        BY <2>1
      <4>2. i + 1 \in 1..Len(t) /\ t[i + 1] = g
        BY <4>1, <1>1, <1>3
      <4>3. QED
        BY <4>2
    <3>2. QED
      BY <3>1
  <2>4. 1 \in 1..Len(t)
    BY <1>1, <1>3
  <2>5. \A i \in 1..Len(t) : t[i] \in Free \union {f}
    BY <2>2, <1>1, <1>2
  <2>6. QED
    BY <2>3, <2>4, <2>5, <1>1
<1>8. QED
  BY <1>4, <1>5, <1>6, <1>7 DEF IsFreeList

(* Popping the head.  What is written into it meanwhile does not matter.   *)
LEMMA PopList ==
  ASSUME TypeOK, NEW s \in Seq(Frames), IsFreeList(s), freelist # NULL,
         freelist' = HeadAfterNew,
         \A g \in Free \ {freelist} : mem'[g] = mem[g],
         Free' = Free \ {freelist}
  PROVE  /\ freelist \in Free
         /\ IsFreeList(Tail(s))'
<1> DEFINE t == Tail(s)
<1>1. /\ Len(s) \in Nat \ {0}
      /\ freelist = s[1]
      /\ freelist \in Frames
  BY DEF IsFreeList, TypeOK
<1>2. /\ t \in Seq(Frames)
      /\ Len(t) = Len(s) - 1
      /\ \A i \in 1..Len(t) : t[i] = s[i + 1]
  BY <1>1, HeadTailProperties
<1> HIDE DEF t
<1>3. freelist \in Free
  BY <1>1 DEF IsFreeList
<1>5. (freelist = IF Len(t) = 0 THEN NULL ELSE t[1])'
  <2>1. freelist' = Deref(mem[s[1]][0])
    BY <1>1 DEF HeadAfterNew
  <2>2. Deref(mem[s[1]][0]) = IF 1 = Len(s) THEN NULL ELSE s[1 + 1]
    BY <1>1, 1 \in 1..Len(s) DEF IsFreeList
  <2>3. QED
    BY <2>1, <2>2, <1>1, <1>2
<1>6. ASSUME NEW i \in 1..Len(t)
      PROVE  Deref(mem'[t[i]][0]) = IF i = Len(t) THEN NULL ELSE t[i + 1]
  <2>1. i + 1 \in 1..Len(s) /\ t[i] = s[i + 1] /\ s[i + 1] \in Frames
    BY <1>1, <1>2
  <2>2. s[i + 1] # s[1] /\ s[i + 1] \in Free
    BY <2>1, <1>1 DEF IsFreeList
  <2>3. mem'[t[i]] = mem[s[i + 1]]
    BY <2>1, <2>2, <1>1
  <2>4. Deref(mem[s[i + 1]][0])
          = IF i + 1 = Len(s) THEN NULL ELSE s[i + 1 + 1]
    BY <2>1 DEF IsFreeList
  <2>5. i # Len(t) => t[i + 1] = s[i + 1 + 1]
    BY <1>2
  <2>6. QED
    BY <2>3, <2>4, <2>5, <1>1, <1>2
<1>7. ASSUME NEW i \in 1..Len(t), NEW j \in 1..Len(t), t[i] = t[j]
      PROVE  i = j
  <2>1. /\ i + 1 \in 1..Len(s) /\ j + 1 \in 1..Len(s)
        /\ t[i] = s[i + 1] /\ t[j] = s[j + 1]
    BY <1>1, <1>2, <1>7
  <2>2. i + 1 = j + 1
    BY <2>1, <1>7 DEF IsFreeList
  <2>3. QED
    BY <2>2, <1>1, <1>2
<1>8. {t[i] : i \in 1..Len(t)} = Free'
  <2>1. {s[i] : i \in 1..Len(s)} = Free
    BY DEF IsFreeList
  <2>2. \A m \in 1..Len(s) : m = 1 \/ (m - 1 \in 1..Len(t) /\ t[m - 1] = s[m])
    BY <1>1, <1>2
  <2>3. \A m \in 1..Len(t) : m + 1 \in 1..Len(s) /\ t[m] = s[m + 1]
    BY <1>1, <1>2
  <2>4. \A m \in 1..Len(s) : m # 1 => s[m] # s[1]
    BY <1>1 DEF IsFreeList
  <2>5. ASSUME NEW g \in Free, g # freelist
        PROVE  \E i \in 1..Len(t) : t[i] = g
    <3>1. PICK m \in 1..Len(s) : s[m] = g
      BY <2>1
    <3>2. QED
      BY <3>1, <2>2, <2>5, <1>1
  <2>6. \A i \in 1..Len(t) : t[i] \in Free /\ t[i] # freelist
    <3>1. ASSUME NEW i \in 1..Len(t)
          PROVE  t[i] \in Free /\ t[i] # freelist
      <4>1. i + 1 \in 1..Len(s) /\ t[i] = s[i + 1] /\ i + 1 # 1
        BY <2>3, <1>1, <1>2
      <4>2. QED
        BY <4>1, <2>1, <2>4, <1>1
    <3>2. QED
      BY <3>1
  <2>7. QED
    BY <2>5, <2>6
<1>9. IsFreeList(t)'
  BY <1>5, <1>6, <1>7, <1>8 DEF IsFreeList
<1>10. QED
  BY <1>3, <1>9 DEF t

(* A step that writes no free page and keeps the free set keeps the list.  *)
LEMMA KeepList ==
  ASSUME NEW s \in Seq(Frames), IsFreeList(s),
         freelist' = freelist, Free' = Free,
         \A f \in Free : mem'[f] = mem[f]
  PROVE  IsFreeList(s)'
<1>1. \A i \in 1..Len(s) : mem'[s[i]] = mem[s[i]]
  BY DEF IsFreeList
<1>2. QED
  BY <1>1 DEF IsFreeList

-----------------------------------------------------------------------------
(* Initially the list and the pool are empty.                              *)
LEMMA InitIInv == Init => IInv
<1> SUFFICES ASSUME Init
             PROVE  IInv
  OBVIOUS
<1>1. mem_end \in Nat
  BY LayoutAssumption DEF Init
<1>2. PICK k \in Nat : /\ p = k * PAGESZ
                       /\ mem_end <= p
                       /\ \A f \in Nat : mem_end <= f * PAGESZ => k <= f
  BY <1>1, RoundUpLeast DEF Init
<1>3. TypeOK
  <2>1. Ptr(NULL) \in Word /\ JunkBB \in Word
    BY DEF JunkBB, Ptr, Word, Flags, NULL
  <2>2. mem \in [Frames -> Page]
    BY <2>1 DEF Init, Filled, Page
  <2>3. p \in Nat
    BY <1>2, PageAssumption
  <2>4. QED
    BY <2>2, <2>3 DEF Init, TypeOK
<1>4. LoopInv
  BY <1>2 DEF Init, LoopInv
<1>5. HeldInv
  BY DEF Init, HeldInv
<1>6. ListInv
  <2>1. Donated = {}
    <3>1. ASSUME NEW f \in Frames, mem_end <= f * PAGESZ, f * PAGESZ < p
          PROVE  FALSE
      <4>1. f \in Nat
        BY DEF Frames
      <4>2. k <= f
        BY <3>1, <4>1, <1>2
      <4>3. k * PAGESZ <= f * PAGESZ
        BY <4>1, <4>2, PageAssumption, SMT
      <4>4. QED
        BY <3>1, <4>1, <4>3, <1>2, PageAssumption
    <3>2. QED
      BY <3>1 DEF Donated, Pool
  <2>2. IsFreeList(<<>>)
    BY <2>1 DEF IsFreeList, Free, Init
  <2>3. <<>> \in Seq(Frames)
    BY EmptySeq
  <2>4. QED
    BY <2>2, <2>3, Zenon DEF ListInv
<1>7. QED
  BY <1>3, <1>4, <1>5, <1>6 DEF IInv

(* The page free_range is about to push: a page of the pool, not yet       *)
(* donated, and the only one donated by the step.                          *)
LEMMA NextDonation ==
  ASSUME TypeOK, LoopInv, p + PAGESZ <= mem_end + MEM_SIZE,
         mem_end' = mem_end, p' = p + PAGESZ
  PROVE  /\ FrameOf(p) \in Pool
         /\ FrameOf(p) \notin Donated
         /\ Donated' = Donated \union {FrameOf(p)}
<1>1. PICK k \in Nat : p = k * PAGESZ
  BY DEF LoopInv
<1>2. FrameOf(p) = k
  BY <1>1, PageTimes
<1>3. /\ mem_end \in Nat
      /\ mem_end > PAGESZ
      /\ mem_end + MEM_SIZE <= (RAM_TOP + 1) * PAGESZ
      /\ mem_end <= k * PAGESZ
      /\ MEM_SIZE \in Nat
  BY <1>1, LayoutAssumption DEF TypeOK, LoopInv
<1>4. (k + 1) * PAGESZ = p + PAGESZ
  BY <1>1, PageAssumption, SMT
<1>5. k \in Frames
  <2>1. k # 0
    BY <1>3, PageAssumption, SMT
  <2>2. k <= RAM_TOP
    BY <1>3, <1>4, PageAssumption, RamAssumption, SMT
  <2>3. QED
    BY <2>1, <2>2, RamAssumption DEF Frames
<1>6. k \in Pool
  BY <1>3, <1>4, <1>5 DEF Pool
<1>7. k \notin Donated
  BY <1>1, PageAssumption DEF Donated
<1>8. ASSUME NEW f \in Frames
      PROVE  f * PAGESZ < p + PAGESZ <=> f * PAGESZ < p \/ f = k
  <2>1. f \in Nat
    BY DEF Frames
  <2>2. f <= k => f * PAGESZ <= k * PAGESZ
    BY <2>1, PageAssumption, SMT
  <2>3. f > k => f * PAGESZ >= (k + 1) * PAGESZ
    BY <2>1, PageAssumption, SMT
  <2>4. f < k => (f + 1) * PAGESZ <= k * PAGESZ
    BY <2>1, PageAssumption, SMT
  <2>5. (f + 1) * PAGESZ = f * PAGESZ + PAGESZ
    BY <2>1, PageAssumption, SMT
  <2>6. f * PAGESZ \in Nat /\ p \in Nat /\ PAGESZ \in Nat \ {0}
    BY <2>1, PageAssumption DEF TypeOK
  <2>7. QED
    BY <2>1, <2>2, <2>3, <2>4, <2>5, <2>6, <1>1, <1>4, SMT
<1>9. Pool' = Pool
  BY DEF Pool
<1>10. Donated' = Donated \union {k}
  <2>1. ASSUME NEW f \in Pool
        PROVE  f * PAGESZ < p' <=> f * PAGESZ < p \/ f = k
    BY <1>8 DEF Pool
  <2>2. QED
    BY <2>1, <1>6, <1>9, Zenon DEF Donated
<1>11. QED
  BY <1>2, <1>6, <1>7, <1>10

(* What the three kinds of change to the list do, with the list named.     *)

(* A turn of free_range puts a page in front of the list that was neither  *)
(* on it nor held.                                                         *)
LEMMA DonateStep ==
  ASSUME IInv, FreeRangeStep, NEW s \in Seq(Frames), IsFreeList(s)
  PROVE  \E f \in Frames \ (Free \union held) :
           /\ f = FrameOf(p)
           /\ Donated' = Donated \union {f}
           /\ <<f>> \o s \in Seq(Frames)
           /\ IsFreeList(<<f>> \o s)'
<1> USE DEF IInv
<1>1. /\ FrameOf(p) \in Pool
      /\ FrameOf(p) \notin Donated
      /\ Donated' = Donated \union {FrameOf(p)}
  BY NextDonation DEF FreeRangeStep
<1>2. PICK f \in Frames : f = FrameOf(p)
  BY <1>1 DEF Pool
<1>3. freelist' = f /\ mem' = MemAfterFree(f) /\ held' = held
  BY <1>2 DEF FreeRangeStep
<1>4. f \notin Free \union held /\ Free' = Free \union {f}
  BY <1>1, <1>2, <1>3 DEF Free, HeldInv
<1>5. IsFreeList(<<f>> \o s)'
  BY <1>3, <1>4, PushList
<1>6. <<f>> \o s \in Seq(Frames)
  OBVIOUS
<1>7. QED
  BY <1>1, <1>2, <1>4, <1>5, <1>6

(* So does pz_alloc_pfree, with a page that was held.                      *)
LEMMA PfreeStep ==
  ASSUME IInv, NEW f \in held, Pfree(f), NEW s \in Seq(Frames), IsFreeList(s)
  PROVE  /\ f \in Frames \ Free
         /\ Donated' = Donated
         /\ <<f>> \o s \in Seq(Frames)
         /\ IsFreeList(<<f>> \o s)'
<1> USE DEF IInv
<1>1. f \in Frames /\ f \in Donated
  BY DEF TypeOK, HeldInv
<1>2. Donated' = Donated
  BY DEF Pfree, Donated, Pool
<1>3. f \notin Free /\ Free' = Free \union {f}
  BY <1>1, <1>2 DEF Pfree, Free
<1>4. IsFreeList(<<f>> \o s)'
  BY <1>1, <1>3, PushList DEF Pfree
<1>5. <<f>> \o s \in Seq(Frames)
  BY <1>1
<1>6. QED
  BY <1>1, <1>2, <1>3, <1>4, <1>5

(* PopFreelist in a step that may write into the page that was popped and  *)
(* into pages that are not free.                                           *)
LEMMA PopStep ==
  ASSUME IInv, PopFreelist, UNCHANGED <<mem_end, p>>,
         NEW s \in Seq(Frames), IsFreeList(s),
         \A g \in Free \ {freelist} : mem'[g] = mem[g]
  PROVE  /\ \/ /\ freelist = NULL /\ s = <<>> /\ held' = held
               /\ IsFreeList(s)'
            \/ /\ freelist \in Free /\ s # <<>> /\ freelist = Head(s)
               /\ held' = held \union {freelist}
               /\ IsFreeList(Tail(s))' /\ Tail(s) \in Seq(Frames)
         /\ ret' = freelist
         /\ freelist' \in Frames \union {NULL}
         /\ HeldInv' /\ ListInv'
<1> USE DEF IInv
<1>1. Donated' = Donated
  BY DEF Donated, Pool
<1>2. ret' = freelist
  BY DEF PopFreelist
<1>3. CASE freelist = NULL
  <2>1. held' = held /\ freelist' = freelist
    BY <1>3 DEF PopFreelist, HeadAfterNew
  <2>2. Free' = Free /\ freelist \notin Free
    BY <1>1, <1>3, <2>1 DEF Free, Donated, Pool, Frames, NULL
  <2>3. IsFreeList(s)'
    BY <2>1, <2>2, KeepList
  <2>4. s = <<>>
    <3>1. CASE Len(s) # 0
      <4>1. s[1] \in Frames
        BY <3>1
      <4>2. QED
        BY <3>1, <4>1, <1>3 DEF IsFreeList, Frames, NULL
    <3>2. CASE Len(s) = 0
      BY <3>2
    <3>3. QED
      BY <3>1, <3>2
  <2>5. HeldInv' /\ ListInv'
    BY <1>1, <2>1, <2>3, Zenon DEF HeldInv, ListInv
  <2>6. QED
    BY <1>2, <1>3, <2>1, <2>3, <2>4, <2>5 DEF TypeOK
<1>4. CASE freelist # NULL
  <2>1. held' = held \union {freelist} /\ freelist' = HeadAfterNew
    BY <1>4 DEF PopFreelist
  <2>2. Free' = Free \ {freelist}
    BY <1>1, <2>1 DEF Free
  <2>3. freelist \in Free /\ IsFreeList(Tail(s))'
    BY <1>4, <2>1, <2>2, PopList
  <2>4. s # <<>> /\ freelist = Head(s)
    BY <1>4 DEF IsFreeList
  <2>5. Tail(s) \in Seq(Frames)
    BY <2>4, HeadTailProperties
  <2>6. ListInv'
    BY <2>3, <2>5, Zenon DEF ListInv
  <2>7. freelist' \in Frames \union {NULL}
    <3>1. PICK t \in Seq(Frames) : IsFreeList(t)'
      BY <2>6, Zenon DEF ListInv
    <3>2. QED
      BY <3>1 DEF IsFreeList
  <2>8. HeldInv'
    BY <1>1, <2>1, <2>3 DEF HeldInv, Free
  <2>9. QED
    BY <1>2, <2>1, <2>3, <2>4, <2>5, <2>6, <2>7, <2>8
<1>5. QED
  BY <1>3, <1>4

(* Every step keeps the invariant: one case per action.                    *)
LEMMA NextIInv ==
  ASSUME IInv, [Next]_vars
  PROVE  IInv'
<1> USE DEF IInv
<1>1. PICK s \in Seq(Frames) : IsFreeList(s)
  BY DEF ListInv
<1>2. CASE FreeRangeStep
  <2>1. /\ FrameOf(p) \in Frames
        /\ Donated' = Donated \union {FrameOf(p)}
        /\ ListInv'
    <3>1. PICK f \in Frames \ (Free \union held) :
            /\ f = FrameOf(p)
            /\ Donated' = Donated \union {f}
            /\ <<f>> \o s \in Seq(Frames)
            /\ IsFreeList(<<f>> \o s)'
      BY <1>1, <1>2, DonateStep
    <3>2. ListInv'
      BY <3>1, Zenon DEF ListInv
    <3>3. QED
      BY <3>1, <3>2
  <2>2. TypeOK'
    BY <1>2, <2>1, FreeMemType, PageAssumption DEF FreeRangeStep, TypeOK
  <2>3. LoopInv'
    <3>1. PICK k \in Nat : p = k * PAGESZ
      BY DEF LoopInv
    <3>2. p' = (k + 1) * PAGESZ /\ k + 1 \in Nat
      BY <1>2, <3>1, PageAssumption, SMT DEF FreeRangeStep
    <3>3. mem_end' <= p' /\ phase' = "free_range"
      BY <1>2, PageAssumption, LayoutAssumption
      DEF LoopInv, TypeOK, FreeRangeStep
    <3>4. QED
      BY <3>2, <3>3 DEF LoopInv
  <2>4. HeldInv'
    BY <1>2, <2>1 DEF HeldInv, FreeRangeStep
  <2>5. QED
    BY <2>1, <2>2, <2>3, <2>4
<1>3. CASE FreeRangeEnd
  <2>1. TypeOK' /\ LoopInv'
    BY <1>3 DEF FreeRangeEnd, TypeOK, LoopInv
  <2>2. Donated' = Donated /\ Free' = Free
    BY <1>3 DEF FreeRangeEnd, Donated, Pool, Free
  <2>3. HeldInv'
    BY <1>3, <2>2 DEF FreeRangeEnd, HeldInv
  <2>4. IsFreeList(s)'
    BY <1>1, <1>3, <2>2, KeepList DEF FreeRangeEnd
  <2>5. QED
    BY <2>1, <2>3, <2>4, Zenon DEF ListInv
<1>4. CASE Pnew
  <2>1. \A g \in Free \ {freelist} : mem'[g] = mem[g]
    BY <1>4 DEF Pnew, MemAfterNew, TypeOK
  <2>2. /\ freelist' \in Frames \union {NULL}
        /\ held' \subseteq Frames
        /\ HeldInv' /\ ListInv'
    <3>1. /\ freelist' \in Frames \union {NULL}
          /\ HeldInv' /\ ListInv'
      BY <1>1, <1>4, <2>1, PopStep DEF Pnew
    <3>2. held' \subseteq Frames
      BY <3>1 DEF HeldInv, Donated, Pool
    <3>3. QED
      BY <3>1, <3>2
  <2>3. LoopInv'
    BY <1>4 DEF Pnew, LoopInv
  <2>4. TypeOK'
    BY <1>4, <2>2, NewMemType DEF Pnew, PopFreelist, TypeOK
  <2>5. QED
    BY <2>2, <2>3, <2>4
<1>5. ASSUME NEW f \in held, Pfree(f)
      PROVE  IInv'
  <2>1. f \in Frames /\ Donated' = Donated /\ ListInv'
    BY <1>1, <1>5, PfreeStep, Zenon DEF ListInv
  <2>2. TypeOK'
    BY <1>5, <2>1, FreeMemType DEF Pfree, TypeOK
  <2>3. LoopInv' /\ HeldInv'
    BY <1>5, <2>1 DEF Pfree, LoopInv, HeldInv
  <2>4. QED
    BY <2>1, <2>2, <2>3
<1>6. ASSUME NEW f \in held, NEW g \in STORED, ClientStore(f, g)
      PROVE  IInv'
  <2>1. Donated' = Donated /\ Free' = Free
    BY <1>6 DEF ClientStore, Donated, Pool, Free
  <2>2. mem' = [mem EXCEPT ![f][0] = Ptr(g)]
    BY <1>6 DEF ClientStore
  <2>3. TypeOK'
    <3>1. Ptr(g) \in Word /\ 0 \in Slots
      BY StoredAssumption, EntriesAssumption DEF Ptr, Word, Slots, Frames
    <3>2. mem' \in [Frames -> Page]
      BY <2>2, <3>1 DEF TypeOK, Page
    <3>3. QED
      BY <1>6, <3>2 DEF ClientStore, TypeOK
  <2>4. LoopInv' /\ HeldInv'
    BY <1>6, <2>1 DEF ClientStore, LoopInv, HeldInv
  <2>5. \A h \in Free : mem'[h] = mem[h]
    BY <2>2 DEF Free, Donated, Pool, TypeOK
  <2>6. IsFreeList(s)'
    BY <1>1, <1>6, <2>1, <2>5, KeepList DEF ClientStore
  <2>7. QED
    BY <2>3, <2>4, <2>6, Zenon DEF ListInv
<1>7. CASE UNCHANGED vars
  <2>1. TypeOK' /\ LoopInv' /\ Donated' = Donated /\ Free' = Free
    BY <1>7 DEF vars, TypeOK, LoopInv, Donated, Pool, Free
  <2>2. HeldInv'
    BY <1>7, <2>1 DEF vars, HeldInv
  <2>3. IsFreeList(s)'
    BY <1>1, <1>7, <2>1, KeepList DEF vars
  <2>4. QED
    BY <2>1, <2>2, <2>3, Zenon DEF ListInv
<1>8. QED
  BY <1>2, <1>3, <1>4, <1>5, <1>6, <1>7 DEF Next

(* Invariance: the free list is threaded correctly in every reachable      *)
(* state of the allocator, whatever the clients do with their pages.       *)
THEOREM Invariance == Spec => []IInv
<1>1. Init => IInv
  BY InitIInv
<1>2. IInv /\ [Next]_vars => IInv'
  BY NextIInv
<1>3. QED
  BY <1>1, <1>2, PTL DEF Spec

(* TypeCorrect: every variable keeps its type.                             *)
THEOREM TypeCorrect == Spec => []TypeOK
<1>1. IInv => TypeOK
  BY DEF IInv
<1>2. QED
  BY <1>1, Invariance, PTL

(* The head of a list of the free pages is free, and NULL is the head of   *)
(* the empty list.                                                         *)
LEMMA HeadIs ==
  ASSUME IInv
  PROVE  HeadIsFree
<1>1. PICK s \in Seq(Frames) : IsFreeList(s)
  BY DEF IInv, ListInv
<1>2. CASE Len(s) = 0
  <2>1. freelist = NULL /\ Free = {}
    BY <1>1, <1>2 DEF IsFreeList
  <2>2. QED
    BY <2>1 DEF HeadIsFree
<1>3. CASE Len(s) # 0
  <2>1. 1 \in 1..Len(s)
    BY <1>3
  <2>2. freelist = s[1] /\ s[1] \in Frames /\ s[1] \in Free
    BY <1>1, <1>3, <2>1 DEF IsFreeList
  <2>3. freelist # NULL
    BY <2>2, RamAssumption DEF Frames, NULL
  <2>4. QED
    BY <2>2, <2>3 DEF HeadIsFree
<1>4. QED
  BY <1>2, <1>3

(* HeadSafe: the page pz_alloc_pnew is about to return is one nobody       *)
(* holds, and NULL is returned only when every donated page is held.       *)
THEOREM HeadSafe == Spec => []HeadIsFree
<1>1. IInv => HeadIsFree
  BY HeadIs
<1>2. QED
  BY <1>1, Invariance, PTL

(* HeldSafe: neither call of the allocator writes into a page that a       *)
(* client holds before and after it.                                       *)
THEOREM HeldSafe == Spec => HeldUntouched
<1> DEFINE Safe == \A f \in held \intersect held' :
                     mem'[f] # mem[f] => freelist' = freelist /\ held' = held
<1>1. ASSUME IInv, [Next]_vars
      PROVE  [Safe]_vars
  <2>1. held \subseteq Frames /\ held \subseteq Donated
    BY <1>1 DEF IInv, TypeOK, HeldInv
  <2>2. PICK s \in Seq(Frames) : IsFreeList(s)
    BY <1>1 DEF IInv, ListInv
  <2>3. CASE FreeRangeStep
    <3>1. FrameOf(p) \in Frames /\ FrameOf(p) \notin held
      BY <1>1, <2>1, <2>3, NextDonation DEF FreeRangeStep, IInv, Pool
    <3>2. \A f \in held : mem'[f] = mem[f]
      BY <1>1, <2>1, <2>3, <3>1, FreeLink DEF FreeRangeStep, IInv
    <3>3. QED
      BY <3>2
  <2>4. CASE FreeRangeEnd
    BY <2>4 DEF FreeRangeEnd
  <2>5. CASE Pnew
    <3>1. CASE freelist = NULL
      BY <2>5, <3>1 DEF Pnew, MemAfterNew
    <3>2. CASE freelist # NULL
      <4>1. freelist \notin held
        <5>1. Len(s) # 0 /\ 1 \in 1..Len(s) /\ freelist = s[1]
          BY <2>2, <3>2 DEF IsFreeList
        <5>2. freelist \in Free
          BY <2>2, <5>1 DEF IsFreeList
        <5>3. QED
          BY <5>2 DEF Free
      <4>2. \A f \in held : mem'[f] = mem[f]
        BY <1>1, <2>1, <2>5, <3>2, <4>1 DEF Pnew, MemAfterNew, IInv, TypeOK
      <4>3. QED
        BY <4>2
    <3>3. QED
      BY <3>1, <3>2
  <2>6. ASSUME NEW g \in held, Pfree(g)
        PROVE  Safe
    <3>1. \A f \in held : f # g => mem'[f] = mem[f]
      BY <1>1, <2>1, <2>6, FreeLink DEF Pfree, IInv
    <3>2. g \notin held'
      BY <2>6 DEF Pfree
    <3>3. QED
      BY <3>1, <3>2
  <2>7. ASSUME NEW g \in held, NEW h \in STORED, ClientStore(g, h)
        PROVE  Safe
    BY <2>7 DEF ClientStore
  <2>8. QED
    BY <1>1, <2>3, <2>4, <2>5, <2>6, <2>7 DEF Next
<1>2. QED
  BY <1>1, Invariance, PTL DEF Spec, HeldUntouched

-----------------------------------------------------------------------------
(***************************************************************************)
(* A list is threaded through the free pages. Now it is shown that         *)
(* following the links from freelist finds that list (FreeSeq), which      *)
(* gives the allocator's properties as the runs check them, and that seen  *)
(* through FreeSeq every step of the allocator is one of a stack of pages. *)
(***************************************************************************)

(* A set of natural numbers has a least element.                           *)
LEMMA LeastNat ==
  ASSUME NEW T \in SUBSET Nat, T # {}
  PROVE  \E x \in T : \A y \in T : x <= y
<1> DEFINE R == {ss \in Nat \X Nat : ss[1] < ss[2]}
<1>1. IsWellFoundedOn(OpToRel(<, Nat), Nat)
  BY NatLessThanWellFounded
<1>2. OpToRel(<, Nat) = R
  BY DEF OpToRel
<1>3. IsWellFoundedOn(R, Nat)
  BY <1>1, <1>2
<1> HIDE DEF R
<1>4. PICK x \in T : \A y \in T : ~(<<y, x>> \in R)
  BY <1>3, WFMin
<1>5. ASSUME NEW y \in T
      PROVE  x <= y
  <2>1. <<y, x>> \in Nat \X Nat => (<<y, x>> \in R <=> y < x)
    BY DEF R
  <2>2. QED
    BY <2>1, <1>4
<1>6. QED
  BY <1>5

-----------------------------------------------------------------------------
(* Following the links.                                                    *)

(* g is what Follow is defined to be.                                      *)
IsFollow(g) ==
  g = [i \in 0..FollowBound |->
         IF i = 0 THEN freelist
         ELSE LET f == g[i - 1]
              IN  IF f \in Frames THEN Deref(mem[f][0]) ELSE NULL]

(* Follow is such a function, if there is one.                             *)
LEMMA FollowIsOne ==
  ASSUME NEW g, IsFollow(g)
  PROVE  IsFollow(Follow)
<1>1. Follow = CHOOSE h : IsFollow(h)
  BY DEF Follow, IsFollow
<1>2. QED
  BY <1>1, Zenon

(* There is one such function only: look at the first place where two of   *)
(* them differ.                                                            *)
LEMMA FollowUnique ==
  ASSUME NEW g, NEW h, IsFollow(g), IsFollow(h)
  PROVE  g = h
<1>1. FollowBound \in Nat
  BY RamAssumption DEF FollowBound
<1> DEFINE Bad == {i \in 0..FollowBound : g[i] # h[i]}
<1>2. Bad \in SUBSET Nat
  BY <1>1
<1>3. ASSUME Bad # {}
      PROVE  FALSE
  <2> HIDE DEF Bad
  <2>1. PICK k \in Bad : \A j \in Bad : k <= j
    BY <1>2, <1>3, LeastNat
  <2> USE DEF Bad
  <2>2. k \in 0..FollowBound /\ g[k] # h[k]
    OBVIOUS
  <2>3. g[0] = freelist /\ h[0] = freelist /\ 0 \in 0..FollowBound
    BY <1>1 DEF IsFollow
  <2>4. k - 1 \in 0..FollowBound
    BY <2>2, <2>3, <1>1
  <2>5. g[k - 1] = h[k - 1]
    BY <2>1, <2>2, <2>4, <1>1
  <2>6. g[k] = IF g[k - 1] \in Frames THEN Deref(mem[g[k - 1]][0]) ELSE NULL
    BY <2>2, <2>3, <1>1 DEF IsFollow
  <2>7. h[k] = IF h[k - 1] \in Frames THEN Deref(mem[h[k - 1]][0]) ELSE NULL
    BY <2>2, <2>3, <1>1 DEF IsFollow
  <2>8. QED
    BY <2>2, <2>5, <2>6, <2>7
<1>4. /\ g = [i \in 0..FollowBound |-> g[i]]
      /\ h = [i \in 0..FollowBound |-> h[i]]
  BY DEF IsFollow
<1>5. QED
  BY <1>3, <1>4

(* A list of distinct pages is no longer than RAM.                         *)
LEMMA ListShort ==
  ASSUME NEW s \in Seq(Frames),
         \A i, j \in 1..Len(s) : s[i] = s[j] => i = j
  PROVE  Len(s) \in 0..RAM_TOP
<1>1. s \in Injection(1..Len(s), Frames)
  <2>1. s \in [1..Len(s) -> Frames]
    OBVIOUS
  <2>2. QED
    BY <2>1 DEF Injection, IsInjective
<1>2. IsFiniteSet(Frames) /\ Cardinality(Frames) = RAM_TOP
  BY RamAssumption, FS_Interval DEF Frames
<1>3. Cardinality(1..Len(s)) = Len(s)
  BY SMTT(30), FS_Interval
<1>4. Cardinality(1..Len(s)) <= Cardinality(Frames)
  BY <1>1, <1>2, FS_Injection
<1>5. QED
  BY <1>2, <1>3, <1>4

(* The list that exists is the one found on following the links.           *)
LEMMA FreeSeqIsList ==
  ASSUME NEW s \in Seq(Frames), IsFreeList(s)
  PROVE  FreeSeq = s
<1> DEFINE n == Len(s)
           g == [i \in 0..FollowBound |-> IF i < n THEN s[i + 1] ELSE NULL]
<1>1. n \in Nat /\ n <= RAM_TOP
  BY ListShort DEF IsFreeList
<1>2. FollowBound \in Nat /\ n < FollowBound
  BY <1>1, RamAssumption DEF FollowBound
<1>3. \A i \in 0..FollowBound : g[i] = IF i < n THEN s[i + 1] ELSE NULL
  OBVIOUS
<1>4. \A i \in 1..n : s[i] \in Frames
  OBVIOUS
<1>5. NULL \notin Frames
  BY DEF NULL, Frames
<1>6. IsFollow(g)
  <2>1. g[0] = freelist
    BY <1>1, <1>2 DEF IsFreeList
  <2>2. ASSUME NEW i \in 1..FollowBound
        PROVE  g[i] = IF g[i - 1] \in Frames
                      THEN Deref(mem[g[i - 1]][0]) ELSE NULL
    <3>1. i - 1 \in 0..FollowBound /\ i \in 0..FollowBound
      BY <1>2
    <3>2. CASE i <= n
      <4>1. i \in 1..n /\ g[i - 1] = s[i]
        BY <1>1, <1>2, <3>1, <3>2
      <4>2. Deref(mem[s[i]][0]) = IF i = n THEN NULL ELSE s[i + 1]
        BY <4>1 DEF IsFreeList
      <4>3. g[i] = IF i = n THEN NULL ELSE s[i + 1]
        BY <1>1, <3>1, <3>2
      <4>4. QED
        BY <4>1, <4>2, <4>3, <1>4
    <3>3. CASE i > n
      <4>1. g[i - 1] = NULL /\ g[i] = NULL
        BY <1>1, <1>2, <3>1, <3>3
      <4>2. QED
        BY <4>1, <1>5
    <3>4. QED
      BY <3>2, <3>3, <1>1
  <2> HIDE DEF g
  <2>3. \A i \in 0..FollowBound :
          g[i] = IF i = 0 THEN freelist
                 ELSE LET f == g[i - 1]
                      IN  IF f \in Frames THEN Deref(mem[f][0]) ELSE NULL
    BY <2>1, <2>2, <1>2
  <2>4. g = [i \in 0..FollowBound |-> g[i]]
    BY DEF g
  <2>5. QED
    BY <2>3, <2>4, Zenon DEF IsFollow
<1> HIDE DEF g
<1>7. Follow = g
  BY <1>6, FollowIsOne, FollowUnique
<1>8. {i \in 0..FollowBound : Follow[i] \in Frames} = 0..n-1
  <2>1. \A i \in 0..FollowBound : i < n => g[i] \in Frames
    BY <1>1, <1>3, <1>4
  <2>2. \A i \in 0..FollowBound : i >= n => g[i] \notin Frames
    BY <1>1, <1>3, <1>5
  <2>3. QED
    BY <2>1, <2>2, <1>1, <1>2, <1>7
<1>9. Cardinality(0..n-1) = n
  <2> HIDE DEF n
  <2>1. 0 \in Int /\ n - 1 \in Int
    BY <1>1
  <2>2. QED
    BY <1>1, <2>1, FS_Interval
<1>10. FreeSeq = [i \in 1..n |-> Follow[i - 1]]
  BY <1>8, <1>9 DEF FreeSeq
<1>11. \A i \in 1..n : Follow[i - 1] = s[i]
  BY <1>1, <1>2, <1>3, <1>7
<1>12. s = [i \in 1..n |-> s[i]]
  OBVIOUS
<1>13. QED
  BY <1>10, <1>11, <1>12

-----------------------------------------------------------------------------
(* FreeListTheorem: following the links from freelist one meets each page  *)
(* that was donated and is not held, once, and then NULL.                  *)
THEOREM FreeListTheorem == Spec => []FreeListSound
<1>1. IInv => FreeListSound
  <2> SUFFICES ASSUME IInv
               PROVE  FreeListSound
    OBVIOUS
  <2>1. PICK s \in Seq(Frames) : IsFreeList(s)
    BY DEF IInv, ListInv
  <2>2. FreeSeq = s
    BY <2>1, FreeSeqIsList
  <2>3. QED
    BY <2>1, <2>2 DEF FreeListSound
<1>2. QED
  BY <1>1, Invariance, PTL

(* When free_range ends it has donated the whole pool.                     *)
LEMMA AllDonated ==
  ASSUME IInv, phase = "ready"
  PROVE  Donated = Pool
<1>1. p + PAGESZ > mem_end + MEM_SIZE /\ p \in Nat
  BY DEF IInv, TypeOK, LoopInv
<1>2. mem_end \in Nat /\ MEM_SIZE \in Nat
  BY LayoutAssumption DEF IInv, TypeOK
<1>3. ASSUME NEW f \in Frames, (f + 1) * PAGESZ <= mem_end + MEM_SIZE
      PROVE  f * PAGESZ < p
  <2>1. f \in Nat
    BY DEF Frames
  <2>2. (f + 1) * PAGESZ = f * PAGESZ + PAGESZ /\ f * PAGESZ \in Nat
    BY <2>1, PageAssumption, SMT
  <2>3. QED
    BY <1>1, <1>2, <1>3, <2>2, PageAssumption
<1>4. QED
  BY <1>3 DEF Donated, Pool

(* PoolTheorem: pz_alloc_init leaves out no page of its window, and the    *)
(* list never leads out of the window.                                     *)
THEOREM PoolTheorem == Spec => []PoolComplete
<1>1. IInv => PoolComplete
  <2> SUFFICES ASSUME IInv, phase = "ready"
               PROVE  /\ Donated = Pool
                      /\ {FreeSeq[i] : i \in 1..Len(FreeSeq)} \subseteq Pool
    BY DEF PoolComplete
  <2>1. PICK s \in Seq(Frames) : IsFreeList(s)
    BY DEF IInv, ListInv
  <2>2. FreeSeq = s
    BY <2>1, FreeSeqIsList
  <2>3. {FreeSeq[i] : i \in 1..Len(FreeSeq)} \subseteq Pool
    BY <2>1, <2>2 DEF IsFreeList, Free, Donated
  <2>4. Donated = Pool
    BY AllDonated
  <2>5. QED
    BY <2>3, <2>4
<1>2. QED
  BY <1>1, Invariance, PTL

-----------------------------------------------------------------------------
(* The refinement of PageStack: s and t are what FreeSeq is before and     *)
(* after the step.                                                         *)

(* Before pz_alloc_init has freed a page PageStack's stack is empty.       *)
LEMMA InitRefines == Init => Stack!Init
<1> SUFFICES ASSUME Init
             PROVE  Stack!Init
  OBVIOUS
<1>1. PICK s \in Seq(Frames) : IsFreeList(s)
  BY InitIInv DEF IInv, ListInv
<1>2. s = <<>>
  <2>1. CASE Len(s) # 0
    <3>1. s[1] \in Frames
      BY <2>1
    <3>2. QED
      BY <1>1, <2>1, <3>1 DEF Init, IsFreeList, Frames, NULL
  <2>2. CASE Len(s) = 0
    BY <2>2
  <2>3. QED
    BY <2>1, <2>2
<1>3. FreeSeq = <<>>
  BY <1>1, <1>2, FreeSeqIsList
<1>4. QED
  BY <1>3 DEF Init, Stack!Init

(* The pages on PageStack's stack are the free ones.                       *)
LEMMA StackHoldsFree ==
  ASSUME NEW s \in Seq(Frames), IsFreeList(s)
  PROVE  Stack!OnStack = Free
<1>1. FreeSeq = s
  BY FreeSeqIsList
<1>2. DOMAIN s = 1..Len(s)
  OBVIOUS
<1>3. QED
  BY <1>1, <1>2 DEF Stack!OnStack, IsFreeList

(* A step that pops the list is a request that is met or refused.          *)
LEMMA PopRefines ==
  ASSUME IInv, PopFreelist, UNCHANGED <<mem_end, p>>,
         \A g \in Free \ {freelist} : mem'[g] = mem[g],
         (\A s \in Seq(Frames) : IsFreeList(s) => FreeSeq = s)'
  PROVE  Stack!Take \/ Stack!Refuse
<1>1. PICK s \in Seq(Frames) : IsFreeList(s)
  BY DEF IInv, ListInv
<1>2. FreeSeq = s
  BY <1>1, FreeSeqIsList
<1>3. /\ \/ /\ freelist = NULL /\ s = <<>> /\ held' = held
            /\ IsFreeList(s)'
         \/ /\ freelist \in Free /\ s # <<>> /\ freelist = Head(s)
            /\ held' = held \union {freelist}
            /\ IsFreeList(Tail(s))' /\ Tail(s) \in Seq(Frames)
      /\ ret' = freelist
  BY <1>1, PopStep
<1>4. CASE freelist = NULL /\ s = <<>> /\ held' = held /\ IsFreeList(s)'
  <2>1. FreeSeq' = s
    BY <1>4
  <2>2. QED
    BY <1>2, <1>3, <1>4, <2>1 DEF Stack!Refuse
<1>5. CASE /\ freelist \in Free /\ s # <<>> /\ freelist = Head(s)
           /\ held' = held \union {freelist}
           /\ IsFreeList(Tail(s))' /\ Tail(s) \in Seq(Frames)
  <2>1. FreeSeq' = Tail(s)
    BY <1>5
  <2>2. QED
    BY <1>2, <1>3, <1>5, <2>1 DEF Stack!Take
<1>6. QED
  BY <1>3, <1>4, <1>5

(* Each step of the allocator pushes a page, pops one, or is none of       *)
(* PageStack's.                                                            *)
LEMMA NextRefines ==
  ASSUME IInv, [Next]_vars,
         (\A s \in Seq(Frames) : IsFreeList(s) => FreeSeq = s)'
  PROVE  [Stack!Next]_(Stack!absVars)
<1>1. PICK s \in Seq(Frames) : IsFreeList(s)
  BY DEF IInv, ListInv
<1>2. FreeSeq = s /\ Stack!OnStack = Free
  BY <1>1, FreeSeqIsList, StackHoldsFree
<1>3. CASE FreeRangeStep
  <2>1. PICK f \in Frames \ (Free \union held) :
          <<f>> \o s \in Seq(Frames) /\ IsFreeList(<<f>> \o s)'
    BY <1>1, <1>3, DonateStep
  <2>2. FreeSeq' = <<f>> \o s
    BY <2>1
  <2>3. Stack!Donate(f)
    BY <1>2, <1>3, <2>1, <2>2 DEF Stack!Donate, FreeRangeStep
  <2>4. QED
    BY <2>3 DEF Stack!Next
<1>4. CASE Pnew
  <2>1. \A g \in Free \ {freelist} : mem'[g] = mem[g]
    BY <1>4 DEF Pnew, MemAfterNew, IInv, TypeOK
  <2>2. Stack!Take \/ Stack!Refuse
    BY <1>4, <2>1, PopRefines DEF Pnew
  <2>3. QED
    BY <2>2 DEF Stack!Next
<1>5. ASSUME NEW f \in held, Pfree(f)
      PROVE  Stack!Next
  <2>1. f \in Frames /\ <<f>> \o s \in Seq(Frames) /\ IsFreeList(<<f>> \o s)'
    BY <1>1, <1>5, PfreeStep
  <2>2. FreeSeq' = <<f>> \o s
    BY <2>1
  <2>3. Stack!Return(f)
    BY <1>2, <1>5, <2>2 DEF Stack!Return, Pfree
  <2>4. QED
    BY <2>1, <2>3 DEF Stack!Next
<1>6. ASSUME FreeRangeEnd \/ UNCHANGED vars
             \/ \E f \in held, g \in STORED : ClientStore(f, g)
      PROVE  UNCHANGED Stack!absVars
  <2>1. UNCHANGED <<freelist, mem_end, p, held, ret>>
    BY <1>6 DEF FreeRangeEnd, vars, ClientStore
  <2>2. \A f \in Free : mem'[f] = mem[f]
    BY <1>6 DEF FreeRangeEnd, vars, ClientStore, Free, Donated, Pool, IInv, TypeOK
  <2>3. IsFreeList(s)'
    <3>1. Free' = Free
      BY <2>1 DEF Free, Donated, Pool
    <3>2. QED
      BY <1>1, <2>1, <2>2, <3>1, KeepList
  <2>4. FreeSeq' = s
    BY <2>3
  <2>5. QED
    BY <1>2, <2>1, <2>4 DEF Stack!absVars
<1>7. QED
  BY <1>3, <1>4, <1>5, <1>6 DEF Next

(* IsPageStack: clients of the allocator see a stack of pages: a request   *)
(* takes the page freed last, is refused exactly when no page is free, and *)
(* whatever clients store in their pages changes nothing of it.            *)
THEOREM IsPageStack == Spec => ImplementsPageStack
<1>1. \A s \in Seq(Frames) : IsFreeList(s) => FreeSeq = s
  BY FreeSeqIsList
<1>2. IInv /\ [Next]_vars /\ (\A s \in Seq(Frames) : IsFreeList(s) => FreeSeq = s)'
        => [Stack!Next]_(Stack!absVars)
  BY NextRefines
<1>3. QED
  BY <1>1, <1>2, InitRefines, Invariance, PTL
  DEF Spec, ImplementsPageStack, Stack!Spec

=============================================================================
