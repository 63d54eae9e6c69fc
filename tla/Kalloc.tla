------------------------------- MODULE Kalloc -------------------------------
(***************************************************************************)
(* The physical page allocator, kern/kalloc.c.                             *)
(*                                                                         *)
(* g_alloc_mem.freelist heads a singly linked list threaded through the    *)
(* free pages themselves: word 0 of a free page is its `next' link.        *)
(* pz_alloc_init builds the list page by page (free_range), after which    *)
(* clients take pages (pz_alloc_pnew), write into the pages they hold, and *)
(* give them back (pz_alloc_pfree).                                        *)
(***************************************************************************)
EXTENDS Memory, Sequences, FiniteSets

CONSTANTS
  MEM_SIZE,    \* PZ_MEM_SIZE, bytes
  MEM_ENDS,    \* the addresses the linker may give the symbol _mem_end
  STORED       \* the frames whose address a client may store in its page

(* The board has RAM for every window pz_alloc_init hands over.            *)
ASSUME LayoutAssumption ==
  /\ MEM_SIZE \in Nat \ {0}
  /\ MEM_ENDS \subseteq Nat
  /\ \A e \in MEM_ENDS : /\ e > PAGESZ
                         /\ e + MEM_SIZE <= (RAM_TOP + 1) * PAGESZ

ASSUME StoredAssumption == STORED \subseteq Frames

VARIABLES
  mem_end,     \* the linker symbol _mem_end, fixed for a boot
  freelist,    \* g_alloc_mem.freelist
  mem,         \* contents of RAM
  phase,       \* "free_range" while pz_alloc_init runs, then "ready"
  p,           \* free_range's local p, a byte address
  held,        \* pages the clients hold
  ret          \* what the last pz_alloc_pnew returned

vars == <<mem_end, freelist, mem, phase, p, held, ret>>

(* The pages wholly inside [_mem_end, _mem_end + PZ_MEM_SIZE).             *)
Pool == {f \in Frames : /\ mem_end <= f * PAGESZ
                        /\ (f + 1) * PAGESZ <= mem_end + MEM_SIZE}

(* The pages of the pool that free_range has handed over so far.           *)
Donated == {f \in Pool : f * PAGESZ < p}

Free == Donated \ held

-----------------------------------------------------------------------------
(* Operations, as the values they leave in freelist and mem.               *)

(* Bugs the runs find: the fill wipes the link that was just stored, or    *)
(* goes on into the next page.                                             *)
MemAfterFreeLinkFirst(f) == [mem EXCEPT ![f] = Filled(JunkBB)]
MemAfterFreeTwoPages(f) ==
  [g \in Frames |->
     IF g = f THEN [Filled(JunkBB) EXCEPT ![0] = Ptr(freelist)]
     ELSE IF g = f + 1 THEN Filled(JunkBB) ELSE mem[g]]

(* pz_alloc_pfree(pa): memset to 0xbb, then push.                          *)
MemAfterFree(f) ==
  [mem EXCEPT ![f] = [Filled(JunkBB) EXCEPT ![0] = Ptr(freelist)]]

(* A bug MCKalloc finds: the link is read after the page is filled.        *)
HeadAfterNewReadLate ==
  IF freelist = NULL THEN NULL ELSE Deref(JunkEE)

(* pz_alloc_pnew(): pop, then memset to 0xee; nothing when the list is     *)
(* empty.                                                                  *)
HeadAfterNew ==
  IF freelist = NULL THEN NULL ELSE Deref(mem[freelist][0])

MemAfterNew ==
  IF freelist = NULL THEN mem
  ELSE [mem EXCEPT ![freelist] = Filled(JunkEE)]

(* Bugs the runs find: the head is not advanced; the new head is returned  *)
(* in place of the page that was popped.                                   *)
PopFreelistKeepsHead ==
  /\ ret' = freelist
  /\ freelist' = freelist
  /\ held' = held \union ({freelist} \ {NULL})

PopFreelistNewHead ==
  /\ ret' = HeadAfterNew
  /\ freelist' = HeadAfterNew
  /\ held' = held \union ({ret'} \ {NULL})

PopFreelist ==
  /\ ret' = freelist
  /\ freelist' = HeadAfterNew
  /\ held' = held \union ({freelist} \ {NULL})

-----------------------------------------------------------------------------
(* .bss is cleared, so the list starts empty; RAM holds leftovers.         *)
Init ==
  /\ mem_end \in MEM_ENDS
  /\ freelist = NULL
  /\ \E w \in {Ptr(NULL), JunkBB} : mem = [f \in Frames |-> Filled(w)]
  /\ phase = "free_range"
  /\ p = RoundUp(mem_end, PAGESZ)
  /\ held = {}
  /\ ret = NULL

(* A bug MCKalloc finds: p stays where it is.                              *)
FreeRangeStepStays ==
  /\ phase = "free_range"
  /\ p + PAGESZ <= mem_end + MEM_SIZE
  /\ freelist' = FrameOf(p)
  /\ mem' = MemAfterFree(FrameOf(p))
  /\ UNCHANGED <<mem_end, phase, p, held, ret>>

(* One turn of free_range's loop.                                          *)
FreeRangeStep ==
  /\ phase = "free_range"
  /\ p + PAGESZ <= mem_end + MEM_SIZE
  /\ freelist' = FrameOf(p)
  /\ mem' = MemAfterFree(FrameOf(p))
  /\ p' = p + PAGESZ
  /\ UNCHANGED <<mem_end, phase, held, ret>>

FreeRangeEnd ==
  /\ phase = "free_range"
  /\ p + PAGESZ > mem_end + MEM_SIZE
  /\ phase' = "ready"
  /\ UNCHANGED <<mem_end, freelist, mem, p, held, ret>>

(* A client calls pz_alloc_pnew.                                           *)
Pnew ==
  /\ phase = "ready"
  /\ PopFreelist
  /\ mem' = MemAfterNew
  /\ UNCHANGED <<mem_end, phase, p>>

(* A client gives back a page it holds.                                    *)
Pfree(f) ==
  /\ phase = "ready"
  /\ f \in held
  /\ freelist' = f
  /\ mem' = MemAfterFree(f)
  /\ held' = held \ {f}
  /\ UNCHANGED <<mem_end, phase, p, ret>>

(* A client stores a pointer to a page in the word of its page that the    *)
(* allocator will use as the link.                                         *)
ClientStore(f, g) ==
  /\ phase = "ready"
  /\ f \in held
  /\ mem' = [mem EXCEPT ![f][0] = Ptr(g)]
  /\ UNCHANGED <<mem_end, freelist, phase, p, held, ret>>

Boot == FreeRangeStep \/ FreeRangeEnd

Next ==
  \/ FreeRangeStep
  \/ FreeRangeEnd
  \/ Pnew
  \/ \E f \in held : Pfree(f)
  \/ \E f \in held, g \in STORED : ClientStore(f, g)

(* The boot code runs on: nothing preempts it.  Clients need not call.     *)
Spec == Init /\ [][Next]_vars /\ WF_vars(Boot)

-----------------------------------------------------------------------------
(* The types of the variables.                                             *)
TypeOK ==
  /\ mem_end \in MEM_ENDS
  /\ freelist \in Frames \union {NULL}
  /\ mem \in [Frames -> Page]
  /\ phase \in {"free_range", "ready"}
  /\ p \in Nat
  /\ held \subseteq Frames
  /\ ret \in Frames \union {NULL}

(* s is the free list: the links lead from the head through s to NULL, no  *)
(* page is on it twice, and its pages are exactly the free ones.           *)
IsFreeList(s) ==
  /\ freelist = IF Len(s) = 0 THEN NULL ELSE s[1]
  /\ \A i \in 1..Len(s) :
       Deref(mem[s[i]][0]) = IF i = Len(s) THEN NULL ELSE s[i + 1]
  /\ \A i, j \in 1..Len(s) : s[i] = s[j] => i = j
  /\ {s[i] : i \in 1..Len(s)} = Free

-----------------------------------------------------------------------------
(* Following the links from the head: at most one page more than RAM has,  *)
(* so that a cycle is seen as a list too long to be one.                   *)
FollowBound == RAM_TOP + 1

Follow[i \in 0..FollowBound] ==
  IF i = 0 THEN freelist
  ELSE LET f == Follow[i - 1]
       IN  IF f \in Frames THEN Deref(mem[f][0]) ELSE NULL

FreeSeq ==
  LET n == Cardinality({i \in 0..FollowBound : Follow[i] \in Frames})
  IN  [i \in 1..n |-> Follow[i - 1]]

(* FreeListSound: the chain of links in the free pages is a finite list    *)
(* with no page twice, holding exactly the pages that were donated and are *)
(* not in a client's hands: none leaked, none both free and held.          *)
FreeListSound == IsFreeList(FreeSeq)

(* HeadIsFree: the page pz_alloc_pnew is about to return is one nobody     *)
(* holds, and it returns NULL only when every donated page is held.        *)
HeadIsFree ==
  IF freelist = NULL THEN Free = {} ELSE freelist \in Free

(* PoolComplete: when pz_alloc_init is done it has donated every page that *)
(* fits the window after the image and none that overlaps the image, for   *)
(* page-aligned and unaligned _mem_end alike.                              *)
PoolComplete ==
  phase = "ready" => /\ Donated = Pool
                     /\ {FreeSeq[i] : i \in 1..Len(FreeSeq)} \subseteq Pool

(* HeldUntouched: neither call writes into a page that some other client   *)
(* holds: the only pages a step changes are the page pz_alloc_pnew returns *)
(* (memset 0xee), the page pz_alloc_pfree takes (0xbb and the link), and   *)
(* the page a client itself writes.                                        *)
HeldUntouched ==
  [][\A f \in held \intersect held' :
       mem'[f] # mem[f] => freelist' = freelist /\ held' = held]_vars

(* InitFinishes: pz_alloc_init's loop ends.                                *)
InitFinishes == <>(phase = "ready")

Stack == INSTANCE PageStack WITH
  Pages <- Frames, NoPage <- NULL,
  stack <- FreeSeq, out <- held, got <- ret

(* ImplementsPageStack: clients see a stack of pages.                      *)
ImplementsPageStack == Stack!Spec

=============================================================================
