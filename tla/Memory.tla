------------------------------- MODULE Memory -------------------------------
(***************************************************************************)
(* Physical memory of the board as the kernel sees it before and after the *)
(* MMU is on: page frames made of 64-bit words.                            *)
(*                                                                         *)
(* A page frame is named by its frame number (address / PAGESZ), an        *)
(* address is a natural number of bytes.  The same word of a page is the   *)
(* `next' link of struct alloc_cb while the page is free and entry 0 of a  *)
(* page table while it is one, so a word is kept as a tagged value that    *)
(* both readings are defined on.                                           *)
(***************************************************************************)
EXTENDS Integers

CONSTANTS
  PAGESZ,      \* bytes in a page (4096)
  ENTRIES,     \* words in a page = entries in a page table (512)
  RAM_TOP      \* the last frame of the board's RAM

ASSUME PageAssumption == PAGESZ \in Nat \ {0}
ASSUME EntriesAssumption == ENTRIES \in Nat \ {0}
ASSUME RamAssumption == RAM_TOP \in Nat \ {0}

(* NULL is address 0: the frame number 0, and no page of RAM.              *)
NULL == 0
Frames == 1..RAM_TOP
Slots == 0..ENTRIES-1

(* What a word that holds no pointer gives when it is dereferenced.        *)
WILD == -1

-----------------------------------------------------------------------------
(* A bug MCKalloc and MCKernel find: the first page overlaps the image.    *)
RoundUpTooLow(a, to) == (a \div to) * to

(* PZ_ROUNDUP and PZ_ROUNDDOWN.                                            *)
RoundUp(a, to) == ((a - 1) \div to + 1) * to
RoundDown(a, to) == (a \div to) * to

(* The frame an address lies in.                                           *)
FrameOf(a) == a \div PAGESZ

-----------------------------------------------------------------------------
(* Words.  "V", "R", "W", "X" are the PTE bits PZ_ARCH_MM_PAGE_*.  An      *)
(* entry can name any frame, one where there is no RAM included.           *)
Flags == {"V", "R", "W", "X"}

Word == [kind : {"ptr", "pte", "junk"}, frame : Nat, flags : SUBSET Flags]

(* A page-aligned pointer has none of the low bits set; NULL is the        *)
(* all-zero word.                                                          *)
Ptr(f) == [kind |-> "ptr", frame |-> f, flags |-> {}]

(* PZ_ARCH_MM_PA2PTE(pa) | perm | PTE_V                                    *)
Pte(f, fl) == [kind |-> "pte", frame |-> f, flags |-> fl]

(* Eight bytes 0xee (1110 1110) and 0xbb (1011 1011), read as a PTE.       *)
JunkEE == [kind |-> "junk", frame |-> NULL, flags |-> {"R", "W", "X"}]
JunkBB == [kind |-> "junk", frame |-> NULL, flags |-> {"V", "R", "X"}]

(* The word read as a pointer to a page.                                   *)
Deref(w) == IF w.kind = "ptr" THEN w.frame ELSE WILD

Page == [Slots -> Word]

(* memset(page, byte, PZ_PAGESZ), the byte named by the word it makes.     *)
Filled(w) == [i \in Slots |-> w]

=============================================================================
