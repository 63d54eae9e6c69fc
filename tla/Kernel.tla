-------------------------------- MODULE Kernel ------------------------------
(***************************************************************************)
(* The boot of the kernel from _start to the shutdown call, start.S and    *)
(* kern/init.c: the stack, .bss, the allocator (Kalloc), the page table    *)
(* (Mm), the switch to virtual addresses, and pz_umain, the program linked *)
(* to the kernel, which from then on uses the allocator and the console    *)
(* devices with the MMU on.                                                *)
(***************************************************************************)
EXTENDS MmLinked, SequencesExt

CONSTANTS
  MAXCPU,      \* PZ_MAXCPU
  IMAGES,      \* layouts the linker may produce
  STACK_USE,   \* bytes of stack the deepest call chain takes
  UART0        \* the page of the UART's registers

(* The order of the symbols in linker.ld: g_stacks is in .bss, _mem_end    *)
(* last.  text_end is after PZ_MEM_START unless the image was written to   *)
(* another address than the one it is linked for.  `shared' says whether   *)
(* g_alloc_mem and g_kvm are in .sbss, the 16 bytes right below g_stacks,  *)
(* or in .bss behind it: the compiler's choice (its small-data limit).     *)
ASSUME ImageAssumption ==
  /\ MAXCPU \in Nat \ {0}
  /\ STACK_USE \in Nat
  /\ \A im \in IMAGES :
       /\ im.text_end \in TEXT_ENDS
       /\ im.mem_end \in MEM_ENDS
       /\ im.text_end % PAGESZ = 0
       /\ im.shared \in BOOLEAN
       /\ im.g_stacks \in Nat /\ im.text_end <= im.g_stacks
       /\ im.g_stacks + PAGESZ * MAXCPU <= im.mem_end
       /\ im.mem_end < MEM_START + MEM_SIZE

(* RAM lies in the half of the address space that map accepts.             *)
ASSUME RamMappable == (RAM_TOP + 1) * PAGESZ <= MAX_VA

ASSUME UartAssumption == UART0 \in Nat \ Frames

VARIABLES
  image,       \* the layout of this boot
  hart,        \* the hart the firmware enters the kernel on, register a0
  sp,          \* the stack pointer at pz_start_kern
  satp,        \* the root table the MMU translates with, NULL while it is off
  left,        \* what is in g_alloc_mem and g_kvm where no page is
  kpc,         \* where the boot is
  log          \* the kernel's messages that the firmware has printed

board == <<image, hart>>
kernelVars == <<board, sp, satp, left, kpc, log>>
everything == <<allVars, kernelVars>>

(* freelist and ptbl are the pages that g_alloc_mem and g_kvm point to, or *)
(* NULL; `left' tells the word that is there when they point to no page.   *)
(* The first page to be freed links to that word, so the list ends in it.  *)
ListHead == IF freelist = NULL THEN left.freelist ELSE freelist
KernelTable == IF ptbl = NULL THEN left.ptbl ELSE ptbl

-----------------------------------------------------------------------------
(* The page v is mapped with permission r.  map leaves the accessed and    *)
(* dirty bits of its entries 0: the MMU is assumed to set them itself, as  *)
(* the architecture allows; one that faults instead stops every boot at    *)
(* the write to satp.                                                      *)
Permits(v, r) == {"V", r} \subseteq Translate(v * PAGESZ).flags

(* The stack, which grows down from g_stacks into what the linker put      *)
(* there, stays off the text.  No code checks it: it depends on the size   *)
(* of .rodata, .data and .bss and on the hart.                             *)
StackFits == image.text_end + STACK_USE <= image.g_stacks + hart

(* After the write to satp the instruction fetch, every access to data and *)
(* the stack go through the table.                                         *)
Alive ==
  /\ sp - STACK_USE >= image.text_end
  /\ \A v \in Frames :
       LET a == v * PAGESZ
       IN  /\ MEM_START <= a /\ a < image.text_end => Permits(v, "X")
           /\ image.text_end <= a /\ a < image.mem_end => Permits(v, "W")

Tables == Roots \union Mids \union Leaves

(* The pages pz_umain got and has not given back.                          *)
UserPages == held \ Tables

-----------------------------------------------------------------------------
(* The firmware jumps to _start with RAM, .bss included, as it was.        *)
KernelInit ==
  /\ image \in IMAGES
  /\ mem_end = image.mem_end /\ text_end = image.text_end
  /\ hart \in 0..MAXCPU-1
  /\ freelist = NULL /\ ptbl = NULL
  /\ left = [freelist |-> WILD, ptbl |-> WILD]
  /\ mem = [f \in Frames |-> Filled(JunkBB)]
  /\ phase = "free_range" /\ p = RoundUp(mem_end, PAGESZ)
  /\ held = {} /\ ret = NULL
  /\ mpc = "mm_init" /\ seg = 1
  /\ var = 0 /\ last = 0 /\ pa = 0
  /\ lvl = 2 /\ tbl = NULL
  /\ sp = 0
  /\ satp = NULL
  /\ kpc = "start"
  /\ log = <<>>

(* _start: t0 = PZ_PAGESZ * (a6 + 1) is computed and left unused.          *)
SetupStack ==
  /\ kpc = "start"
  /\ sp' = image.g_stacks + hart
  /\ kpc' = "clear_bss"
  /\ UNCHANGED <<allVars, board, satp, left, log>>

(* What .bss holds of the allocator and of mm.c.                           *)
LeaveInBss(heads, tables) == left' \in [freelist : heads, ptbl : tables]

(* printf: every character goes to the firmware's put-character call,      *)
(* which works with the MMU on and off.                                    *)
Say(messages) == log' = log \o messages

(* A bug MCKernel finds: .bss stays as it was at power-on.                 *)
ClearBssSkipped ==
  /\ kpc = "clear_bss"
  /\ kpc' = "start_kern"
  /\ UNCHANGED <<allVars, board, sp, satp, left, log>>

ClearBss ==
  /\ kpc = "clear_bss"
  /\ LeaveInBss({NULL}, {NULL})
  /\ kpc' = "start_kern"
  /\ UNCHANGED <<allVars, board, sp, satp, log>>

(* pz_start_kern saves two registers in the 16 bytes below sp, which are   *)
(* g_alloc_mem and g_kvm where these are in .sbss.  It never returns, so   *)
(* that nobody reads the registers back.  It prints, and so does           *)
(* pz_start_kern_vm before it calls the allocator.                         *)
StartKern ==
  /\ kpc = "start_kern"
  /\ IF image.shared THEN LeaveInBss({NULL, WILD}, {NULL, WILD})
     ELSE UNCHANGED left
  /\ Say(<<"loading", "allocator">>)
  /\ kpc' = "alloc_init"
  /\ UNCHANGED <<allVars, board, sp, satp>>

(* pz_alloc_init, and the next message.                                    *)
AllocInit ==
  /\ kpc = "alloc_init"
  /\ Boot
  /\ IF phase' = "ready"
     THEN kpc' = "mm_init" /\ Say(<<"vm">>)
     ELSE UNCHANGED <<kpc, log>>
  /\ UNCHANGED <<mmVars, board, sp, satp, left>>

(* pz_mm_init takes the word past the end of the list for a page.          *)
WildPage ==
  /\ ListHead = WILD
  /\ mpc = "mm_init" \/ (InWalk /\ lvl > 0 /\ ~Valid(Entry))

PzMmInit ==
  /\ kpc = "mm_init"
  /\ ~WildPage
  /\ MmStep
  /\ kpc' = IF mpc' = "mapped" THEN "init_cpu"
            ELSE IF mpc' \in {"panic", "trap"} THEN mpc' ELSE kpc
  /\ UNCHANGED <<board, sp, satp, left, log>>

PzMmInitWild ==
  /\ kpc = "mm_init"
  /\ WildPage
  /\ kpc' = "trap"
  /\ UNCHANGED <<allVars, board, sp, satp, left, log>>

(* pz_mm_init_cpu: sfence.vma, csrw satp, sfence.vma.                      *)
MmInitCpu ==
  /\ kpc = "init_cpu"
  /\ satp' = KernelTable
  /\ kpc' = IF Alive THEN "start_init" ELSE "trap"
  /\ UNCHANGED <<allVars, board, sp, left, log>>

(* pz_sch_init is empty; pz_init calls pz_umain.                           *)
StartInit ==
  /\ kpc = "start_init"
  /\ Say(<<"scheduler", "init">>)
  /\ kpc' = "umain"
  /\ UNCHANGED <<allVars, board, sp, satp, left>>

-----------------------------------------------------------------------------
(* pz_umain calls pz_alloc_pnew: it reads the head's link and fills the    *)
(* page through the MMU, and faults where the page is not mapped writable. *)
UmainPnew ==
  /\ kpc = "umain"
  /\ IF ListHead = NULL \/ (ListHead \in Frames /\ Permits(ListHead, "W"))
     THEN Pnew /\ kpc' = kpc
     ELSE kpc' = "trap" /\ UNCHANGED vars
  /\ UNCHANGED <<mmVars, board, sp, satp, left, log>>

(* pz_umain gives back one of its pages.                                   *)
UmainPfree(f) ==
  /\ kpc = "umain" /\ f \in UserPages
  /\ IF Permits(f, "W")
     THEN Pfree(f) /\ kpc' = kpc
     ELSE kpc' = "trap" /\ UNCHANGED vars
  /\ UNCHANGED <<mmVars, board, sp, satp, left, log>>

(* pz_umain writes into one of its pages.                                  *)
UmainStore(f, g) ==
  /\ kpc = "umain" /\ f \in UserPages
  /\ ClientStore(f, g)
  /\ UNCHANGED <<mmVars, kernelVars>>

(* pz_sys_uart_putc stores to the device's register.                       *)
UartPutcWorks == Permits(UART0, "W")

(* pz_umain calls pz_sys_uart_puts with some text.                         *)
UmainUartPuts ==
  /\ kpc = "umain"
  /\ kpc' = IF UartPutcWorks THEN kpc ELSE "uart_fault"
  /\ UNCHANGED <<allVars, board, sp, satp, left, log>>

UmainReturn ==
  /\ kpc = "umain"
  /\ kpc' = "returned"
  /\ Say(<<"returned">>)
  /\ UNCHANGED <<allVars, board, sp, satp, left>>

(* Where pz_shutdown is called.                                            *)
ShutsDown == {"returned", "panic"}

(* The firmware's shutdown call does not come back.                        *)
SbiShutdown == kpc' = "off"

(* pz_panic prints and calls pz_shutdown, as pz_init does in the end;      *)
(* pz_shutdown prints, too.                                                *)
Shutdown ==
  /\ kpc \in ShutsDown
  /\ Say(IF kpc = "panic" THEN <<"panic", "shutdown">> ELSE <<"shutdown">>)
  /\ SbiShutdown
  /\ UNCHANGED <<allVars, board, sp, satp, left>>

Kern ==
  \/ SetupStack \/ ClearBss \/ StartKern \/ AllocInit
  \/ PzMmInit \/ PzMmInitWild \/ MmInitCpu \/ StartInit \/ Shutdown

Umain ==
  \/ UmainPnew
  \/ \E f \in held : UmainPfree(f)
  \/ \E f \in held, g \in STORED : UmainStore(f, g)
  \/ UmainUartPuts
  \/ UmainReturn

KernelNext == Kern \/ Umain

(* The kernel's own code runs on; pz_umain may run for ever.               *)
KernelSpec ==
  KernelInit /\ [][KernelNext]_everything /\ WF_everything(Kern)

-----------------------------------------------------------------------------
(* The types of the variables.                                             *)
KernelTypeOK ==
  /\ image \in IMAGES
  /\ freelist \in Frames \union {NULL}
  /\ left \in [freelist : {NULL, WILD}, ptbl : {NULL, WILD}]
  /\ ptbl \in Frames \union {NULL}
  /\ satp \in Frames \union {NULL}
  /\ tbl \in Frames \union {NULL}
  /\ held \subseteq Frames
  /\ kpc \in {"start", "clear_bss", "start_kern", "alloc_init", "mm_init",
              "init_cpu", "start_init", "umain", "returned", "panic", "off",
              "trap", "uart_fault"}

(* TrapOnlyForLargeImages: the pool ends an image's length beyond the last *)
(* mapped page.  The free list hands those pages out first, so the tables  *)
(* take them; pz_umain's calls fault only when the image has more pages    *)
(* than the tables took, or when the list has run out in a build that      *)
(* keeps its head under pz_start_kern's frame.  Nothing else in the boot   *)
(* faults, whichever hart and layout, but for a stack that reaches down    *)
(* into the text.                                                          *)
TrapOnlyForLargeImages ==
  kpc = "trap" =>
    \/ mem_end - MEM_START > PAGESZ * Cardinality(Tables)
    \/ image.shared /\ Free = {}
    \/ ~StackFits

(* OnlyFreePagesOut: whatever RAM held at power-on and the stack left in   *)
(* g_alloc_mem, the page that pz_alloc_pnew hands out next is a page of    *)
(* the pool nobody holds, and when there is none the list ends in NULL,    *)
(* but for a build that keeps its head under pz_start_kern's frame.        *)
OnlyFreePagesOut ==
  kpc \in {"mm_init", "init_cpu", "start_init", "umain", "returned"} =>
    IF Free # {} THEN ListHead \in Free
    ELSE ListHead = NULL \/ (image.shared /\ ListHead = WILD)

(* ConsoleTellsOutcome: after a shutdown the console shows one of two      *)
(* texts: that of a complete boot, if the image was where it is linked     *)
(* for, or that of a panic while the page table was built, if it was not.  *)
(* A machine that hangs does so before the MMU is on or in the program,    *)
(* and the last message tells which; with a stack that reaches the text it *)
(* does so at the switch at the latest.                                    *)
ConsoleTellsOutcome ==
  LET booting == <<"loading", "allocator", "vm">>
      linked == image.text_end > MEM_START
  IN  /\ kpc = "off" =>
           log = booting \o
                 (IF linked
                  THEN <<"scheduler", "init", "returned", "shutdown">>
                  ELSE <<"panic", "shutdown">>)
      /\ kpc \in {"trap", "uart_fault"} =>
           Last(log) = (IF satp = NULL \/ ~StackFits THEN "vm" ELSE "init")

-----------------------------------------------------------------------------
(* What the program sees.                                                  *)
Stage ==
  CASE kpc \in {"start_init", "umain"} -> "run"
    [] kpc \in {"returned", "panic"} -> "stopped"
    [] kpc = "off" -> "off"
    [] kpc \in {"trap", "uart_fault"} -> "hung"
    [] OTHER -> "boot"
WhenRun(x, none) == IF Stage = "run" THEN x ELSE none
ImagePages ==
  {f \in Frames : MEM_START < (f + 1) * PAGESZ /\ f * PAGESZ < mem_end}

View == INSTANCE UserView WITH
  Pages <- Frames, wanted <- Wanted, stage <- Stage,
  space <- WhenRun(Space, [v \in {} |-> v]),
  kept <- WhenRun(ImagePages \union Tables, {}),
  mine <- WhenRun(UserPages, {})

(* ImplementsUserView: the program is entered with the whole address space *)
(* in place; every page pz_alloc_pnew gives it is mapped writable onto     *)
(* itself, is no page of the image, of the tables or of its own; and none  *)
(* of its allocations, stores and frees changes a table or the mapping.    *)
ImplementsUserView == View!Spec

(* ReachesUmain: an image loaded where it is linked for gets to pz_umain   *)
(* with the MMU on, whichever hart boots and whatever the stack holds, as  *)
(* long as it stays off the text.                                          *)
ReachesUmain ==
  kpc = "start" /\ image.text_end > MEM_START /\ StackFits
    ~> kpc = "umain" /\ satp # NULL

(* RunsOrPowersOff: no boot is for ever on its way.  An image loaded where *)
(* it is linked for stays in its program, traps or ends powered off; any   *)
(* other, whatever the wrapped size makes of the page table, is powered    *)
(* off by a panic, unless the list ends under pz_start_kern's frame: then  *)
(* it may trap.                                                            *)
RunsOrPowersOff ==
  []<>(\/ kpc = "off"
       \/ image.text_end > MEM_START /\ kpc \in {"umain", "uart_fault", "trap"}
       \/ image.text_end <= MEM_START /\ image.shared /\ kpc = "trap")

-----------------------------------------------------------------------------
(* StackAsDocumented: start.S says that a hart's stack pointer is set to   *)
(* g_stacks + (mhardid * PZ_PAGESZ).                                       *)
StackAsDocumented ==
  kpc \notin {"start"} => sp = image.g_stacks + hart * PAGESZ

(* FelBootRuns: the Makefile says that the address it writes the image to  *)
(* should be PZ_MEM_START, so that the image runs where it is linked for   *)
(* and the boot gets to pz_umain.                                          *)
FelBootRuns == <>(kpc = "umain")

(* FreedInsideMemory: the assertion commented out in pz_alloc_pfree: the   *)
(* page given to it is a page behind the kernel image and within the       *)
(* PZ_MEM_SIZE bytes of memory the kernel manages and maps.                *)
FreedInsideMemory ==
  \A f \in Free : /\ f * PAGESZ >= mem_end
                  /\ f * PAGESZ < MEM_START + MEM_SIZE

=============================================================================
