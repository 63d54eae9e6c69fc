# A verification of pozOS

pozOS is a small RISC-V kernel in C that is linked with one program, boots on
top of the SBI firmware in supervisor mode, builds a page table, switches the
MMU on and calls the program, `pz_umain`. This directory holds TLA+ models of
it, the TLC runs that check them and the proofs TLAPS checks. Paths are
relative to the repository.

    tlc -config MCKalloc.cfg MCKalloc      # one run
    tlapm UserViewProofs.tla               # the proofs of one module

## 1. The system

### Components

| component | source | state | operations |
|---|---|---|---|
| boot | `kern/arch/riscv64/start.S`, `kern/init.c`, `linker.ld` | `sp`, program counter | `_start`, `_clear_bss`, `pz_start_kern`, `pz_init`, `pz_panic`, `pz_shutdown` |
| page allocator | `kern/kalloc.c`, `kern/string.c` | `g_alloc_mem.freelist`, and a link in word 0 of each free page | `pz_alloc_init` (`free_range`), `pz_alloc_pnew`, `pz_alloc_pfree` |
| page table | `kern/mm.c`, `kern/arch/riscv64/mm.c` | `g_kvm.ptbl`, the tables in memory, `satp` | `pz_mm_init` (`kmap`, `map`, `walk`), `pz_mm_init_cpu` |
| formatter | `kern/printf.c` | all on the stack: the digit buffer, `idx` | `printf`, `snprintf`, `vprintf`, `vsnprintf`, `fctprintf` |
| console, SBI | `kern/console.c`, `arch/riscv64/console.c`, `sbi.h` | none | `_putchar`, the firmware's put-character and shutdown calls |
| UART | `kern/uart.c` | device registers | `pz_sys_uart_putc`, `pz_sys_uart_puts`: called by nobody, a program may |
| scheduler | `kern/sched.c` | none | `pz_sch_init`, empty |
| earlier memory manager | `.old/mm.c` | | in no build |
| program | `examples/hello/main.c` | its own | `pz_umain`: prints; may use the allocator |
| build and run | `Makefile`, `CMakeLists.txt`, `toolchain.cmake`, `tools/qemu-run.sh` | the load and link addresses | |

### How they interact

Everything is direct calls on one hart; interrupts stay off and there is no
second hart, which is why the models have one thread of control. The
components interact through *memory*. The allocator's links, the page tables
and the program's data are the same words of the same pages at different
times: a page is filler and a link while free, `0xee` filler when handed out,
zeros and then entries when it becomes a table. And the linker, not the code,
decides what is next to what: `_mem_end` is where the pool starts, and
`g_stacks` has `.sbss` (where the compiler may put `g_alloc_mem` and `g_kvm`)
or `.data` right below it.

### What is hard

* *Intrusive state.* The list lives in pages that clients overwrite. Order
  matters inside each call: `pz_alloc_pnew` must read the link before it
  fills the page, `pz_alloc_pfree` must fill before it links.
* *Boundaries.* Rounding of an unaligned `_mem_end`; the loop bound
  `p + PZ_PAGESZ <= pa_end`; the last page of a range, `va + sz - 1`;
  `_text_end - PZ_MEM_START`, unsigned, which wraps when the image is not
  where it is linked for (`Makefile:12` writes it to `0x80000000`,
  `toolchain.cmake:6` links it for `0x84000000`).
* *Partial failure.* `walk` can run out of pages halfway down. The root page
  is not checked at all.
* *Two windows.* The pool is `[_mem_end, _mem_end + PZ_MEM_SIZE)`, the mapped
  range `[PZ_MEM_START, PZ_MEM_START + PZ_MEM_SIZE)`: the pool ends an image's
  length beyond what is mapped, and the list hands out that end first.
* *The stack* starts at `g_stacks` and grows down out of it.
* *Formatting.* Digits, precision zeros, width zeros, prefix and sign are
  appended to a 32-byte buffer by five pieces of code, each with its own bound.
* *Scanning.* The fields of a conversion specification have no separators: each
  ends where the next begins. Arguments are taken one by one with no check, so
  a field read wrong shifts all that follow. The terminating NUL is met by the
  outer loop only; a format that ends inside a specification is read on.

`PROJECT.json` lists the hazards line by line with the properties that would
catch them.

### What makes each component correct

* allocator: the chain of links is exactly the list of free pages, at all
  times; no page is handed out twice; NULL exactly when nothing is free; no
  call touches a page in somebody's hands; `pz_alloc_init` donates exactly the
  whole pages of its window.
* page table: the result is the wanted identity map; text is never writable,
  data never executable; the tables form a tree that owns every page taken
  from the pool; the boot does not panic with an image loaded where it is
  linked for, and does panic otherwise.
* boot: reaches `pz_umain` with the MMU on; panic and return end in a shutdown;
  the console tells how a boot ended.
* the kernel as its program sees it: every page it gets is mapped, writable,
  and nobody else's; the address space is complete and stays as it is.
* formatter: every spelling of a directive is read as what it means; no write
  behind either buffer; `snprintf`'s contract; the text ISO C asks for.

## 2. The modules

    Memory ── Kalloc ── Mm ── MmLinked ── Kernel
                │        │                  │
                │        └ AddressSpace     └ UserView
                └ PageStack

    Printf ─┬─ PrintfScan ─┐
    (the    │  (the format │
    format- │   string)    ├─ PrintfGrammar
    ter)    └─ PrintfIso ──┘  (spellings)
               (ISO C)

    ── EXTENDS (rightwards), └ implements

    KallocProofs ── MmProofs ── MappingProofs ── KernelProofs ── UserViewProofs
    PrintfProofs ── PrintfIsoProofs ── PrintfGrammarProofs

`MC*.tla` give the constants for TLC. `MCMmMisload` is the board of `MCMm`
without the assumptions of `MmLinked`, for images that are not where they are
linked for.

**`Memory`** is RAM: frames of words. A word is a tagged value (`ptr`, `pte`,
`junk`) with its PTE flag bits, because one word is read both as a link and as
a table entry: `JunkBB` (eight bytes `0xbb`) has the valid bit set and
`JunkEE` has not, so a table that is linked before it is cleared shows up in
the model as it would on the machine. `Deref` of a word that holds no pointer
gives `WILD`. A PTE that is dereferenced as a pointer is `WILD` too.

**`Kalloc`** is `kern/kalloc.c`. `FreeRangeStep` is one turn of `free_range`'s
loop with the `pz_alloc_pfree` in it, `Pnew` and `Pfree` are whole calls (one
hart, no interrupts: nothing can come between their statements),
`ClientStore` is a client writing a pointer-looking value into the very word
that will be its page's link. `freelist`, `p`, `mem_end` are the code's;
`held` and `ret` are what clients know; `phase` is the program counter of
`pz_alloc_init`. `Pfree` is enabled for held pages only: `pz_alloc_pfree` has
no check, and no caller in the repository frees anything but pages of its own.

**`PageStack`** is what the allocator promises: a stack of pages. `Kalloc`
implements it with `stack <- FreeSeq`, the pages met on following the links
through memory.

**`Mm`** is `kern/mm.c`, one action per turn of `walk`'s and `map`'s loops:
`MmRoot` (root page), `MapEnter` (`kmap` and the head of `map`), `WalkTooLarge`,
`WalkDown`, `WalkAlloc`, `WalkNoPage` (the branches of `walk`), `MapSet` (the
body of `map` after `walk`). `var`, `last`, `pa`, `lvl`, `tbl` are the locals.
Address arithmetic is modulo `WORD`. `walk` is only ever called with
`alloc = 1`, so the other branch is left out. The remap panic in `MapSet` is
kept although a correct boot never reaches it.

**`MmLinked`** states what the board and the linker give: memory starts on a page
boundary and ends below the last address `map` accepts (`BoardAssumption`); an
image that is where it is linked for has an aligned `_text_end` behind
`PZ_MEM_START` (`LinkedAt`, `Linked`); the window has more pages than there are
tables to make (`RoomAssumption`).

**`AddressSpace`** is what `pz_mm_init` promises: pages of a given map are
installed one after the other, never changed, none else (`Safety`), none left
out (`Spec`). `Mm` implements it with `space <- Space`, the tables read as the
MMU reads them: `BuildsAddressSpace` is the safety part, `ImplementsAddressSpace`
the whole.

**`Kernel`** is the boot from `_start` to the shutdown. `SetupStack`,
`ClearBss`, `StartKern`, `AllocInit` (Kalloc's loop), `PzMmInit` (Mm's steps),
`MmInitCpu` (satp), `StartInit` (the empty `pz_sch_init`, and `pz_init`) and
`Shutdown` (from `pz_init`, or from `pz_panic`) are the kernel's. `log` is what
it has printed; each message is added by the action of the function that
prints it (`Say`), since a character goes straight to the firmware and needs no
mapping. `UmainPnew`, `UmainPfree`, `UmainStore`, `UmainUartPuts`, `UmainReturn`
are a program that uses the allocator and the UART as it likes, now through the
MMU: an access to a page that is not mapped with the needed permission is a
`trap`, or, for the UART's registers, a `uart_fault`. `MmInitCpu` traps unless every page of text is
executable, every page of data writable, and the stack stays above the text
(`StackFits`). The tables are read as by an MMU that sets the accessed and dirty
bits itself: `map` leaves them 0 (`mm.c:92`), and on a board whose MMU faults
instead, as the architecture allows, every boot would hang at the write to
`satp`. The stack starts in `g_stacks`, and how far down it may grow depends on the
size of `.rodata`, `.data` and `.bss` and on the hart, which no code checks.

Where the compiler puts `g_alloc_mem` and `g_kvm` in `.sbss` (`image.shared`), the
16 bytes in which `pz_start_kern` saves its registers are these two variables;
what the saved registers hold is up to the build and the firmware, so both get
NULL or a wild value. `freelist` and `ptbl` stay what they are in `Kalloc` and `Mm`,
a page or NULL, so that the invariants of these modules speak of `Kernel` too;
`left` tells which word is in the variable where that is no page, and `ListHead`
and `KernelTable` are the variables as the code reads them. `pz_alloc_init` links
the first page it frees to that word: with a wild one the list ends in something
that is not a page, and `PzMmInitWild` is the fault of following it.

**`UserView`** is what the kernel promises its program, with no list, tables or
registers: it is entered once, with the wanted address space; a page it takes
is writable at its own address and is neither the kernel's nor its own already;
nothing it does changes the address space. `Kernel` implements it: `space` is
what the MMU translates, `kept` the pages of the image and of the tables as
found in memory, `mine` the pages taken and not given back.

**`Printf`** is the formatter of `kern/printf.c` as configured (no floating
point). A format is a sequence of directives with their arguments. `FormatText`,
`FormatInt` (the integer cases of `_vsnprintf`), `NtoaDigit` (one turn of
`_ntoa_long`'s loop), `Ntoa` (`_ntoa_format` and `_out_rev`), `Out` (the sinks:
`char` for `printf` and `vprintf`, `fct` for `fctprintf`, `buffer` for
`snprintf`, `vsnprintf` and `sprintf`, `null` for a NULL buffer) and `Terminate`,
which returns `idx` converted to an `int` (`printf.c:921`): from a text of 2^31
characters on, the result is not its length. `idx` itself, a `size_t`, is not wrapped in
the model, and nothing is claimed of a text of 2^64 characters. `NoPrec`, a
precision that was not given, is a number below those of an `int`.
`ArgumentsMatch` is what a caller of `printf` promises: each argument has the type
its directive names, and a string is short enough for the `unsigned int` that
`_strnlen_s` returns.

**`PrintfScan`** is the loop of `_vsnprintf` over the characters of the format:
`ScanChar`, `ScanDirective` (flags, width, precision, length, conversion, with
the `va_arg` of each `*`) and `ScanEnd`. It appends what it has read to
`Printf`'s `fmt` and lets `Printf` format it before it reads on, as the code
does. Where the code steps over the NUL the model stops with `at` behind it.
`ImplementsDirectives` maps `fmt` to what the caller meant, the whole sequence of
directives from the start: a refinement of `Printf` by the scanner.

**`PrintfGrammar`** gives the scanner its calls, all spellings of a directive,
and the grammar of specifications as a set of words, with no scanning in it.
A width or precision may be spelled as any number that `_atoi` wraps to it, up to
`WRAPS` times round, and as a `*` where it is an `int`.
`SpelledOut` says of a call that it was written this way, one spelling behind
the other.

**`PrintfIso`** writes down what ISO C asks for, without any buffer, and the
six conditions under which `Printf` departs from it.

Operators named after a bug and placed right before a definition
(`HeadAfterNewReadLate` before `HeadAfterNew`) are variants of it with a
plausible mistake. No specification uses them; they are kept to show that the
property they are written for notices the mistake.

## 3. The runs

| run | module, cfg | states | what it shows |
|---|---|---|---|
| `kalloc` | `MCKalloc`, `MCKalloc.cfg` | 2002 | Four pages, clients that take, scribble and give back in every order. |
| `mm` | `MCMm`, `MCMm.cfg` | 584 | Eight images loaded where they are linked for: the map is built without a panic, a leak or a change of what is already mapped. |
| `mm_misload` | `MCMmMisload`, `MCMmMisload.cfg` | 1072 | Eight images written too low: always a panic, nearer with every turn; the tables are a tree and the allocator a stack even when the pool runs out inside `walk`. |
| `kernel` | `MCKernel`, `MCKernel.cfg` | 7742 | The whole boot, both harts, small, large and misloaded images, one whose stack reaches the text, both places for `g_alloc_mem`, then any use of the allocator and the UART. Each boot comes to one of the ends the model names. |
| `printf_int` | `MCPrintf`, `MCPrintf.cfg` | 336684 | One directive: all flags, widths, precisions, bases over seven values, and strings and characters. |
| `printf_scan` | `MCPrintfScan`, `MCPrintfScan.cfg` | 201740 | From the characters of the format to the bytes in the buffer and the result: every spelling of twelve directives, numbers that wrap in `_atoi` included, alone and next to another one; texts longer than the largest `int`; all sinks, buffers of seven sizes. |
| `printf_raw` | `MCPrintfScan`, `MCPrintfRaw.cfg` | 160443 | All short strings over nine characters as formats. |
| `stack_documented` | `MCKernel`, `MCStackAsDocumented.cfg` | | Violated: finding 1. |
| `freed_inside` | `MCKernel`, `MCFreedInsideMemory.cfg` | | Violated: finding 2. |
| `printf_return` | `MCPrintf`, `MCReturnCount.cfg` | | Violated: finding 3. |
| `long_binary` | `MCPrintf`, `MCLongBinary.cfg` | | Violated: finding 4. |
| `fel_boot` | `MCKernel`, `MCFelBoot.cfg` | | Violated: finding 5. |

### Bounds, and why they are enough

*Allocator.* `PAGESZ = 4`, two words a page, four pages in the window (three
with the unaligned `_mem_end`). All that the code distinguishes is: list empty
or not, last page of the window or not, aligned or not. Four pages give every
order of up to four frees and every position of a page in the list; the proof
(section 5) covers every other size. `STORED` is one page of the pool, so that
a client's data looks like a link into the pool.

*Page table.* Four-entry tables, 26 frames of RAM, a window of eight pages that
starts at frame 12 and crosses frame 16, where both the level-0 and the
level-1 index wrap: five tables, of every level, some shared by several pages
and by both ranges. `WORD = 512` stands for 2^64: larger than every address,
so that it wraps only where the code wraps. With the real constants a wrapped
text size asks for more pages than there are, and so do these. The windows of
`mm_misload` have seven and eight pages: the one gives out at a table of the last
level, the other is just enough to reach the address that `walk` rejects. That a
pool may give out between the two tables of one walk is left to `TreeTheorem`.

*Kernel.* Images that fit into what the page tables take from the unmapped end
of the pool, one that does not, one written a page low; two harts; a call
chain of two bytes below `sp` where a page has four. In one image `g_stacks` lies
one byte behind the text: on hart 0 the stack reaches the text, on hart 1, whose
stack starts a byte higher, it just does not.

*Formatter.* `hh`, `h`, `int`, `long` have 3, 4, 6 and 12 bits and the digit
buffer 6 characters: an `int` in binary just fits and a `long` does not, as
with 32 and 64 bits and a buffer of 32. Widths and precisions lie below, at and
above the digits and the buffer; the smallest `int` and `long`, zero, and a `signed char`
that is another number as an `unsigned char` are
among the values. `snprintf`'s count runs from 0 over every place where a text
of two directives can be cut to the largest `size_t`, which is `sprintf`'s.

*Scanner.* The spellings use every flag, widths and precisions as digits, with a
leading zero, as `*` and left out, positive, zero and negative, as numbers one
wrap of the 6-bit `unsigned int` higher (`WRAPS = 1`; the proof has any), and all
eight length modifiers. Texts of 40 and 70 characters are longer than the
largest `int` and than all of its values, so that the result is negative in one
case and a short length in the other. A second directive before and behind shows that each takes
its own arguments and stops at its end (`7` as a text directly behind a
specification is not a digit of it). The raw strings are all those of up to
four characters, and of five with a `%` in front, over one character of each
class the scanner tells apart: enough for every field but one, or a complete
specification and the start of the next.

`CHECK_DEADLOCK FALSE` is set where the model ends: the call has returned, or
the machine is off, panicked or trapped. In `kalloc` it is on.

### Fairness

Weak fairness of the boot code as a whole: `Boot` in `Kalloc`, `MmNext` in
`Mm`, `Kern` in `Kernel`. It is sequential code on one hart with interrupts
off, so that nothing can keep it from its next statement. Clients and
`pz_umain` are not fair: a program need not call anything or return.
`Shutdown` relies on the firmware's shutdown call not coming back.
The formatter has no liveness property: each of its loops counts up or down,
and the scanner moves forward with every step. Where it can go wrong, by
leaving the format, is a safety property (`LeavesFormatExactly`).

### The properties

* `FreeListSound`, `HeadIsFree`, `PoolComplete`, `HeldUntouched`, `InitFinishes`,
  `ImplementsPageStack` of the allocator. `FreeListSound` also holds all
  through `pz_mm_init` (run `mm`), with `walk` writing into its pages.
* `TablesAreATree`: the pages that were taken are exactly the tables reachable
  from the root, each by one entry. `NeverPanics`, `MappingEnds`,
  `BuildsAddressSpace`, `ImplementsAddressSpace`: every image that is where it is linked for gets the
  identity map, text `R X`, data `R W`, page after page, nothing changed on the
  way. `MisloadCaught`: no other image gets past `pz_mm_init`. `EndComesNearer`:
  no loop of the boot goes round in circles, with any image.
* `TrapOnlyForLargeImages`: the exact extent to which the two windows matter.
  A page fault needs an image of more pages than the tables took from the
  unmapped end of the pool (18 with the real constants), or, where the head of
  the list shares its place with the stack, a pool that has run dry, or a
  stack that reaches down into the text (`~StackFits`).
  `OnlyFreePagesOut`: whatever RAM held at power-on and the stack left in
  `freelist`, while there are free pages it heads one, and when there are none
  the list ends in NULL, but where its head lies under `pz_start_kern`'s frame. `ConsoleTellsOutcome`: which of the two possible
  texts is on the console after a shutdown, and which message is the last one
  when the machine hangs. `ReachesUmain` likewise asks that the stack stays off
  the text. `ImplementsUserView`: what the program may rely on, in
  particular that it cannot change the translation through the allocator.
  `RunsOrPowersOff`: no boot is for ever on its way. One of a linked image comes to
  its program, traps or ends powered off; one of any other is powered off by the panic,
  or traps if the list's head lies under the frame.
* `NtoaBounded`, `DepartsExactly`, `SnprintfContract`. `SnprintfContract` gives the
  result as what an `int` keeps of the text's length, hence as the length
  itself below 2^31, and every byte of the caller's buffer.
  `DepartsExactly` is an
  equivalence: where none of the six conditions holds the text is ISO C's,
  where one holds it is not.
* `ImplementsDirectives`: every spelling is read as what it means.
  `LeavesFormatExactly`: another equivalence, between reading over the end of the
  format and a format that the grammar finds incomplete.

## 4. Findings

1. `start.S:8` documents `sp = g_stacks + (mhardid * PZ_PAGESZ)`. The code adds
   the hart id itself and leaves the product in `t0` unused, so the stacks of
   all harts start within `g_stacks`' first bytes and grow down out of it.
2. `pz_alloc_init` frees an image's length of pages beyond the end of the
   managed and mapped memory. The assertion commented out at `kalloc.c:46` says
   that no such page is freed. Small images get away with it, because the page
   tables are taken from there (`TrapOnlyForLargeImages`).
3. `printf("%c", 0)` returns 1 and writes nothing, where `printf.h:55` promises
   the number of characters written; `fctprintf` likewise (`printf.h:100`).
4. A `long` in binary loses its upper digits: the digit buffer of 32 is not,
   as `printf.c:45` asks, big enough for one converted number.
5. `Makefile:11` asks that the address the image is written to be
   `PZ_MEM_START`. It is `0x80000000`, and `toolchain.cmake:6` has `0x84000000`:
   such a boot ends in a panic and does not reach `pz_umain`.

One more divergence has no run of its own, as a proved property spells it out.
`printf.h:77` says of `snprintf`'s result that a value less than the count tells
that the whole string was written. By `SnprintfContract` the result is what an
`int` keeps of the length (`printf.c:921`), which is less from 2^31 characters on: of a text of
2^32 + 6 characters, which two directives with large widths make, it is 6, and
a text cut by a count of 7 or more looks complete. `printf_scan` has such texts.

The UART driver cannot be used by a program, as its page is not mapped when
`pz_umain` runs (`uart_fault`; `ConsoleTellsOutcome` says what is seen of it).
`uart.c:9` says that it works in QEMU, without saying when; nothing in the
repository calls it, and it is no finding.

The six departures of `DepartsExactly` from ISO C (unsigned plain `char` in
`%hhd`, negative `*` precision of a number or a string, short buffer, `-` with a
precision, `#` with a width equal to the digits, `#o` with a precision) are
described in `PrintfIso`. The repository makes no claim about them and they are
no findings. Three corners of them were found by the attempt to prove the
equivalence, and are now in the model, the run and the theorem: a string of
blanks that a negative precision drops may still come out right, as padding; so
may the blank that a positive number gets instead of a sign, when the digits
fill the buffer; and with `#o` a precision as long as the buffer leaves no room
for the zero too many.

## 5. Proofs

TLC checks the instances of section 3; the theorems hold for every value of the
constants that meets the assumptions named below. Every safety property of a
passing run is a theorem. `PROJECT.json` lists the theorems one by one.

Two facts carry all that is recursive. A recursive function on numbers or on
places in a string exists and can be unfolded, and a claim about all numbers
follows from the least counterexample (`LeastNat`), since induction itself is
beyond the installed provers.

### The allocator

`KallocProofs`: `Invariance` (`Spec => []IInv`), `TypeCorrect`, `HeadSafe`,
`HeldSafe`, for every page size, table size, amount of RAM, pool size, set of
`_mem_end` addresses and set of stored values.

*The inductive invariant.* `HeadIsFree` is not inductive: after a pop the new
head is whatever the old head's link says, and a link is a word in a page. So
`IInv` says where all the links lead: `ListInv` is the existence of a sequence
of distinct pages, from `freelist` through the links to NULL, whose set is
exactly `Free` (`Donated \ held`). That is not inductive alone either: to push
the next page of `free_range` keeps the pages distinct only if the page was
not donated before, which is `LoopInv` (where `p` is, and that it is aligned),
and a freed page belongs to the pool only if clients hold pages of the pool,
which is `HeldInv`. With `TypeOK` they are inductive: a push replaces the
sequence `s` by `<<f>> \o s`, a pop by `Tail(s)`, a store leaves it alone because
the page written is held and so not in `s`. There is one step per action, and
the facts about pages and addresses (`f * PAGESZ`, rounding) are lemmas of
their own.

Further: the list that exists is the one that is found. `Follow`, the
recursive function that follows the links, agrees with any sequence that meets
`IsFreeList`, so that `FreeSeq` is that sequence. From this come
`FreeListTheorem` (`FreeListSound`), `PoolTheorem` (`PoolComplete`: when the loop
ends, `p` and `LoopInv` leave no page of the window out) and `IsPageStack`: each
step is a push, a pop or nothing to `PageStack`.

### The page table

`MmProofs`, for images at any address, misloaded ones included:
`MmIInv == IInv /\ MmTypeOK /\ TreeInv /\ StageInv /\ CursorInv`. `TreeInv` says that
root, middle and last tables are disjoint, that they are all the held pages, and
that no two entries lead to one table; `CursorInv` that `walk`'s table is one of
its level. A new table is a page from the head of the list, which by `IInv` is
free and so no table yet; and it is cleared before it is linked, so that its
words are no entries. Hence `MmInvariance`, `MmTypes`, `TreeTheorem`
(`TablesAreATree` counts what `TreeInv` tells apart: a tree has one entry fewer
than it has tables), `MmFreeListTheorem` and `MmIsClient` (`FreeListSound` and
`ImplementsPageStack` for `MmSpec`).

`EndTheorem` (`EndComesNearer`), again for every image: the loops of `free_range`,
`map` and `walk` are counted down by one natural number, `TurnsLeft`. This needs no
invariant but the types, and no word about `last`, which `map` may step over: it
is `walk`'s check of the address, and `MaxVaAssumption`, that keep `var` from
wrapping. With `NoPanicTheorem` a linked image's boot can only end at `mapped`,
with `MisloadTheorem` a misloaded one's cannot.

`MappingProofs`, for `MmSpec /\ Linked`: `MapInv == PathInv /\ RangeInv /\ SpaceInv`.
`PathInv`: `walk`'s table is the one its address leads to. `RangeInv`: where `map`
is in its range, which is aligned and does not wrap. `SpaceInv`: what is mapped
is exactly what lies below the address reached, each page as wanted. A new
table translates nothing; a leaf entry, found by the three digits of the page
number, changes the translation of that page only, as no table is shared.
`MapInvariance`, and `MappingTheorem`: `MmSpec /\ Linked => BuildsAddressSpace`.

Also in `MappingProofs`, for `MmSpec /\ Linked`: `NoPanicTheorem` (`NeverPanics`). The remap
panic cannot be reached because the page at hand is above all that is mapped.
The pool cannot run out because of a count: by `NeededInv` every entry of the
upper levels leads to a page to map, so the tables are at most
`1 + Cardinality(RootEntries) + Cardinality(MidEntries)`, one is missing, and
`RoomAssumption` gives the window as many pages.

### The boot and the program

`KernelProofs`, for every image of `IMAGES`, misloaded or not, every hart, both
places of `g_alloc_mem`, and whatever the program does with the allocator.

* `MisloadTheorem`: `pz_mm_init` never returns with an image that runs below
  `PZ_MEM_START`. The size of its text wraps, so that the last page to map lies
  below the first or beyond what `walk` accepts (`MisloadInv`).
* `KernelInvariance`: `KernelInv == ImageInv /\ MmTypeOK /\ ControlInv /\ ConsoleInv /\
  TrapOnlyForLargeImages`. `ControlInv` has two invariants. Up to the switch it is
  `BootInv`: `MmIInv`, `MisloadInv`, `TopFirst` and, for a linked image, `MapInv` and
  `RoomInv`. From then on it is `RunInv`: the allocator's `IInv`, `Space = Wanted`,
  the tables are held, and all other pages of the pool lie below them. The last
  conjunct is what `TopFirst` is for: `free_range` makes a list that descends and
  nobody frees a page during the boot, so the tables are the top of the pool.
  From it a count follows: if any free or user's page lies beyond the mapped
  memory, then all tables do, with that page, and the image has more pages than
  there are tables. This is `TrapOnlyForLargeImages`, which needs the whole
  history of the boot.
* `KernelTypes`, `TrapTheorem`, `ConsoleTheorem`, `FreePagesTheorem`: the four
  invariants of the run `kernel`.

`UserViewProofs`: `UserViewTheorem`, `KernelSpec => ImplementsUserView`. The switch
is `Enter`; `pz_alloc_pnew` and `pz_alloc_pfree` are `Take` and `Give`, as by `RunInv`
the page is no table and, being in the pool, no page of the image, and a page
the call could write to is mapped writable onto itself; a store does not reach
a table; every fault ends the program's view.

### The formatter

`PrintfProofs`, for every format, every size of the integers and of the digit
buffer: `PrintfIInv == CallInv /\ NumberInv /\ OutInv /\ StoredInv /\ SnprintfContract`.
`NumberInv` keeps the digits and all that is appended to them within the buffer;
`StoredInv` says that the caller's buffer holds the text so far, cut at the
count; the result is the two's complement of the text's length, and that is the length
itself below half an `int`'s range (`AsInt`, from `TwoAssumption`).
`PrintfTypes`, `BufferTheorem` (`NtoaBounded`), `SnprintfTheorem`
(`SnprintfContract`). `ScanTheorem` has the last two also for the formats that are
read character by character, as long as each directive read gets an argument of
its type (`[]ArgumentsMatch(fmt)`): a C caller's duty, without which `va_arg` is
undefined.

`PrintfIsoProofs`: `DepartsTheorem`, `PrintfSpec => []DepartsExactly` for formats of
one directive (`SingleFormats`: an integer, a string, a character or plain text,
with flags the scanner knows, and not `%p`, whose form ISO C leaves open). It is
an equivalence, so that both halves matter: the text is ISO C's where no
departure applies, and is not where one does.

* *The digits.* The loop of `_ntoa_long` makes them backwards. `DigitsLeft` says
  that the digits still to come, followed by those in the buffer in reverse,
  are the numeral of the number; `DigitsMade` that at the end the buffer holds the
  whole numeral, or is full and too short for it.
* *The text.* `_ntoa_format` and `_out_rev` work backwards in the buffer; ISO C
  puts blanks, prefix, zeros and digits one behind the other. Both are brought to
  the form blanks, core, blanks, with no blank in the core.
  Such a form is unique (`FormUnique`). So the texts are the same just when the
  cores and the blanks in front are, which is arithmetic on lengths and a
  comparison of prefixes, case by case as in the code (`HashConforms`,
  `HashDiffers`, `PlainConforms`, `PlainDiffers`).
* *The steps.* `DepartsInv == Single(fmt) /\ WorkInv /\ PlaceInv /\ WrittenInv`
  carries this through the calls; `WrittenInv` speaks of what is about to be put
  out, and then of what has been.

`PrintfGrammarProofs`: `LeavesTheorem`, `ScanSpec => []LeavesFormatExactly`, for every
string. The scanner is greedy; the grammar only asks that some split into
fields exists. `GreedyLongest` shows that the greedy split is the longest: no
split can end a field behind the place where the scanner ends it. `CutFrom`, the
recursive reading of a whole string, can be unfolded one specification at a
time, and `ScanInv` says that the rest of the format is cut short just when the
whole is.

`DirectivesTheorem`: `ScanSpec => ImplementsDirectives`, whatever directives a
caller means and however they are spelled. `NumeralReads`: the numeral of any
number is read by `_atoi` as this number modulo `2^32`, with a zero in front as
well; it wraps at each digit, which comes to the same as wrapping once
(`RestOfDigits`). `FieldsRead`: each field ends where its spelling does, as what may
follow it cannot go on with it; a width does not begin with a zero, which would
be a flag (`NumeralStarts`). The invariant `ReadInv` says that what has been read
is a beginning of what is meant, and that the scanner stands, in the format and
in the argument list, where its spelling ends. The formatter is the same for
what is read and for what is meant (`SameFormatter`), so that each of its steps
is one of the abstract formatter (`FormatSteps`). The hypothesis `SpelledOut` is
that of the run `printf_scan`: it holds of an empty call (`NothingSpelled`), and
when a spelling of one more directive is written behind (`LongerSpelled`), and
so of every call made of spellings. `ContractTheorem`: for such calls the
`[]ArgumentsMatch(fmt)` of `ScanTheorem` follows from the caller's duty alone.

### What is assumed

| assumption | why it holds |
|---|---|
| `PageAssumption`, `EntriesAssumption`, `RamAssumption` | `PZ_PAGESZ`, 512 entries and the board's RAM are not 0 |
| `LayoutAssumption` | RAM lies behind the whole window; the image is not at address 0 |
| `StoredAssumption` | what clients store is told apart only where it looks like a page |
| `MmAssumption` | no image reaches into the last page of the 64-bit addresses |
| `MaxVaAssumption` | `PZ_ARCH_MM_MAX_VA`, 2^38, is far below 2^64 |
| `BoardAssumption` | `PZ_MEM_START` and `PZ_MEM_SIZE` of the Makefile: aligned, below 2^38 |
| `RoomAssumption` | 32 MiB are 8191 whole pages at least; three levels of 512 entries take 20 tables at most |
| `Linked` (a hypothesis) | `linker.ld`: the text starts at `PZ_MEM_START` and ends on a page boundary, `_mem_end` behind it |
| `ImageAssumption` | the order of the symbols in `linker.ld` |
| `RamMappable`, `UartAssumption` | RAM lies below 2^38; the UART's registers are no RAM |
| `PrintfAssumption`, `FormatsAssumption` | sizes are positive; the caller's arguments have their types, and no memory holds a string too long for an `unsigned int` |
| the MMU sets accessed and dirty bits (`Permits`) | a property of the board, which no code asks about |
| `TwoAssumption` | a power of two is positive, and twice the one before: arithmetic the provers do not know |
| `IsoAssumption` | a `short` is no longer than an `int`; powers of two again |
| `WrapsAssumption` | `WRAPS` is a number; it bounds the spellings and may be any |
| `CallsAssumption` | a format is a string |
| `SingleFormats`, `SpelledOut`, `FORMATS = {<<>>}` (hypotheses) | one directive at a time; a call is written spelling by spelling; nothing has been read when `printf` is called |

TLC evaluates each of the named assumptions in the runs. Of the hypotheses, `Linked`
holds of all images of the run `mm`, `SingleFormats` of the formats of
`printf_int`, and `SpelledOut` and `FORMATS = {<<>>}` of `printf_scan`.

### What stays with TLC

* Liveness and all that rests on fairness: `InitFinishes`, `MappingEnds`,
  `MisloadCaught` (that such an image never gets through is `MisloadTheorem`, that
  it ends in a panic is TLC's), `ReachesUmain`, `RunsOrPowersOff`, and of
  `ImplementsAddressSpace` that the map is completed.
  `EndTheorem` bounds the turns of the boot's loops; that the next turn is taken
  at all is fairness.
* The five findings: they are counterexamples.

## 6. Not modelled

* `.old/mm.c`: in no build, and its entry function starts with `return 0`.
* Floating point in `printf.c` (lines 345 to 595), which `printf_config.h`
  switches off; the one-instruction wrappers of `intrin.h` without a caller.
* What the scanner reads once it has left the format: the model stops there.
  No format string of the repository ends inside a specification.
* The build files, but for the two addresses and the layout `linker.ld` gives.
* What the stack overwrites below the 16 bytes of `.sbss`: only the distance
  down to the text is modelled (`STACK_USE`, `StackFits`). A deep call chain may
  change `printf`'s format strings and jump tables in `.rodata`, and the program's
  `.data`; what comes of that depends on the build, and nothing is claimed of it.
* A UART that works after the switch. The fault is what the code does, and the
  model takes it as an outcome; no property forbids it.
* An MMU that faults on a clear accessed or dirty bit.
* A second hart: `@todo locking` in `kalloc.c` marks the place; nothing starts
  one.
* A remap or unmap after the boot: there is no such function.

## 7. Plan

Done: the allocator, the page table, the boot with its console output and its
program, the formatter from the characters of the format to the bytes of the
buffer. All code that is built and that the kernel runs is modelled, and the
safety properties are proved. What is left:

1. Facts about `UserView` and `AddressSpace` themselves, which then hold of the
   code by the refinements: an installed page is never changed, a program's page
   is never the kernel's, an address space once entered stays.
2. The same for the rest of the boot: a number that every step of `Kernel` up to
   `pz_umain` lowers.
3. `DepartsExactly` for `%p`, once there is something to compare it with.
4. Shorter proofs: the arithmetic of `MappingProofs` and the step lemmas of
   `KernelProofs` and the cases of `PrintfIsoProofs` are the longest.
