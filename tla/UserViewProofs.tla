----------------------------- MODULE UserViewProofs -------------------------
(***************************************************************************)
(* The kernel keeps the promises of UserView: proof that every step of the *)
(* boot and of the program is a step of UserView or changes nothing there. *)
(***************************************************************************)
EXTENDS KernelProofs

(* Before the program runs and after it, UserView sees the stage only.     *)
LEMMA NoProgramSeen ==
  ASSUME Stage # "run"
  PROVE  View!NoProgram
BY DEF View!NoProgram, View!NoSpace, WhenRun

(* The stages of UserView in terms of the boot's.                          *)
LEMMA StageIs ==
  /\ kpc \in Booting => Stage = "boot"
  /\ kpc \in {"start_init", "umain"} => Stage = "run"
  /\ kpc \in {"returned", "panic"} => Stage = "stopped"
  /\ kpc = "off" => Stage = "off"
  /\ kpc \in {"trap", "uart_fault"} => Stage = "hung"
BY DEF Stage, Booting, Early

(* The kernel starts where UserView does.                                  *)
LEMMA ViewStarts ==
  ASSUME KernelInit
  PROVE  View!Init
<1>1. Stage = "boot"
  BY StageIs DEF KernelInit, Booting, Early
<1>2. QED
  BY <1>1, NoProgramSeen DEF View!Init

(* A step that leaves the stage, and what the program sees, as they were.  *)
LEMMA NothingSeen ==
  ASSUME kpc' = kpc \/ (kpc = "start_init" /\ kpc' = "umain")
                    \/ (kpc \in Booting /\ kpc' \in Booting),
         UNCHANGED text_end,
         kpc \in {"start_init", "umain"} =>
           UNCHANGED <<Space, Tables, UserPages, mem_end>>
  PROVE  UNCHANGED View!viewVars
<1>1. Wanted' = Wanted
  BY DEF Wanted
<1>2. Stage' = Stage
  BY DEF Stage, Booting, Early
<1>3. CASE Stage = "run"
  <2>1. kpc \in {"start_init", "umain"}
    BY <1>3 DEF Stage
  <2>2. ImagePages' = ImagePages
    BY <2>1 DEF ImagePages
  <2>3. QED
    BY <1>1, <1>2, <1>3, <2>1, <2>2 DEF View!viewVars, WhenRun
<1>4. CASE Stage # "run"
  BY <1>1, <1>2, <1>4 DEF View!viewVars, WhenRun
<1>5. QED
  BY <1>3, <1>4

(* The end of the boot or of the program.                                  *)
LEMMA ProgramGone ==
  ASSUME Stage \in {"boot", "run"}, Stage' \in {"stopped", "hung"},
         UNCHANGED text_end
  PROVE  View!Next
<1>1. Wanted' = Wanted
  BY DEF Wanted
<1>2. View!NoProgram'
  BY DEF View!NoProgram, View!NoSpace, WhenRun
<1>3. QED
  BY <1>1, <1>2 DEF View!Next, View!Stop, View!Hang

(* pz_umain is called.                                                     *)
LEMMA ProgramEnters ==
  ASSUME KernelInv, TranslateFollows', MmInitCpu, kpc' = "start_init"
  PROVE  View!Next
<1>1. kpc \in Booting /\ BootInv /\ mpc = "mapped"
  BY DEF MmInitCpu, KernelInv, ControlInv, Booting
<1>2. RunInv /\ held = Tables /\ UNCHANGED <<Tables, Space, Wanted>>
  BY <1>1, SwitchReady, MemoryKept DEF KernelInv, MmInitCpu
<1>3. Stage = "boot" /\ Stage' = "run"
  BY <1>1 DEF MmInitCpu, Stage
<1>4. held' = held
  BY DEF MmInitCpu, allVars, vars
<1>5. UserPages' = {}
  BY <1>2, <1>4 DEF UserPages
<1>6. (ImagePages \union Tables)' \subseteq Frames
  BY <1>2 DEF ImagePages, RunInv, IInv, TypeOK
<1>7. View!Enter
  BY <1>2, <1>3, <1>5, <1>6 DEF View!Enter, WhenRun, RunInv
<1>8. QED
  BY <1>2, <1>7 DEF View!Next

(* A page is handed to the program.                                        *)
LEMMA ProgramTakes ==
  ASSUME KernelInv, TranslateFollows', UmainPnew, kpc' = kpc
  PROVE  [View!Next]_(View!viewVars)
<1>1. RunInv /\ MmTypeOK /\ kpc = "umain" /\ UNCHANGED mmVars
  BY DEF KernelInv, ControlInv, Running, UmainPnew
<1>2. Pnew /\ (ListHead = NULL \/ (ListHead \in Frames /\ Permits(ListHead, "W")))
  BY <1>1 DEF UmainPnew
<1>3. UNCHANGED <<Tables, Space, Wanted, mem_end, text_end>>
  BY <1>1, <1>2, ClientRuns DEF mmVars
<1>4. CASE freelist = NULL
  <2>1. UNCHANGED UserPages
    BY <1>2, <1>3, <1>4 DEF Pnew, PopFreelist, UserPages
  <2>2. QED
    BY <1>3, <2>1, NothingSeen
<1>5. CASE freelist # NULL
  <2>1. /\ freelist \in Free /\ freelist \in Pool \ Tables /\ freelist \in Frames
        /\ Permits(freelist, "W")
    <3>1. freelist \in Free
      BY <1>1, <1>5, HeadIs DEF RunInv, HeadIsFree
    <3>2. freelist \in Pool \ Tables /\ freelist \in Frames
      BY <1>1, <3>1 DEF RunInv, Free, Donated, Pool
    <3>3. freelist # NULL => ListHead = freelist
      BY DEF ListHead
    <3>4. QED
      BY <1>2, <1>5, <3>1, <3>2, <3>3
  <2>2. /\ mem_end \in Nat /\ text_end \in Nat /\ text_end <= mem_end
        /\ freelist * PAGESZ \in Nat /\ mem_end <= freelist * PAGESZ
    <3>1. freelist * PAGESZ \in Nat
      BY <2>1, PageAssumption, SMT DEF Frames
    <3>2. QED
      BY <1>1, <2>1, <3>1, AddressTypes, ImageInOrder DEF KernelInv, Pool
  <2>3. View!Usable(freelist)
    <3>1. text_end <= freelist * PAGESZ
      BY <2>2
    <3>2. freelist \in DOMAIN Space
          /\ Space[freelist] = [frame |-> freelist, perm |-> {"R", "W"}]
      BY <1>1, <2>1, <3>1, Permissions DEF RunInv
    <3>3. Stage = "run"
      BY <1>1, StageIs
    <3>4. QED
      BY <3>2, <3>3 DEF View!Usable, WhenRun
  <2>4. freelist \notin ImagePages \union Tables
    BY <2>1, <2>2 DEF ImagePages
  <2>5. freelist \notin UserPages /\ UserPages' = UserPages \union {freelist}
    BY <1>2, <1>3, <1>5, <2>1 DEF UserPages, Free, Pnew, PopFreelist
  <2>6. Stage = "run" /\ Stage' = "run"
    BY <1>1 DEF Stage
  <2>7. ImagePages' = ImagePages
    BY <1>3 DEF ImagePages
  <2>8. View!Take(freelist)
    BY <1>3, <2>3, <2>4, <2>5, <2>6, <2>7 DEF View!Take, WhenRun
  <2>9. QED
    BY <1>3, <2>1, <2>8 DEF View!Next
<1>6. QED
  BY <1>4, <1>5

(* The program gives a page back.                                          *)
LEMMA ProgramGives ==
  ASSUME KernelInv, TranslateFollows', NEW f \in held, UmainPfree(f),
         kpc' = kpc
  PROVE  View!Next
<1>1. /\ RunInv /\ MmTypeOK /\ kpc = "umain" /\ UNCHANGED mmVars
      /\ f \in UserPages
  BY DEF KernelInv, ControlInv, Running, UmainPfree
<1>2. Pfree(f)
  BY <1>1 DEF UmainPfree
<1>3. UNCHANGED <<Tables, Space, Wanted, mem_end>>
  BY <1>1, <1>2, ClientRuns
<1>4. UserPages' = UserPages \ {f}
  BY <1>2, <1>3 DEF UserPages, Pfree
<1>5. Stage = "run" /\ Stage' = "run"
  BY <1>1 DEF Stage
<1>6. ImagePages' = ImagePages
  BY <1>3 DEF ImagePages
<1>7. f \in Frames
  BY <1>1 DEF MmTypeOK, TypeOK, UserPages
<1>8. View!Give(f)
  BY <1>1, <1>3, <1>4, <1>5, <1>6 DEF View!Give, WhenRun
<1>9. QED
  BY <1>3, <1>7, <1>8 DEF View!Next

(* The program writes into a page of its own.                              *)
LEMMA ProgramStores ==
  ASSUME KernelInv, TranslateFollows', NEW f \in held, NEW g \in STORED,
         UmainStore(f, g)
  PROVE  UNCHANGED View!viewVars
<1>1. /\ RunInv /\ MmTypeOK /\ kpc = "umain" /\ kpc' = kpc /\ UNCHANGED mmVars
      /\ f \in UserPages
  BY DEF KernelInv, ControlInv, Running, UmainStore, kernelVars
<1>2. UNCHANGED <<Tables, Space, mem_end, text_end, held>>
  BY <1>1, ClientRuns DEF UmainStore, ClientStore, mmVars
<1>3. UserPages' = UserPages
  BY <1>2 DEF UserPages
<1>4. QED
  BY <1>1, <1>2, <1>3, NothingSeen

(* Every step of the boot and of the program is a step of UserView or      *)
(* none.                                                                   *)
LEMMA KernelRefines ==
  ASSUME KernelInv, [KernelNext]_everything, TranslateFollows'
  PROVE  [View!Next]_(View!viewVars)
<1>1. CASE \/ SetupStack \/ ClearBss \/ StartKern \/ StartInit
           \/ UNCHANGED everything
  <2>1. UNCHANGED <<allVars, text_end, held, mem_end>>
    BY <1>1 DEF SetupStack, ClearBss, StartKern, StartInit, everything,
                allVars, vars, mmVars
  <2>2. UNCHANGED <<Space, Tables, UserPages>>
    BY <2>1, MemoryKept DEF UserPages
  <2>3. QED
    BY <1>1, <2>1, <2>2, NothingSeen
    DEF SetupStack, ClearBss, StartKern, StartInit, everything, kernelVars,
        Booting, Early
<1>2. CASE AllocInit
  <2>1. UNCHANGED text_end /\ kpc \in Booting /\ kpc' \in Booting
    BY <1>2 DEF AllocInit, mmVars, Booting, Early
  <2>2. QED
    BY <2>1, NothingSeen DEF Booting, Early
<1>3. CASE PzMmInit
  <2>1. UNCHANGED text_end /\ kpc = "mm_init"
    BY <1>3 DEF PzMmInit, MmStep, MmRoot, MapEnter, WalkTooLarge, WalkDown,
                WalkAlloc, WalkNoPage, MapSet
  <2>2. kpc' \in {"mm_init", "init_cpu", "panic", "trap"}
    BY <1>3 DEF PzMmInit
  <2>3. CASE kpc' \in {"mm_init", "init_cpu"}
    BY <2>1, <2>3, NothingSeen DEF Booting, Early
  <2>4. CASE kpc' \in {"panic", "trap"}
    <3>1. Stage = "boot" /\ Stage' \in {"stopped", "hung"}
      BY <2>1, <2>4 DEF Stage
    <3>2. QED
      BY <2>1, <3>1, ProgramGone
  <2>5. QED
    BY <2>2, <2>3, <2>4
<1>4. CASE PzMmInitWild
  <2>1. UNCHANGED text_end /\ Stage = "boot" /\ Stage' = "hung"
    BY <1>4 DEF PzMmInitWild, allVars, mmVars, Stage
  <2>2. QED
    BY <2>1, ProgramGone
<1>5. CASE MmInitCpu
  <2>1. UNCHANGED text_end /\ kpc = "init_cpu"
        /\ (kpc' = "start_init" \/ kpc' = "trap")
    BY <1>5 DEF MmInitCpu, allVars, mmVars
  <2>2. CASE kpc' = "trap"
    <3>1. Stage = "boot" /\ Stage' = "hung"
      BY <2>1, <2>2 DEF Stage
    <3>2. QED
      BY <2>1, <3>1, ProgramGone
  <2>3. QED
    BY <1>5, <2>1, <2>2, ProgramEnters
<1>6. CASE Shutdown
  <2>1. UNCHANGED text_end /\ Stage = "stopped" /\ Stage' = "off"
    BY <1>6 DEF Shutdown, SbiShutdown, ShutsDown, allVars, mmVars, Stage
  <2>2. Wanted' = Wanted /\ View!NoProgram'
    BY <2>1 DEF Wanted, View!NoProgram, View!NoSpace, WhenRun
  <2>3. QED
    BY <2>1, <2>2 DEF View!Next, View!PowerOff
<1>7. CASE UmainPnew
  <2>1. kpc = "umain" /\ (kpc' = kpc \/ kpc' = "trap") /\ UNCHANGED text_end
    BY <1>7 DEF UmainPnew, mmVars
  <2>2. CASE kpc' = "trap"
    <3>1. Stage = "run" /\ Stage' = "hung"
      BY <2>1, <2>2 DEF Stage
    <3>2. QED
      BY <2>1, <3>1, ProgramGone
  <2>3. QED
    BY <1>7, <2>1, <2>2, ProgramTakes
<1>8. ASSUME NEW f \in held, UmainPfree(f)
      PROVE  View!Next
  <2>1. kpc = "umain" /\ (kpc' = kpc \/ kpc' = "trap") /\ UNCHANGED text_end
    BY <1>8 DEF UmainPfree, mmVars
  <2>2. CASE kpc' = "trap"
    <3>1. Stage = "run" /\ Stage' = "hung"
      BY <2>1, <2>2 DEF Stage
    <3>2. QED
      BY <2>1, <3>1, ProgramGone
  <2>3. QED
    BY <1>8, <2>1, <2>2, ProgramGives
<1>9. CASE UmainUartPuts
  <2>1. UNCHANGED <<allVars, text_end, held, mem_end>> /\ kpc = "umain"
    BY <1>9 DEF UmainUartPuts, allVars, vars, mmVars
  <2>2. CASE kpc' = kpc
    <3>1. UNCHANGED <<Space, Tables, UserPages>>
      BY <2>1, MemoryKept DEF UserPages
    <3>2. QED
      BY <2>1, <2>2, <3>1, NothingSeen
  <2>3. CASE kpc' = "uart_fault"
    <3>1. Stage = "run" /\ Stage' = "hung"
      BY <2>1, <2>3 DEF Stage
    <3>2. QED
      BY <2>1, <3>1, ProgramGone
  <2>4. QED
    BY <1>9, <2>2, <2>3 DEF UmainUartPuts
<1>10. CASE UmainReturn
  <2>1. UNCHANGED text_end /\ Stage = "run" /\ Stage' = "stopped"
    BY <1>10 DEF UmainReturn, allVars, mmVars, Stage
  <2>2. QED
    BY <2>1, ProgramGone
<1>11. QED
  BY <1>1, <1>2, <1>3, <1>4, <1>5, <1>6, <1>7, <1>8, <1>9, <1>10, ProgramStores
  DEF KernelNext, Kern, Umain

(* UserViewTheorem: whatever the image and the hart, the program is        *)
(* entered with the whole address space in place, gets only writable pages *)
(* that are no page of the image, of the tables or of its own, and nothing *)
(* it does with them changes the address space.                            *)
THEOREM UserViewTheorem == KernelSpec => ImplementsUserView
<1>1. KernelInit => View!Init
  BY ViewStarts
<1>2. KernelInv /\ [KernelNext]_everything /\ TranslateFollows'
        => [View!Next]_(View!viewVars)
  BY KernelRefines
<1>3. TranslateFollows
  BY TranslateIs
<1>4. QED
  BY <1>1, <1>2, <1>3, KernelInvariance, PTL
  DEF KernelSpec, ImplementsUserView, View!Spec

=============================================================================
