------------------------------- MODULE Startup -------------------------------
(***************************************************************************)
(* From the firmware to the boot menu: the boot loader                     *)
(* (bootloader/src/main.rs) reads the kernel into a buffer, copies its     *)
(* segments to where they were linked and leaves boot services; kmain      *)
(* counts the memory, puts the bitmap of the memory manager at a fixed     *)
(* place, allocates its own memory and the page tables (paging.rs) and     *)
(* switches to them.  Then come the callers of the memory manager and the  *)
(* sector reads.                                                           *)
(*                                                                         *)
(* Nobody reserves the fixed places with anybody: what protects them is    *)
(* that the firmware hands out memory from the top and that the manager    *)
(* frees nothing below LowLimit.                                           *)
(***************************************************************************)
EXTENDS Integers, FiniteSets, Sequences

CONSTANTS
  Pages,        \* the page numbers of the machine
  Layouts,      \* what is free, and what the firmware itself needs, at first
  Image,        \* the pages the kernel is linked to (0x1000000)
  KernelStack,  \* the pages below 0x1FFFFF0 that kmain's stack needs
  BitmapStart,  \* 0x2000000
  PerPage,      \* pages that one page of the bitmap has bits for
  LowLimit,     \* 0x4000000
  FilePages, StackPages,  \* buffer for kernel.elf, stack of the loader
  HeapPages, AhciPages,   \* what kmain asks for
  Directories,  \* page directories; each maps Reach pages
  Reach,
  Dma,          \* the page of the DMA buffer, 0x10000000
  Requests      \* page counts that callers ask for later

Run(s, n) == s .. (s + n - 1)
BitmapPages(total) == Run(BitmapStart, (total + PerPage - 1) \div PerPage)
Fixed == Image \cup KernelStack \cup BitmapPages(Cardinality(Pages))

ASSUME PagesAssumption ==
  /\ Pages \subseteq Nat /\ IsFiniteSet(Pages)
  /\ \A l \in Layouts : /\ l.conventional \subseteq Pages
                        /\ l.firmware \subseteq Pages \ l.conventional

ASSUME PlacesAssumption ==
  /\ Fixed \subseteq Pages
  /\ BitmapStart \in Nat /\ PerPage \in Nat \ {0} /\ LowLimit \in Nat
  /\ Dma \in Nat /\ Dma >= LowLimit
  /\ \A p \in Fixed : p < LowLimit
  /\ Image \cap KernelStack = {}
  /\ (Image \cup KernelStack) \cap BitmapPages(Cardinality(Pages)) = {}

ASSUME SizesAssumption ==
  /\ HeapPages \in Nat \ {0} /\ AhciPages \in Nat \ {0}
  /\ FilePages \in 1..HeapPages /\ StackPages \in 1..HeapPages
  /\ Directories \in Nat \ {0} /\ Reach \in Nat \ {0}
  /\ Requests \subseteq Nat \ {0}

VARIABLES
  pc,      \* the next step; "panic" halts, "lost" is a machine gone wild
  layout,  \* the memory map at first
  conv,    \* EfiConventionalMemory now; the map, once the firmware is left
  mem,     \* what each page holds: whose it is, and table entries
  at,      \* where the loader's and kmain's objects are
  total,   \* total_ram, in pages
  free,    \* the pages whose bit is 0
  held     \* pages given to later callers, by run

vars == <<pc, layout, conv, mem, at, total, free, held>>

Of(kind) == [kind |-> kind, to |-> <<>>]
Filled(S, c) == [p \in Pages |-> IF p \in S THEN c ELSE mem[p]]
Holds(S, kind) == \A p \in S : mem[p].kind = kind

-----------------------------------------------------------------------------
(* The firmware.  AnyPages and pools come from the top: the highest run    *)
(* that fits.                                                              *)
Fits(S, s, n) == Run(s, n) \subseteq S

FirmwareGives(s, n) ==
  Fits(conv, s, n) /\ \A t \in Pages : t > s => ~ Fits(conv, t, n)

FirmwareHasNone(n) == \A s \in Pages : ~ Fits(conv, s, n)

Init ==
  /\ layout \in Layouts
  /\ pc = "file"
  /\ conv = layout.conventional
  /\ mem = [p \in Pages |-> IF p \in layout.firmware THEN Of("firmware") ELSE Of("")]
  /\ at = [file |-> 0, stack |-> 0, map |-> 0, ahci |-> 0, heap |-> 0,
           pml4 |-> 0, pdpt |-> 0, pd |-> <<>>]
  /\ total = 0 /\ free = {} /\ held = {}

-----------------------------------------------------------------------------
(* The boot loader.                                                        *)

Fails == pc' = "panic" /\ UNCHANGED <<layout, conv, mem, at, total, free, held>>

(* vec![0u8; file_size] and file.read.                                     *)
LoadFile ==
  /\ pc = "file"
  /\ \/ FirmwareHasNone(FilePages) /\ Fails
     \/ \E s \in Pages :
          /\ FirmwareGives(s, FilePages)
          /\ conv' = conv \ Run(s, FilePages)
          /\ mem' = Filled(Run(s, FilePages), Of("file"))
          /\ at' = [at EXCEPT !.file = s]
          /\ pc' = "copy"
          /\ UNCHANGED <<layout, total, free, held>>

(* A page of a segment: the answer of allocate_pages(Address) is ignored,  *)
(* so the page is written whether it was free or not.  What the firmware   *)
(* does once its own memory was overwritten, nobody can say.               *)
Copied(p) == mem[p].kind \in {"image", "broken"}

CopySegment == \E p \in Image :
  /\ pc = "copy" /\ ~ Copied(p) /\ \A q \in Image : q < p => Copied(q)
  /\ conv' = conv \ {p}
  /\ mem' = [mem EXCEPT ![p] =
       IF Holds(Run(at.file, FilePages), "file") THEN Of("image") ELSE Of("broken")]
  /\ pc' = IF mem[p].kind = "firmware" THEN "lost" ELSE "copy"
  /\ UNCHANGED <<layout, at, total, free, held>>

AllocateStack ==
  /\ pc = "copy" /\ \A p \in Image : Copied(p)
  /\ \/ FirmwareHasNone(StackPages) /\ Fails
     \/ \E s \in Pages :
          /\ FirmwareGives(s, StackPages)
          /\ conv' = conv \ Run(s, StackPages)
          /\ mem' = Filled(Run(s, StackPages), Of("loader stack"))
          /\ at' = [at EXCEPT !.stack = s]
          /\ pc' = "exit"
          /\ UNCHANGED <<layout, total, free, held>>

(* exit_boot_services allocates the buffer for the map before it gets it.  *)
ExitBootServices ==
  /\ pc = "exit"
  /\ \/ FirmwareHasNone(1) /\ Fails
     \/ \E s \in Pages :
          /\ FirmwareGives(s, 1)
          /\ conv' = conv \ {s}
          /\ mem' = Filled({s}, Of("map"))
          /\ at' = [at EXCEPT !.map = s]
          /\ pc' = "start"
          /\ UNCHANGED <<layout, total, free, held>>

-----------------------------------------------------------------------------
(* kmain.  Until it has its own page tables and the free memory, it needs  *)
(* the firmware's memory, where its arguments are, and the map.            *)

Alive == /\ Holds(Image, "image") /\ Holds(layout.firmware, "firmware")
         /\ mem[at.map].kind = "map"

(* _start takes a stack of its own.                                        *)
Start ==
  /\ pc = "start" /\ pc' = "count"
  /\ mem' = Filled(KernelStack, Of("stack"))
  /\ UNCHANGED <<layout, conv, at, total, free, held>>

GoesWild ==
  /\ pc \in {"count", "free"} /\ ~ Alive
  /\ pc' = "lost"
  /\ UNCHANGED <<layout, conv, mem, at, total, free, held>>

(* A slip: a byte of the bitmap for every page.                            *)
CountMemoryInBytes ==
  /\ pc = "count" /\ Alive
  /\ total' = Cardinality(conv)
  /\ mem' = Filled(Run(BitmapStart, total') \cap Pages, Of("bitmap"))
  /\ pc' = "free"
  /\ UNCHANGED <<layout, conv, at, free, held>>

(* The first pass over the map, then RamManager::new, which sets all bits. *)
CountMemory ==
  /\ pc = "count" /\ Alive
  /\ total' = Cardinality(conv)
  /\ mem' = Filled(BitmapPages(total'), Of("bitmap"))
  /\ pc' = "free"
  /\ UNCHANGED <<layout, conv, at, free, held>>

(* A slip: the pages below the limit are freed too.                        *)
MarkFreeAll ==
  /\ pc = "free" /\ Alive
  /\ free' = {p \in conv : p < total}
  /\ pc' = "ahci"
  /\ UNCHANGED <<layout, conv, mem, at, total, held>>

(* The second pass.                                                        *)
MarkFree ==
  /\ pc = "free" /\ Alive
  /\ free' = {p \in conv : p >= LowLimit /\ p < total}
  /\ pc' = "ahci"
  /\ UNCHANGED <<layout, conv, mem, at, total, held>>

(* allocate_sectors, which takes the lowest run that fits.                 *)
ManagerGives(s, n) ==
  /\ Fits(free, s, n) /\ \A t \in Pages : t < s => ~ Fits(free, t, n)
  /\ free' = free \ Run(s, n)

ManagerHasNone(n) == \A s \in Pages : ~ Fits(free, s, n)

(* kmain expects its requests to be met and panics if one is not.          *)
Obtains(here, there, n, kind, field) ==
  /\ pc = here
  /\ \/ ManagerHasNone(n) /\ Fails
     \/ \E s \in Pages :
          /\ ManagerGives(s, n)
          /\ mem' = Filled(Run(s, n), Of(kind))
          /\ at' = [at EXCEPT ![field] = s]
          /\ pc' = there
          /\ UNCHANGED <<layout, conv, total, held>>

AllocateAhci == Obtains("ahci", "heap", AhciPages, "ahci", "ahci")
AllocateHeap == Obtains("heap", "pml4", HeapPages, "heap", "heap")
AllocatePml4 == Obtains("pml4", "pdpt", 1, "pml4", "pml4")

(* A table with one more entry.                                            *)
WithEntry(t, e) == [mem[t] EXCEPT !.to = Append(@, e)]

AllocatePdpt ==
  /\ pc = "pdpt"
  /\ \/ ManagerHasNone(1) /\ Fails
     \/ \E s \in Pages :
          /\ ManagerGives(s, 1)
          /\ mem' = [mem EXCEPT ![s] = Of("pdpt"), ![at.pml4] = WithEntry(at.pml4, s)]
          /\ at' = [at EXCEPT !.pdpt = s]
          /\ pc' = "directories"
          /\ UNCHANGED <<layout, conv, total, held>>

(* A slip: every directory maps the first pages.                           *)
AllocateDirectoryAgain ==
  /\ pc = "directories" /\ Len(at.pd) < Directories
  /\ \/ ManagerHasNone(1) /\ Fails
     \/ \E s \in Pages :
          /\ ManagerGives(s, 1)
          /\ mem' = [mem EXCEPT ![s] = [kind |-> "pd", to |-> <<0>>],
                                ![at.pdpt] = WithEntry(at.pdpt, s)]
          /\ at' = [at EXCEPT !.pd = Append(@, s)]
          /\ UNCHANGED <<pc, layout, conv, total, held>>

(* One turn of the loop over the directories; each maps the next Reach     *)
(* pages, and what it holds is the first of them.                          *)
AllocateDirectory ==
  /\ pc = "directories" /\ Len(at.pd) < Directories
  /\ \/ ManagerHasNone(1) /\ Fails
     \/ \E s \in Pages :
          /\ ManagerGives(s, 1)
          /\ mem' = [mem EXCEPT
               ![s] = [kind |-> "pd", to |-> <<Len(at.pd) * Reach>>],
               ![at.pdpt] = WithEntry(at.pdpt, s)]
          /\ at' = [at EXCEPT !.pd = Append(@, s)]
          /\ UNCHANGED <<pc, layout, conv, total, held>>

LoadCr3 ==
  /\ pc = "directories" /\ Len(at.pd) = Directories
  /\ pc' = "menu"
  /\ UNCHANGED <<layout, conv, mem, at, total, free, held>>

-----------------------------------------------------------------------------
(* Afterwards: callers of the memory manager, who write what they hold,    *)
(* and sector reads.                                                       *)

Hold(n) == \E s \in Pages :
  /\ pc = "menu"
  /\ ManagerGives(s, n)
  /\ held' = held \cup {Run(s, n)}
  /\ mem' = Filled(Run(s, n), Of("program"))
  /\ UNCHANGED <<pc, layout, conv, at, total>>

(* A slip: the freeing loop runs one page too far.                         *)
UnmapOneMore == \E r \in held :
  /\ pc = "menu"
  /\ held' = held \ {r}
  /\ free' = free \cup r \cup ({p + 1 : p \in r} \cap Pages)
  /\ UNCHANGED <<pc, layout, conv, mem, at, total>>

Unmap == \E r \in held :
  /\ pc = "menu"
  /\ held' = held \ {r}
  /\ free' = free \cup r
  /\ UNCHANGED <<pc, layout, conv, mem, at, total>>

ReadSector ==
  /\ pc = "menu"
  /\ mem' = Filled({Dma}, Of("sector"))
  /\ UNCHANGED <<pc, layout, conv, at, total, free, held>>

Loader == LoadFile \/ CopySegment \/ AllocateStack \/ ExitBootServices
Kmain == \/ Start \/ GoesWild \/ CountMemory \/ MarkFree
         \/ AllocateAhci \/ AllocateHeap
         \/ AllocatePml4 \/ AllocatePdpt \/ AllocateDirectory \/ LoadCr3

Next == Loader \/ Kmain \/ (\E n \in Requests : Hold(n)) \/ Unmap \/ ReadSector

Spec == Init /\ [][Next]_vars

-----------------------------------------------------------------------------
(* A run of pages for the heap is left above the limit.                    *)
Roomy == \E s \in Pages : s >= LowLimit /\ Fits(conv, s, HeapPages)

(* Whatever memory there is: as long as a heap would fit above the limit,  *)
(* or one was found, all that the fixed places hold is what should be      *)
(* there, the image a true copy of the file, and the map was not           *)
(* overwritten before it was read, although the loader ignores refusals,   *)
(* kmain's stack and the bitmap are reserved with nobody, and the bitmap   *)
(* is written between the two passes over the map.  (Unless the firmware   *)
(* itself sits on a fixed place.)                                          *)
FixedPlacesSafe ==
  Roomy /\ layout.firmware \cap Fixed = {} =>
    /\ pc # "lost"
    /\ pc \notin {"file", "copy"} => Holds(Image, "image")
    /\ pc \in {"count", "free"} => Alive

TablePages == {at.pml4, at.pdpt} \cup {at.pd[j] : j \in DOMAIN at.pd}
KernelPages == TablePages \cup Run(at.heap, HeapPages) \cup Run(at.ahci, AhciPages)

(* In the menu and for ever after, whatever is mapped and unmapped: each   *)
(* thing kmain set up is on pages of its own and intact, but for a page    *)
(* that the DMA buffer happens to share.                                   *)
KernelIntact ==
  pc = "menu" =>
    /\ Holds(Image, "image") /\ Holds(KernelStack, "stack")
    /\ Holds(BitmapPages(total), "bitmap")
    /\ Holds(Run(at.ahci, AhciPages) \ {Dma}, "ahci")
    /\ Holds(Run(at.heap, HeapPages) \ {Dma}, "heap")

(* What the CPU makes of an address after "mov cr3" (init_os_paging).      *)
Walk(p) ==
  LET pdpt == mem[at.pml4].to[1]
      pd == mem[pdpt].to[p \div Reach + 1]
  IN  mem[pd].to[1] + (p % Reach)

(* From the switch to the new tables on every address of the first         *)
(* Directories means itself, unless the DMA buffer lies in a table.        *)
IdentityMapped ==
  pc = "menu" /\ Dma \notin TablePages =>
    \A p \in Pages : p < Directories * Reach => Walk(p) = p

(* Nothing that anybody else uses is handed out, and callers find on their *)
(* pages what they wrote, but for the page of the DMA buffer.              *)
CallersUndisturbed ==
  pc = "menu" =>
    /\ free \subseteq conv \ (Fixed \cup KernelPages \cup layout.firmware)
    /\ \A r \in held : r \cap (free \cup KernelPages \cup Fixed) = {}
                       /\ Holds(r \ {Dma}, "program")
    /\ \A r, q \in held : r = q \/ r \cap q = {}
==============================================================================
