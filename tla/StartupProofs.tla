--------------------------- MODULE StartupProofs ---------------------------
(***************************************************************************)
(* Startup proved for every machine, every memory map and all sizes: as    *)
(* long as a heap fits above the limit the loader leaves a true image and  *)
(* nothing overwrites what kmain still reads; what kmain sets up stays     *)
(* intact for ever, its tables map each address to itself, and callers of  *)
(* the memory manager are undisturbed, all but for the DMA buffer's page.  *)
(*                                                                         *)
(* The argument is one of places: the firmware's runs and all of the       *)
(* manager's lie above the limit, the fixed places below it, and a page    *)
(* that has been handed out is no longer free.                             *)
(***************************************************************************)
EXTENDS Startup, FiniteSetTheorems, TLAPS

Early == {"file", "copy", "exit", "start", "count", "free"}
InMenu == {"menu"}
AfterPdpt == {"directories"} \cup InMenu
AfterPml4 == {"pdpt"} \cup AfterPdpt
AfterHeap == {"pml4"} \cup AfterPml4
AfterAhci == {"heap"} \cup AfterHeap
Late == {"ahci"} \cup AfterAhci

High == {p \in conv : p >= LowLimit}

Places == [file : Nat, stack : Nat, map : Nat, ahci : Nat, heap : Nat,
           pml4 : Nat, pdpt : Nat, pd : Seq(Nat)]

Kinds == {"", "firmware", "file", "image", "broken", "loader stack", "map", "stack",
          "bitmap", "ahci", "heap", "pml4", "pdpt", "pd", "program", "sector"}
Cells == [kind : Kinds, to : Seq(Nat)]

TypesOK ==
  /\ layout \in Layouts
  /\ conv \subseteq layout.conventional
  /\ mem \in [Pages -> Cells]
  /\ at \in Places
  /\ total \in Nat /\ total <= Cardinality(Pages)

(* Nobody holds what is free or what another holds.                        *)
BooksOK ==
  /\ pc \in Early => free = {}
  /\ pc # "menu" => held = {}
  /\ free \subseteq High
  /\ \A r \in held : r \subseteq High /\ r \cap free = {} /\ Holds(r \ {Dma}, "program")
  /\ \A r, q \in held : r = q \/ r \cap q = {}

(* What kmain has taken and keeps.                                         *)
Owned == High \ (free \cup UNION held)

PdPages == {at.pd[j] : j \in DOMAIN at.pd}

KernelOK ==
  /\ pc \in {"count", "free"} \cup Late => Holds(KernelStack, "stack")
  /\ pc \in {"free"} \cup Late => Holds(BitmapPages(total), "bitmap")
  /\ pc \in Late => Holds(Image, "image")
  /\ pc \in AfterAhci =>
       /\ Run(at.ahci, AhciPages) \subseteq Owned
       /\ Holds(Run(at.ahci, AhciPages) \ {Dma}, "ahci")
  /\ pc \in AfterHeap =>
       /\ Run(at.heap, HeapPages) \subseteq Owned
       /\ Holds(Run(at.heap, HeapPages) \ {Dma}, "heap")

(* Every table is on a page of its own and has the entries it was given.   *)
TablesOK ==
  /\ pc \in (Early \cup Late) \ AfterPdpt => at.pd = <<>>
  /\ pc \in AfterPml4 => at.pml4 \in Owned
  /\ pc = "pdpt" => mem[at.pml4].to = <<>>
  /\ pc \in AfterPdpt =>
       /\ at.pdpt \in Owned /\ PdPages \subseteq Owned
       /\ at.pml4 # at.pdpt /\ {at.pml4, at.pdpt} \cap PdPages = {}
       /\ \A i, j \in DOMAIN at.pd : at.pd[i] = at.pd[j] => i = j
       /\ pc = "directories" \/ Dma \notin TablePages =>
            /\ mem[at.pml4].to = <<at.pdpt>>
            /\ mem[at.pdpt].to = at.pd
            /\ \A j \in DOMAIN at.pd : mem[at.pd[j]].to = <<(j - 1) * Reach>>
  /\ pc = "menu" => Len(at.pd) = Directories

(* While the loader and kmain's first steps run.                           *)
Sound == Roomy /\ layout.firmware \cap Fixed = {}

BootOK ==
  Sound =>
    /\ pc # "lost"
    /\ pc \in Early => Holds(layout.firmware, "firmware")
    /\ pc \in {"file", "copy"} => \A p \in Image : mem[p].kind \notin {"broken", "firmware"}
    /\ pc = "copy" => /\ \A p \in Run(at.file, FilePages) : p >= LowLimit
                      /\ Holds(Run(at.file, FilePages), "file")
    /\ pc \notin {"file", "copy"} => Holds(Image, "image")
    /\ pc \in {"start", "count", "free"} =>
         at.map \in Pages /\ at.map >= LowLimit /\ mem[at.map].kind = "map"

StartupInv == TypesOK /\ BooksOK /\ KernelOK /\ TablesOK /\ BootOK

-----------------------------------------------------------------------------
(* The places.                                                             *)
LEMMA DivMonotone ==
  ASSUME NEW a \in Nat, NEW b \in Nat, a <= b, NEW d \in Nat \ {0}
  PROVE  (a \div d) \in Nat /\ (b \div d) \in Nat /\ a \div d <= b \div d
  BY SMT

LEMMA PagesFinite == IsFiniteSet(Pages) /\ Cardinality(Pages) \in Nat
  BY PagesAssumption, FS_CardinalityType

LEMMA BitmapFixed ==
  ASSUME NEW n \in Nat, n <= Cardinality(Pages)
  PROVE  BitmapPages(n) \subseteq BitmapPages(Cardinality(Pages))
<1> DEFINE a == n + PerPage - 1
           b == Cardinality(Pages) + PerPage - 1
<1>1. a \in Nat /\ b \in Nat /\ a <= b
  BY PagesFinite, PlacesAssumption
<1>2. (a \div PerPage) \in Nat /\ (b \div PerPage) \in Nat
      /\ a \div PerPage <= b \div PerPage
  BY <1>1, DivMonotone, PlacesAssumption
<1> QED
  BY <1>2, PlacesAssumption DEF BitmapPages, Run

(* The fixed places are low, pages of the machine and apart.               *)
LEMMA FixedPlaces ==
  ASSUME NEW n \in Nat, n <= Cardinality(Pages)
  PROVE  /\ BitmapPages(n) \subseteq Fixed
         /\ Image \subseteq Fixed /\ KernelStack \subseteq Fixed
         /\ Fixed \subseteq Pages /\ \A p \in Fixed : p \in Nat /\ p < LowLimit
         /\ Image \cap KernelStack = {}
         /\ (Image \cup KernelStack) \cap BitmapPages(n) = {}
  BY BitmapFixed, PagesAssumption, PlacesAssumption DEF Fixed

LEMMA LayoutPages ==
  ASSUME TypesOK
  PROVE  /\ conv \subseteq Pages /\ conv \cap layout.firmware = {}
         /\ layout.firmware \subseteq Pages /\ Pages \subseteq Nat
         /\ High \subseteq Pages
  BY PagesAssumption DEF TypesOK, High

LEMMA RunPages ==
  ASSUME NEW s \in Nat, NEW n \in Nat \ {0}
  PROVE  s \in Run(s, n) /\ \A p \in Run(s, n) : p \in Nat /\ p >= s
  BY DEF Run

LEMMA FilledPages ==
  ASSUME DOMAIN mem = Pages, NEW S, NEW c, mem' = Filled(S, c)
  PROVE  /\ DOMAIN mem' = Pages
         /\ \A p \in Pages : mem'[p] = IF p \in S THEN c ELSE mem[p]
  BY DEF Filled

LEMMA KindOf == \A kind : Of(kind).kind = kind /\ Of(kind).to = <<>>
  BY DEF Of

LEMMA CellsOf == \A kind \in Kinds : Of(kind) \in Cells
<1>1. <<>> \in Seq(Nat)
  OBVIOUS
<1> QED
  BY <1>1 DEF Of, Cells

-----------------------------------------------------------------------------
LEMMA StartupInit == Init => StartupInv
<1> SUFFICES ASSUME Init PROVE StartupInv
  OBVIOUS
<1>1. TypesOK
  <2>1. at \in Places
    <3>1. <<>> \in Seq(Nat)
      OBVIOUS
    <3>2. at = [file |-> 0, stack |-> 0, map |-> 0, ahci |-> 0, heap |-> 0,
                pml4 |-> 0, pdpt |-> 0, pd |-> <<>>]
      BY DEF Init
    <3> QED
      BY <3>1, <3>2 DEF Places
  <2>2. mem \in [Pages -> Cells]
    BY CellsOf DEF Init, Kinds
  <2>3. layout \in Layouts /\ conv = layout.conventional /\ total = 0
    BY DEF Init
  <2> QED
    BY <2>1, <2>2, <2>3, PagesFinite DEF TypesOK
<1>2. BootOK
  <2>1. layout.firmware \subseteq Pages /\ Image \subseteq Pages /\ Image \subseteq Fixed
    BY <1>1, LayoutPages, FixedPlaces, PagesFinite
  <2>2. \A p \in Pages :
          mem[p] = IF p \in layout.firmware THEN Of("firmware") ELSE Of("")
    BY DEF Init
  <2>3. Of("firmware").kind = "firmware" /\ Of("").kind = ""
    BY KindOf
  <2> QED
    BY <2>1, <2>2, <2>3 DEF Init, BootOK, Sound, Holds, Early
<1> QED
  BY <1>1, <1>2 DEF Init, StartupInv, BooksOK, KernelOK, TablesOK, Late, AfterAhci,
     AfterHeap, AfterPml4, AfterPdpt, InMenu

LEMMA EntryAdded ==
  ASSUME mem \in [Pages -> Cells], NEW t \in Pages, NEW e \in Nat
  PROVE  /\ WithEntry(t, e) \in Cells
         /\ WithEntry(t, e).kind = mem[t].kind
         /\ WithEntry(t, e).to = Append(mem[t].to, e)
<1>1. mem[t] \in Cells /\ Append(mem[t].to, e) \in Seq(Nat)
  BY DEF Cells
<1> QED
  BY <1>1 DEF WithEntry, Cells

LEMMA TypesStep == TypesOK /\ TablesOK /\ [Next]_vars => TypesOK'
<1> SUFFICES ASSUME TypesOK, TablesOK, [Next]_vars PROVE TypesOK'
  OBVIOUS
<1> USE DEF TypesOK, Places, Kinds
<1>0. Pages \subseteq Nat /\ mem \in [Pages -> Cells]
  BY LayoutPages
<1>1. ASSUME NEW S, NEW kind \in Kinds, mem' = Filled(S, Of(kind))
      PROVE  mem' \in [Pages -> Cells]
  BY <1>0, <1>1, CellsOf DEF Filled
<1>2. CASE LoadFile \/ AllocateStack \/ ExitBootServices
  BY <1>0, <1>1, <1>2 DEF LoadFile, AllocateStack, ExitBootServices, Fails
<1>3. CASE CopySegment
  BY <1>0, <1>3, CellsOf DEF CopySegment
<1>4. CASE Start \/ GoesWild \/ MarkFree \/ LoadCr3 \/ Unmap \/ ReadSector
  BY <1>0, <1>1, <1>4 DEF Start, GoesWild, MarkFree, LoadCr3, Unmap, ReadSector
<1>5. CASE CountMemory
  <2>1. conv \subseteq Pages
    BY LayoutPages
  <2>2. Cardinality(conv) \in Nat /\ Cardinality(conv) <= Cardinality(Pages)
    BY <2>1, PagesAssumption, FS_Subset, FS_CardinalityType
  <2> QED
    BY <1>0, <1>1, <1>5, <2>2 DEF CountMemory
<1>6. CASE AllocateAhci \/ AllocateHeap \/ AllocatePml4
  BY <1>0, <1>1, <1>6 DEF AllocateAhci, AllocateHeap, AllocatePml4, Obtains, Fails
<1>7. CASE AllocatePdpt
  <2>1. CASE Fails
    BY <2>1 DEF Fails
  <2>2. ASSUME NEW s \in Pages,
               mem' = [mem EXCEPT ![s] = Of("pdpt"), ![at.pml4] = WithEntry(at.pml4, s)]
        PROVE  mem' \in [Pages -> Cells]
    <3>1. at.pml4 \in Pages
      BY <1>7, LayoutPages DEF AllocatePdpt, TablesOK, AfterPml4, Owned
    <3> QED
      BY <1>0, <2>2, <3>1, EntryAdded, CellsOf
  <2> QED
    BY <1>0, <1>7, <2>1, <2>2 DEF AllocatePdpt
<1>8. CASE AllocateDirectory
  <2>1. CASE Fails
    BY <2>1 DEF Fails
  <2>2. ASSUME NEW s \in Pages, pc = "directories",
               mem' = [mem EXCEPT ![s] = [kind |-> "pd", to |-> <<Len(at.pd) * Reach>>],
                                  ![at.pdpt] = WithEntry(at.pdpt, s)]
        PROVE  mem' \in [Pages -> Cells]
    <3>1. at.pdpt \in Pages
      BY <2>2, LayoutPages DEF TablesOK, AfterPdpt, Owned
    <3>2. Len(at.pd) * Reach \in Nat
      BY SizesAssumption
    <3>3. <<Len(at.pd) * Reach>> \in Seq(Nat)
      BY <3>2
    <3>4. [kind |-> "pd", to |-> <<Len(at.pd) * Reach>>] \in Cells
      BY <3>3 DEF Cells, Kinds
    <3> QED
      BY <1>0, <2>2, <3>1, <3>4, EntryAdded
  <2>3. ASSUME NEW s \in Pages, at' = [at EXCEPT !.pd = Append(@, s)] PROVE at' \in Places
    <3>1. Append(at.pd, s) \in Seq(Nat)
      BY <1>0
    <3> QED
      BY <2>3, <3>1
  <2> QED
    BY <1>0, <1>8, <2>1, <2>2, <2>3 DEF AllocateDirectory
<1>9. ASSUME NEW n \in Requests, Hold(n) PROVE TypesOK'
  BY <1>0, <1>1, <1>9 DEF Hold
<1>10. CASE UNCHANGED vars
  BY <1>10 DEF vars
<1> QED
  BY <1>2, <1>3, <1>4, <1>5, <1>6, <1>7, <1>8, <1>9, <1>10 DEF Next, Loader, Kmain

-----------------------------------------------------------------------------
(* What the memory manager gives was free, so it is above the limit and    *)
(* nobody else's.                                                          *)
LEMMA Given ==
  ASSUME TypesOK, BooksOK, NEW s \in Pages, NEW n \in Nat \ {0}, ManagerGives(s, n)
  PROVE  /\ Run(s, n) \subseteq free /\ free' = free \ Run(s, n)
         /\ Run(s, n) \subseteq High /\ s \in Run(s, n)
         /\ \A r \in held : Run(s, n) \cap r = {}
<1>1. s \in Run(s, n)
  BY RunPages, PagesAssumption
<1> QED
  BY <1>1 DEF ManagerGives, Fits, BooksOK

LEMMA Sizes ==
  /\ HeapPages \in Nat \ {0} /\ AhciPages \in Nat \ {0} /\ 1 \in Nat \ {0}
  /\ Requests \subseteq Nat \ {0}
  BY SizesAssumption

LEMMA SectorRead ==
  ASSUME TypesOK, ReadSector
  PROVE  /\ \A p \in Pages : p # Dma => mem'[p] = mem[p]
         /\ UNCHANGED <<conv, free, held>>
<1>1. mem' = Filled({Dma}, Of("sector")) /\ UNCHANGED <<conv, free, held>>
  BY DEF ReadSector
<1> QED
  BY <1>1, FilledPages DEF TypesOK

LEMMA BooksStep == TypesOK /\ BooksOK /\ [Next]_vars => BooksOK'
<1> SUFFICES ASSUME TypesOK, BooksOK, [Next]_vars PROVE BooksOK'
  OBVIOUS
<1> USE DEF BooksOK, High, Early, Holds
<1>1. CASE LoadFile \/ CopySegment \/ AllocateStack \/ ExitBootServices \/ Start
           \/ GoesWild \/ CountMemory
  BY <1>1 DEF LoadFile, CopySegment, AllocateStack, ExitBootServices, Start, GoesWild,
     CountMemory, Fails
<1>2. CASE MarkFree
  BY <1>2 DEF MarkFree
<1>3. CASE AllocateAhci \/ AllocateHeap \/ AllocatePml4
  BY <1>3 DEF AllocateAhci, AllocateHeap, AllocatePml4, Obtains, Fails, ManagerGives
<1>4. CASE AllocatePdpt \/ AllocateDirectory \/ LoadCr3
  BY <1>4 DEF AllocatePdpt, AllocateDirectory, LoadCr3, Fails, ManagerGives
<1>5. ASSUME NEW n \in Requests, Hold(n) PROVE BooksOK'
  <2>1. PICK s \in Pages : /\ ManagerGives(s, n) /\ held' = held \cup {Run(s, n)}
                           /\ mem' = Filled(Run(s, n), Of("program"))
                           /\ pc = "menu" /\ UNCHANGED <<pc, conv>>
    BY <1>5 DEF Hold
  <2>2. /\ free' = free \ Run(s, n) /\ Run(s, n) \subseteq High
        /\ \A r \in held : Run(s, n) \cap r = {}
    BY <2>1, Given, Sizes
  <2>3. \A p \in Pages : mem'[p] = IF p \in Run(s, n) THEN Of("program") ELSE mem[p]
    BY <2>1, FilledPages DEF TypesOK
  <2>4. High \subseteq Pages /\ Of("program").kind = "program"
    BY LayoutPages, KindOf
  <2>5. \A r \in held' : Holds(r \ {Dma}, "program")'
    BY <2>1, <2>2, <2>3, <2>4
  <2> QED
    BY <2>1, <2>2, <2>5
<1>6. CASE Unmap
  BY <1>6 DEF Unmap
<1>7. CASE ReadSector
  BY <1>7, SectorRead, LayoutPages DEF ReadSector
<1>8. CASE UNCHANGED vars
  BY <1>8 DEF vars
<1> QED
  BY <1>1, <1>2, <1>3, <1>4, <1>5, <1>6, <1>7, <1>8 DEF Next, Loader, Kmain

-----------------------------------------------------------------------------
(* The callers of the memory manager and the sector reads, at any time in  *)
(* the menu: they leave alone what kmain owns.                             *)
Callers == (\E n \in Requests : Hold(n)) \/ Unmap \/ ReadSector

LEMMA CallersStep ==
  ASSUME TypesOK, BooksOK, Callers
  PROVE  /\ pc = "menu" /\ UNCHANGED <<pc, conv, at, total, layout>>
         /\ Owned' = Owned
         /\ \A p \in Owned : p # Dma => mem'[p] = mem[p]
         /\ \A p \in Pages : p < LowLimit => mem'[p] = mem[p]
<1>1. ASSUME NEW n \in Requests, Hold(n)
      PROVE  /\ Owned' = Owned
             /\ \A p \in Owned : mem'[p] = mem[p]
             /\ \A p \in Pages : p < LowLimit => mem'[p] = mem[p]
  <2>1. PICK s \in Pages : /\ ManagerGives(s, n) /\ held' = held \cup {Run(s, n)}
                           /\ mem' = Filled(Run(s, n), Of("program"))
                           /\ UNCHANGED conv
    BY <1>1 DEF Hold
  <2>2. free' = free \ Run(s, n) /\ Run(s, n) \subseteq High /\ Run(s, n) \subseteq free
    BY <2>1, Given, Sizes
  <2>3. \A p \in Pages : p \notin Run(s, n) => mem'[p] = mem[p]
    BY <2>1, FilledPages DEF TypesOK
  <2>4. \A p \in Pages : p < LowLimit => p \notin Run(s, n)
    BY <2>2, PagesAssumption, PlacesAssumption DEF High
  <2>5. Owned' = Owned
    BY <2>1, <2>2 DEF Owned, High
  <2> QED
    BY <2>2, <2>3, <2>4, <2>5, LayoutPages DEF Owned
<1>2. CASE Unmap
  BY <1>2 DEF Unmap, BooksOK, Owned, High
<1>3. ASSUME ReadSector
      PROVE  /\ Owned' = Owned
             /\ \A p \in Owned : p # Dma => mem'[p] = mem[p]
             /\ \A p \in Pages : p < LowLimit => mem'[p] = mem[p]
  <2>1. \A p \in Pages : p < LowLimit => p # Dma
    BY PagesAssumption, PlacesAssumption
  <2>2. Owned \subseteq Pages
    BY LayoutPages DEF Owned
  <2>3. Owned' = Owned
    BY <1>3, SectorRead DEF Owned, High
  <2> QED
    BY <1>3, <2>1, <2>2, <2>3, SectorRead
<1>4. pc = "menu" /\ UNCHANGED <<pc, conv, at, total, layout>>
  BY DEF Callers, Hold, Unmap, ReadSector
<1> QED
  BY <1>1, <1>2, <1>3, <1>4 DEF Callers

(* kmain's own allocations: a run that was free and is now owned.          *)
LEMMA KmainTakes ==
  ASSUME TypesOK, BooksOK, NEW s \in Pages, NEW n \in Nat \ {0}, ManagerGives(s, n),
         pc # "menu", UNCHANGED <<conv, held>>
  PROVE  /\ Run(s, n) \subseteq Owned' /\ Owned \subseteq Owned'
         /\ Owned \cap Run(s, n) = {} /\ Run(s, n) \subseteq Pages
         /\ \A p \in Pages : p < LowLimit => p \notin Run(s, n)
<1>1. /\ Run(s, n) \subseteq free /\ free' = free \ Run(s, n) /\ Run(s, n) \subseteq High
  BY Given
<1>2. \A p \in Pages : p < LowLimit => p \notin Run(s, n)
  BY <1>1, PagesAssumption, PlacesAssumption DEF High
<1>3. held = {} /\ High' = High
  BY DEF BooksOK, High
<1> QED
  BY <1>1, <1>2, <1>3, LayoutPages DEF Owned

LEMMA KmainFills ==
  ASSUME TypesOK, BooksOK, NEW s \in Pages, NEW n \in Nat \ {0}, ManagerGives(s, n),
         pc # "menu", UNCHANGED <<conv, held>>,
         NEW kind, mem' = Filled(Run(s, n), Of(kind))
  PROVE  /\ Run(s, n) \subseteq Owned' /\ Owned \subseteq Owned'
         /\ \A p \in Run(s, n) : mem'[p] = Of(kind)
         /\ \A p \in Owned : mem'[p] = mem[p]
         /\ \A p \in Pages : p < LowLimit => mem'[p] = mem[p]
<1>1. \A p \in Pages : mem'[p] = IF p \in Run(s, n) THEN Of(kind) ELSE mem[p]
  BY FilledPages DEF TypesOK
<1> QED
  BY <1>1, KmainTakes, LayoutPages DEF Owned

(* A page for a table, of which an entry is made in the table above.       *)
LEMMA KmainLinks ==
  ASSUME TypesOK, BooksOK, NEW s \in Pages, ManagerGives(s, 1),
         pc # "menu", UNCHANGED <<conv, held>>,
         NEW STATE c, NEW STATE t, t \in Owned,
         mem' = [mem EXCEPT ![s] = c, ![t] = WithEntry(t, s)]
  PROVE  /\ s \in Owned' /\ Owned \subseteq Owned' /\ s \notin Owned /\ s >= LowLimit
         /\ \A p \in Pages : p # s => mem'[p].kind = mem[p].kind
         /\ \A p \in Pages : p # s /\ p # t => mem'[p] = mem[p]
         /\ mem'[s] = c /\ mem'[t].to = Append(mem[t].to, s)
<1>1. Run(s, 1) = {s} /\ 1 \in Nat \ {0}
  BY PagesAssumption DEF Run
<1>2. s \in Owned' /\ Owned \subseteq Owned' /\ s \notin Owned
  BY <1>1, KmainTakes
<1>3. s >= LowLimit
  BY <1>2 DEF Owned, High
<1>4. mem \in [Pages -> Cells] /\ s \in Nat /\ t \in Pages
  BY PagesAssumption, LayoutPages DEF TypesOK, Owned
<1>5. WithEntry(t, s).kind = mem[t].kind /\ WithEntry(t, s).to = Append(mem[t].to, s)
  BY <1>4, EntryAdded
<1>6. \A p \in Pages : p # s => mem'[p].kind = mem[p].kind
  BY <1>4, <1>5
<1> QED
  BY <1>2, <1>3, <1>4, <1>5, <1>6

-----------------------------------------------------------------------------
(* The fixed places once the map has been read, and what kmain owns.       *)
LEMMA KernelStep == TypesOK /\ BooksOK /\ KernelOK /\ TablesOK /\ [Next]_vars => KernelOK'
<1> SUFFICES ASSUME TypesOK, BooksOK, KernelOK, TablesOK, [Next]_vars PROVE KernelOK'
  OBVIOUS
<1> DEFINE Low == {p \in Pages : p < LowLimit}
<1>1. /\ total \in Nat /\ total <= Cardinality(Pages) /\ DOMAIN mem = Pages
      /\ Image \subseteq Low /\ KernelStack \subseteq Low
      /\ BitmapPages(total) \subseteq Low /\ Image \cap KernelStack = {}
      /\ (Image \cup KernelStack) \cap BitmapPages(total) = {}
  BY FixedPlaces DEF TypesOK
<1>2. CASE LoadFile \/ CopySegment \/ AllocateStack \/ ExitBootServices \/ GoesWild
  BY <1>2 DEF LoadFile, CopySegment, AllocateStack, ExitBootServices, GoesWild, Fails,
     KernelOK, Late, AfterAhci, AfterHeap, AfterPml4, AfterPdpt, InMenu
<1>3. CASE Start
  <2>1. \A p \in Pages : p \in KernelStack => mem'[p] = Of("stack")
    BY <1>1, <1>3, FilledPages DEF Start
  <2> QED
    BY <1>1, <1>3, <2>1, KindOf DEF Start, KernelOK, Holds, Late, AfterAhci, AfterHeap,
       AfterPml4, AfterPdpt, InMenu
<1>4. CASE CountMemory
  <2>1. mem' = Filled(BitmapPages(total'), Of("bitmap")) /\ pc = "count" /\ pc' = "free"
    BY <1>4 DEF CountMemory
  <2>2. total' \in Nat /\ total' <= Cardinality(Pages)
    BY TypesStep DEF TypesOK
  <2>3. BitmapPages(total') \subseteq Pages /\ KernelStack \cap BitmapPages(total') = {}
    BY <2>2, FixedPlaces
  <2>4. \A p \in Pages :
          mem'[p] = IF p \in BitmapPages(total') THEN Of("bitmap") ELSE mem[p]
    BY <1>1, <2>1, FilledPages
  <2>5. Of("bitmap").kind = "bitmap"
    BY KindOf
  <2> QED
    BY <1>1, <2>1, <2>3, <2>4, <2>5 DEF KernelOK, Holds, Late, AfterAhci, AfterHeap,
       AfterPml4, AfterPdpt, InMenu
<1>5. CASE MarkFree
  BY <1>5 DEF MarkFree, Alive, KernelOK, Holds, Late, AfterAhci, AfterHeap, AfterPml4,
     AfterPdpt, InMenu
<1>6. CASE Fails
  BY <1>6 DEF Fails, KernelOK, Late, AfterAhci, AfterHeap, AfterPml4, AfterPdpt, InMenu
<1>7. ASSUME NEW s \in Pages, NEW n \in Nat \ {0}, ManagerGives(s, n), NEW kind,
             mem' = Filled(Run(s, n), Of(kind)), UNCHANGED <<conv, total, held>>,
             \/ /\ pc = "ahci" /\ pc' = "heap" /\ n = AhciPages /\ kind = "ahci"
                /\ at'.ahci = s
             \/ /\ pc = "heap" /\ pc' = "pml4" /\ n = HeapPages /\ kind = "heap"
                /\ at'.heap = s /\ at'.ahci = at.ahci
             \/ pc = "pml4" /\ pc' = "pdpt" /\ at'.ahci = at.ahci /\ at'.heap = at.heap
      PROVE  KernelOK'
  <2>1. /\ Run(s, n) \subseteq Owned' /\ Owned \subseteq Owned'
        /\ \A p \in Run(s, n) : mem'[p].kind = kind
        /\ \A p \in Owned : mem'[p] = mem[p]
        /\ \A p \in Low : mem'[p] = mem[p]
    BY <1>7, KmainFills, KindOf
  <2> QED
    BY <1>1, <1>7, <2>1 DEF KernelOK, Holds, Late, AfterAhci, AfterHeap,
       AfterPml4, AfterPdpt, InMenu
<1>8. CASE AllocateAhci \/ AllocateHeap \/ AllocatePml4
  BY <1>6, <1>7, <1>8, Sizes DEF AllocateAhci, AllocateHeap, AllocatePml4, Obtains,
     TypesOK, Places
<1>9. ASSUME NEW s \in Pages, s \notin Owned, Owned \subseteq Owned', s >= LowLimit,
             \A p \in Pages : p # s => mem'[p].kind = mem[p].kind,
             pc \in {"pdpt", "directories"}, pc' = "directories",
             UNCHANGED <<total, at.ahci, at.heap>>
      PROVE  KernelOK'
  <2>1. \A p \in Low : p # s
    BY <1>9, PagesAssumption, PlacesAssumption
  <2>2. Owned \subseteq Pages
    BY LayoutPages DEF Owned
  <2> QED
    BY <1>1, <1>9, <2>1, <2>2 DEF KernelOK, Holds, Late, AfterAhci, AfterHeap,
       AfterPml4, AfterPdpt, InMenu
<1>10. CASE AllocatePdpt
  <2>1. ASSUME NEW s \in Pages, ManagerGives(s, 1),
               mem' = [mem EXCEPT ![s] = Of("pdpt"), ![at.pml4] = WithEntry(at.pml4, s)],
               at' = [at EXCEPT !.pdpt = s],
               pc' = "directories", UNCHANGED <<layout, conv, total, held>>
        PROVE  KernelOK'
    <3>1. pc = "pdpt" /\ at.pml4 \in Owned
      BY <1>10 DEF AllocatePdpt, TablesOK, AfterPml4
    <3>2. /\ s \notin Owned /\ Owned \subseteq Owned' /\ s >= LowLimit
          /\ \A p \in Pages : p # s => mem'[p].kind = mem[p].kind
      BY <2>1, <3>1, KmainLinks
    <3>3. UNCHANGED <<at.ahci, at.heap>>
      BY <2>1 DEF TypesOK, Places
    <3> QED
      BY <1>9, <2>1, <3>1, <3>2, <3>3
  <2> QED
    BY <1>6, <1>10, <2>1 DEF AllocatePdpt
<1>11. CASE AllocateDirectory
  <2>1. ASSUME NEW s \in Pages, ManagerGives(s, 1),
               mem' = [mem EXCEPT ![s] = [kind |-> "pd", to |-> <<Len(at.pd) * Reach>>],
                                  ![at.pdpt] = WithEntry(at.pdpt, s)],
               at' = [at EXCEPT !.pd = Append(@, s)], UNCHANGED <<pc, layout, conv, total, held>>
        PROVE  KernelOK'
    <3>1. pc = "directories" /\ at.pdpt \in Owned
      BY <1>11 DEF AllocateDirectory, TablesOK, AfterPdpt
    <3>2. /\ s \notin Owned /\ Owned \subseteq Owned' /\ s >= LowLimit
          /\ \A p \in Pages : p # s => mem'[p].kind = mem[p].kind
      <4> DEFINE c == [kind |-> "pd", to |-> <<Len(at.pd) * Reach>>]
      <4>1. mem' = [mem EXCEPT ![s] = c, ![at.pdpt] = WithEntry(at.pdpt, s)]
        BY <2>1
      <4>2. ManagerGives(s, 1) /\ pc # "menu" /\ UNCHANGED <<conv, held>>
        BY <2>1, <3>1
      <4> HIDE DEF c
      <4> QED
        BY <3>1, <4>1, <4>2, KmainLinks
    <3>3. UNCHANGED <<at.ahci, at.heap>>
      BY <2>1 DEF TypesOK, Places
    <3> QED
      BY <1>9, <2>1, <3>1, <3>2, <3>3
  <2> QED
    BY <1>6, <1>11, <2>1 DEF AllocateDirectory
<1>12. CASE LoadCr3 \/ UNCHANGED vars
  BY <1>12 DEF LoadCr3, vars, KernelOK, Holds, Owned, High, Late, AfterAhci, AfterHeap,
     AfterPml4, AfterPdpt, InMenu
<1>13. CASE Callers
  <2>1. /\ pc = "menu" /\ UNCHANGED <<pc, conv, at, total, layout>>
        /\ Owned' = Owned /\ \A p \in Owned : p # Dma => mem'[p] = mem[p]
        /\ \A p \in Low : mem'[p] = mem[p]
    BY <1>13, CallersStep
  <2>2. Owned \subseteq Pages
    BY LayoutPages DEF Owned
  <2> QED
    BY <1>1, <2>1, <2>2 DEF KernelOK, Holds, Late, AfterAhci, AfterHeap, AfterPml4,
       AfterPdpt, InMenu
<1> QED
  BY <1>2, <1>3, <1>4, <1>5, <1>8, <1>10, <1>11, <1>12, <1>13
  DEF Next, Loader, Kmain, Callers

-----------------------------------------------------------------------------
(* The tables, from the first to the last.                                 *)
LEMMA DirectoryAdded ==
  ASSUME TypesOK, TablesOK, NEW s \in Pages, pc = "directories", pc' = pc,
         s \in Owned', Owned \subseteq Owned', s \notin Owned,
         \A p \in Pages : p # s /\ p # at.pdpt => mem'[p] = mem[p],
         mem'[at.pdpt].to = Append(mem[at.pdpt].to, s),
         mem'[s].to = <<Len(at.pd) * Reach>>,
         at' = [at EXCEPT !.pd = Append(@, s)]
  PROVE  TablesOK'
<1>1. /\ at.pml4 \in Owned /\ at.pdpt \in Owned /\ PdPages \subseteq Owned
      /\ at.pml4 # at.pdpt /\ {at.pml4, at.pdpt} \cap PdPages = {}
      /\ \A i, j \in DOMAIN at.pd : at.pd[i] = at.pd[j] => i = j
      /\ mem[at.pml4].to = <<at.pdpt>>
      /\ mem[at.pdpt].to = at.pd
      /\ \A j \in DOMAIN at.pd : mem[at.pd[j]].to = <<(j - 1) * Reach>>
  BY DEF TablesOK, AfterPdpt, AfterPml4
<1>2. Owned \subseteq Pages
  BY LayoutPages DEF Owned
<1>3. /\ at.pd \in Seq(Nat) /\ at'.pd = Append(at.pd, s)
      /\ at'.pml4 = at.pml4 /\ at'.pdpt = at.pdpt
  BY DEF TypesOK, Places
<1>4. /\ DOMAIN at'.pd = DOMAIN at.pd \cup {Len(at.pd) + 1}
      /\ \A j \in DOMAIN at.pd : at'.pd[j] = at.pd[j]
      /\ at'.pd[Len(at.pd) + 1] = s /\ Len(at.pd) \in Nat
  BY <1>3, PagesAssumption
<1>5. PdPages' = PdPages \cup {s}
  BY <1>4 DEF PdPages
<1>6. s \notin PdPages /\ s # at.pml4 /\ s # at.pdpt
  BY <1>1
<1>7. at'.pml4 \in Owned' /\ at'.pdpt \in Owned' /\ PdPages' \subseteq Owned'
  BY <1>1, <1>3, <1>5
<1>8. \A i, j \in DOMAIN at'.pd : at'.pd[i] = at'.pd[j] => i = j
  BY <1>1, <1>4, <1>6 DEF PdPages
<1>9. mem'[at'.pml4].to = <<at'.pdpt>> /\ mem'[at'.pdpt].to = at'.pd
  BY <1>1, <1>2, <1>3, <1>6
<1>10. \A j \in DOMAIN at'.pd : mem'[at'.pd[j]].to = <<(j - 1) * Reach>>
  <2>1. ASSUME NEW j \in DOMAIN at.pd PROVE mem'[at'.pd[j]].to = <<(j - 1) * Reach>>
    <3>1. at.pd[j] \in PdPages
      BY DEF PdPages
    <3>2. mem'[at.pd[j]] = mem[at.pd[j]]
      BY <3>1, <1>1, <1>2, <1>6
    <3> QED
      BY <1>1, <1>4, <3>2, ZenonT(90)
  <2>2. ASSUME NEW j \in DOMAIN at'.pd, j = Len(at.pd) + 1
        PROVE  mem'[at'.pd[j]].to = <<(j - 1) * Reach>>
    <3>1. j - 1 = Len(at.pd) /\ at'.pd[j] = s
      BY <1>4, <2>2
    <3> QED
      BY <3>1
  <2> QED
    BY <1>4, <2>1, <2>2
<1>11. {at'.pml4, at'.pdpt} \cap PdPages' = {} /\ at'.pml4 # at'.pdpt
  BY <1>1, <1>3, <1>5, <1>6
<1> QED
  BY <1>7, <1>8, <1>9, <1>10, <1>11 DEF TablesOK, Early, Late, AfterAhci, AfterHeap,
     AfterPdpt, AfterPml4, InMenu

LEMMA TablesStep == TypesOK /\ BooksOK /\ TablesOK /\ [Next]_vars => TablesOK'
<1> SUFFICES ASSUME TypesOK, BooksOK, TablesOK, [Next]_vars PROVE TablesOK'
  OBVIOUS
<1> USE DEF Early, Late, AfterAhci, AfterHeap, AfterPml4, AfterPdpt, InMenu
<1>1. CASE Fails
  BY <1>1 DEF Fails, TablesOK
<1>2. CASE LoadFile \/ CopySegment \/ AllocateStack \/ ExitBootServices \/ Start
           \/ GoesWild \/ CountMemory \/ MarkFree
  <2>1. /\ pc \in Early /\ pc' \in Early \cup {"ahci", "panic", "lost"}
        /\ at'.pd = at.pd
    BY <1>2 DEF LoadFile, CopySegment, AllocateStack, ExitBootServices, Start, GoesWild,
       CountMemory, MarkFree, Fails, TypesOK, Places
  <2> QED
    BY <2>1 DEF TablesOK
<1>3. CASE AllocateAhci \/ AllocateHeap
  <2>1. /\ pc \in {"ahci", "heap"} /\ pc' \in {"heap", "pml4", "panic"}
        /\ at'.pd = at.pd
    BY <1>3 DEF AllocateAhci, AllocateHeap, Obtains, Fails, TypesOK, Places
  <2> QED
    BY <2>1 DEF TablesOK
<1>4. CASE AllocatePml4
  <2>1. ASSUME NEW s \in Pages, ManagerGives(s, 1), mem' = Filled(Run(s, 1), Of("pml4")),
               at' = [at EXCEPT !["pml4"] = s], pc' = "pdpt", UNCHANGED <<conv, held>>
        PROVE  TablesOK'
    <3>1. pc = "pml4" /\ at'.pml4 = s /\ at'.pd = at.pd /\ Run(s, 1) = {s}
      BY <1>4, <2>1, PagesAssumption DEF AllocatePml4, Obtains, Fails, TypesOK, Places, Run
    <3>2. s \in Owned'
      BY <2>1, <3>1, KmainTakes, Sizes
    <3>3. mem'[s] = Of("pml4")
      BY <2>1, <3>1 DEF Filled
    <3> QED
      BY <2>1, <3>1, <3>2, <3>3, KindOf DEF TablesOK
  <2> QED
    BY <1>1, <1>4, <2>1 DEF AllocatePml4, Obtains
<1>5. CASE AllocatePdpt
  <2>1. ASSUME NEW s \in Pages, ManagerGives(s, 1),
               mem' = [mem EXCEPT ![s] = Of("pdpt"), ![at.pml4] = WithEntry(at.pml4, s)],
               at' = [at EXCEPT !.pdpt = s], pc' = "directories", UNCHANGED <<conv, held>>
        PROVE  TablesOK'
    <3>1. pc = "pdpt" /\ at.pml4 \in Owned /\ mem[at.pml4].to = <<>> /\ at.pd = <<>>
      BY <1>5 DEF AllocatePdpt, TablesOK
    <3>2. /\ s \in Owned' /\ Owned \subseteq Owned' /\ s \notin Owned
          /\ mem'[s] = Of("pdpt") /\ mem'[at.pml4].to = Append(mem[at.pml4].to, s)
      BY <2>1, <3>1, KmainLinks, ZenonT(60)
    <3>3. at'.pml4 = at.pml4 /\ at'.pdpt = s /\ at'.pd = <<>>
      BY <2>1, <3>1 DEF TypesOK, Places
    <3>4. PdPages' = {} /\ DOMAIN at'.pd = {}
      BY <3>3 DEF PdPages
    <3>5. at'.pml4 \in Owned' /\ at'.pdpt \in Owned' /\ PdPages' \subseteq Owned'
      BY <3>1, <3>2, <3>3, <3>4
    <3>6. mem'[at'.pml4].to = <<at'.pdpt>> /\ mem'[at'.pdpt].to = at'.pd
      BY <3>1, <3>2, <3>3, KindOf
    <3>7. at'.pml4 # at'.pdpt /\ {at'.pml4, at'.pdpt} \cap PdPages' = {}
      BY <3>1, <3>2, <3>3, <3>4
    <3> QED
      BY <2>1, <3>3, <3>4, <3>5, <3>6, <3>7 DEF TablesOK
  <2> QED
    BY <1>1, <1>5, <2>1 DEF AllocatePdpt
<1>6. CASE AllocateDirectory
  <2>1. ASSUME NEW s \in Pages, ManagerGives(s, 1),
               mem' = [mem EXCEPT ![s] = [kind |-> "pd", to |-> <<Len(at.pd) * Reach>>],
                                  ![at.pdpt] = WithEntry(at.pdpt, s)],
               at' = [at EXCEPT !.pd = Append(@, s)], UNCHANGED <<pc, conv, held>>
        PROVE  TablesOK'
    <3> DEFINE c == [kind |-> "pd", to |-> <<Len(at.pd) * Reach>>]
    <3>1. pc = "directories" /\ at.pdpt \in Owned
      BY <1>6 DEF AllocateDirectory, TablesOK
    <3>2. /\ s \in Owned' /\ Owned \subseteq Owned' /\ s \notin Owned
          /\ \A p \in Pages : p # s /\ p # at.pdpt => mem'[p] = mem[p]
          /\ mem'[at.pdpt].to = Append(mem[at.pdpt].to, s)
      <4> DEFINE t == at.pdpt
      <4>1. mem' = [mem EXCEPT ![s] = c, ![t] = WithEntry(t, s)]
        BY <2>1
      <4>2. ManagerGives(s, 1) /\ pc # "menu" /\ UNCHANGED <<conv, held>> /\ t \in Owned
        BY <2>1, <3>1
      <4> HIDE DEF c, t
      <4>3. /\ s \in Owned' /\ Owned \subseteq Owned' /\ s \notin Owned
            /\ \A p \in Pages : p # s /\ p # t => mem'[p] = mem[p]
            /\ mem'[t].to = Append(mem[t].to, s)
        BY ONLY TypesOK, BooksOK, s \in Pages, <4>1, <4>2, KmainLinks, ZenonT(90)
      <4> QED
        BY <4>3 DEF t
    <3>3. mem'[s].to = <<Len(at.pd) * Reach>>
      BY <2>1, <3>1, <3>2 DEF TypesOK
    <3>4. at' = [at EXCEPT !.pd = Append(@, s)] /\ pc' = pc
      BY <2>1
    <3> QED
      BY <3>1, <3>2, <3>3, <3>4, DirectoryAdded
  <2> QED
    BY <1>1, <1>6, <2>1 DEF AllocateDirectory
<1>7. CASE LoadCr3
  <2>1. pc = "directories" /\ pc' = "menu" /\ Len(at.pd) = Directories
        /\ UNCHANGED <<conv, mem, at, free, held>>
    BY <1>7 DEF LoadCr3
  <2>2. TablePages' = TablePages /\ PdPages' = PdPages /\ Owned' = Owned
    BY <2>1 DEF TablePages, PdPages, Owned, High
  <2> QED
    BY <2>1, <2>2 DEF TablesOK
<1>8. CASE Callers
  <2>1. /\ pc = "menu" /\ UNCHANGED <<pc, conv, at, total, layout>>
        /\ Owned' = Owned /\ \A p \in Owned : p # Dma => mem'[p] = mem[p]
    BY <1>8, CallersStep
  <2>2. TablePages' = TablePages /\ PdPages' = PdPages
    BY <2>1 DEF TablePages, PdPages
  <2>3. TablePages \subseteq Owned
    BY <2>1 DEF TablesOK, TablePages, PdPages
  <2>4. ASSUME Dma \notin TablePages
        PROVE  /\ mem'[at.pml4] = mem[at.pml4] /\ mem'[at.pdpt] = mem[at.pdpt]
               /\ \A j \in DOMAIN at.pd : mem'[at.pd[j]] = mem[at.pd[j]]
    BY <2>1, <2>3, <2>4 DEF TablePages
  <2> QED
    BY <2>1, <2>2, <2>4 DEF TablesOK
<1>9. CASE UNCHANGED vars
  <2>1. UNCHANGED <<pc, conv, mem, at, free, held>>
    BY <1>9 DEF vars
  <2>2. TablePages' = TablePages /\ PdPages' = PdPages /\ Owned' = Owned
    BY <2>1 DEF TablePages, PdPages, Owned, High
  <2> QED
    BY <2>1, <2>2 DEF TablesOK
<1> QED
  BY <1>2, <1>3, <1>4, <1>5, <1>6, <1>7, <1>8, <1>9 DEF Next, Loader, Kmain, Callers

-----------------------------------------------------------------------------
(* The loader and kmain's first steps: with room above the limit, the      *)
(* firmware gives nothing below it.                                        *)
LEMMA FirmwareTakes ==
  ASSUME TypesOK, Sound, NEW n \in 1..HeapPages
  PROVE  /\ ~ FirmwareHasNone(n)
         /\ \A s \in Pages : FirmwareGives(s, n) =>
              /\ s >= LowLimit /\ s \in Run(s, n)
              /\ Run(s, n) \subseteq conv
              /\ \A p \in Run(s, n) : p >= LowLimit
              /\ Run(s, n) \cap (layout.firmware \cup Image) = {}
<1>1. PICK t \in Pages : t >= LowLimit /\ Fits(conv, t, HeapPages)
  BY DEF Sound, Roomy
<1>2. Fits(conv, t, n)
  BY <1>1, PagesAssumption, SizesAssumption DEF Fits, Run
<1>3. ASSUME NEW s \in Pages, FirmwareGives(s, n)
      PROVE  s >= LowLimit /\ Run(s, n) \subseteq conv
  BY <1>1, <1>2, <1>3, PagesAssumption, PlacesAssumption DEF FirmwareGives, Fits
<1>4. \A p \in Image : p < LowLimit
  BY PlacesAssumption DEF Fixed
<1>5. ASSUME NEW s \in Pages, FirmwareGives(s, n)
      PROVE  /\ s \in Run(s, n) /\ \A p \in Run(s, n) : p >= LowLimit
             /\ Run(s, n) \cap (layout.firmware \cup Image) = {}
  <2>1. s \in Nat /\ LowLimit \in Nat /\ n \in Nat \ {0}
    BY PagesAssumption, PlacesAssumption, SizesAssumption
  <2>2. s \in Run(s, n) /\ \A p \in Run(s, n) : p \in Nat /\ p >= LowLimit
    BY <1>3, <1>5, <2>1, RunPages
  <2>3. \A p \in Image : p \notin Run(s, n)
    BY <1>4, <2>1, <2>2
  <2>4. Run(s, n) \cap layout.firmware = {}
    BY <1>3, <1>5, LayoutPages
  <2> QED
    BY <2>2, <2>3, <2>4
<1> QED
  BY <1>2, <1>3, <1>5 DEF FirmwareHasNone

LEMMA SoundBefore ==
  ASSUME TypesOK, [Next]_vars, Sound' PROVE Sound
<1>1. conv' \subseteq conv /\ layout' = layout
  BY DEF Next, Loader, Kmain, LoadFile, CopySegment, AllocateStack, ExitBootServices,
     Start, GoesWild, CountMemory, MarkFree, AllocateAhci, AllocateHeap, AllocatePml4,
     Obtains, AllocatePdpt, AllocateDirectory, LoadCr3, Hold, Unmap, ReadSector, Fails, vars
<1> QED
  BY <1>1 DEF Sound, Roomy, Fits

LEMMA BootStep == StartupInv /\ KernelOK' /\ [Next]_vars => BootOK'
<1> SUFFICES ASSUME StartupInv, KernelOK', [Next]_vars, Sound' PROVE BootOK'
  BY DEF BootOK
<1>1. TypesOK /\ BootOK /\ Sound /\ KernelOK /\ TablesOK
  BY SoundBefore DEF StartupInv
<1>2. /\ pc # "lost"
      /\ pc \in Early => Holds(layout.firmware, "firmware")
      /\ pc \in {"file", "copy"} => \A p \in Image : mem[p].kind \notin {"broken", "firmware"}
      /\ pc = "copy" => /\ \A p \in Run(at.file, FilePages) : p >= LowLimit
                        /\ Holds(Run(at.file, FilePages), "file")
      /\ pc \notin {"file", "copy"} => Holds(Image, "image")
      /\ pc \in {"start", "count", "free"} =>
           at.map \in Pages /\ at.map >= LowLimit /\ mem[at.map].kind = "map"
  BY <1>1 DEF BootOK
<1>3. /\ DOMAIN mem = Pages /\ layout.firmware \subseteq Pages /\ Pages \subseteq Nat
      /\ Image \subseteq Fixed /\ KernelStack \subseteq Fixed /\ Fixed \subseteq Pages
      /\ layout.firmware \cap Fixed = {} /\ Image \cap KernelStack = {}
      /\ \A p \in Fixed : p < LowLimit
  BY <1>1, LayoutPages, FixedPlaces, PagesFinite DEF TypesOK, Sound
<1>4. FilePages \in 1..HeapPages /\ StackPages \in 1..HeapPages /\ 1 \in 1..HeapPages
  BY SizesAssumption
<1>5. CASE LoadFile
  <2>1. PICK s \in Pages : /\ FirmwareGives(s, FilePages)
                           /\ mem' = Filled(Run(s, FilePages), Of("file"))
                           /\ at' = [at EXCEPT !.file = s]
                           /\ pc = "file" /\ pc' = "copy" /\ layout' = layout
    BY <1>1, <1>4, <1>5, FirmwareTakes DEF LoadFile
  <2>2. /\ \A p \in Run(s, FilePages) : p >= LowLimit
        /\ Run(s, FilePages) \cap (layout.firmware \cup Image) = {}
        /\ Run(s, FilePages) \subseteq Pages
    BY <1>1, <1>4, <2>1, FirmwareTakes, LayoutPages
  <2>3. \A p \in Pages : mem'[p] = IF p \in Run(s, FilePages) THEN Of("file") ELSE mem[p]
    BY <1>3, <2>1, FilledPages
  <2>4. at'.file = s /\ Of("file").kind = "file"
    BY <1>1, <2>1, KindOf DEF TypesOK, Places
  <2>5. Holds(layout.firmware, "firmware")'
    BY <1>2, <1>3, <2>1, <2>2, <2>3 DEF Holds, Early
  <2>6. \A p \in Image : mem'[p].kind \notin {"broken", "firmware"}
    BY <1>2, <1>3, <2>1, <2>2, <2>3
  <2>7. \A p \in Run(at'.file, FilePages) : p >= LowLimit /\ mem'[p].kind = "file"
    BY <2>2, <2>3, <2>4
  <2> QED
    BY <2>1, <2>5, <2>6, <2>7 DEF BootOK, Holds
<1>6. CASE CopySegment
  <2>1. PICK p \in Image :
          /\ pc = "copy"
          /\ mem' = [mem EXCEPT ![p] = IF Holds(Run(at.file, FilePages), "file")
                                       THEN Of("image") ELSE Of("broken")]
          /\ pc' = (IF mem[p].kind = "firmware" THEN "lost" ELSE "copy")
          /\ UNCHANGED <<layout, at>>
    BY <1>6 DEF CopySegment
  <2>2. pc' = "copy" /\ mem' = [mem EXCEPT ![p] = Of("image")]
    BY <1>2, <2>1
  <2>3. p < LowLimit /\ p \in Nat /\ p \in Pages /\ p \notin layout.firmware
    BY <1>3, <2>1
  <2>4. \A q \in Run(at.file, FilePages) : q # p
    BY <1>2, <2>1, <2>3, PlacesAssumption
  <2>5. mem'[p].kind = "image" /\ \A q \in Pages : q # p => mem'[q] = mem[q]
    BY <1>3, <2>2, <2>3, KindOf
  <2>6. \A q \in Image : mem'[q].kind \notin {"broken", "firmware"}
    BY <1>2, <1>3, <2>1, <2>5
  <2>7. \A q : q # p => mem'[q] = mem[q]
    BY <1>3, <2>2
  <2> QED
    BY <1>2, <1>3, <2>1, <2>2, <2>3, <2>4, <2>5, <2>6, <2>7 DEF BootOK, Holds, Early
<1>7. CASE AllocateStack
  <2>1. PICK s \in Pages : /\ FirmwareGives(s, StackPages)
                           /\ mem' = Filled(Run(s, StackPages), Of("loader stack"))
                           /\ pc = "copy" /\ pc' = "exit" /\ layout' = layout
                           /\ \A p \in Image : Copied(p)
    BY <1>1, <1>4, <1>7, FirmwareTakes DEF AllocateStack
  <2>2. Run(s, StackPages) \cap (layout.firmware \cup Image) = {}
    BY <1>1, <1>4, <2>1, FirmwareTakes
  <2>3. \A p \in Pages :
          mem'[p] = IF p \in Run(s, StackPages) THEN Of("loader stack") ELSE mem[p]
    BY <1>3, <2>1, FilledPages
  <2>4. Holds(Image, "image")
    BY <1>2, <2>1 DEF Holds, Copied
  <2> QED
    BY <1>2, <1>3, <2>1, <2>2, <2>3, <2>4 DEF BootOK, Holds, Early
<1>8. CASE ExitBootServices
  <2>1. PICK s \in Pages : /\ FirmwareGives(s, 1) /\ mem' = Filled({s}, Of("map"))
                           /\ at' = [at EXCEPT !.map = s]
                           /\ pc = "exit" /\ pc' = "start" /\ layout' = layout
    BY <1>1, <1>4, <1>8, FirmwareTakes DEF ExitBootServices
  <2>2. s >= LowLimit /\ s \notin layout.firmware \cup Image
    BY <1>1, <1>4, <2>1, FirmwareTakes
  <2>3. \A p \in Pages : mem'[p] = IF p \in {s} THEN Of("map") ELSE mem[p]
    BY <1>3, <2>1, FilledPages
  <2>4. at'.map = s /\ mem'[s].kind = "map"
    BY <1>1, <2>1, <2>3, KindOf DEF TypesOK, Places
  <2> QED
    BY <1>2, <1>3, <2>1, <2>2, <2>3, <2>4, ZenonT(90) DEF BootOK, Holds, Early
<1>9. ASSUME NEW S, NEW kind, S \subseteq Fixed, S \cap Image = {},
             mem' = Filled(S, Of(kind)), UNCHANGED <<layout, at>>,
             pc \in {"start", "count"}, pc' \in {"count", "free"}
      PROVE  BootOK'
  <2>1. \A p \in Pages : mem'[p] = IF p \in S THEN Of(kind) ELSE mem[p]
    BY <1>3, <1>9, FilledPages
  <2>2. at.map \in Pages /\ at.map \notin S
    <3>1. \A p \in S : p < LowLimit /\ p \in Nat
      BY <1>3, <1>9
    <3>2. at.map \in Pages /\ at.map >= LowLimit
      BY <1>2, <1>9
    <3> QED
      BY <3>1, <3>2, PlacesAssumption
  <2>3. mem'[at.map] = mem[at.map]
    BY <2>1, <2>2
  <2> QED
    BY <1>2, <1>3, <1>9, <2>1, <2>3 DEF BootOK, Holds, Early
<1>10. CASE Start
  BY <1>3, <1>9, <1>10 DEF Start
<1>11. CASE CountMemory
  <2>1. total' \in Nat /\ total' <= Cardinality(Pages)
    BY <1>1, TypesStep DEF TypesOK
  <2>2. BitmapPages(total') \subseteq Fixed /\ BitmapPages(total') \cap Image = {}
    BY <2>1, FixedPlaces
  <2> QED
    BY <1>9, <1>11, <2>2 DEF CountMemory
<1>12. CASE GoesWild
  BY <1>2, <1>12 DEF GoesWild, Alive, Early
<1>13. CASE MarkFree
  BY <1>2, <1>13 DEF MarkFree, BootOK, Holds, Early
<1>14. CASE pc \in Late /\ pc' \in Late
  BY <1>14 DEF KernelOK, BootOK, Early, Late, AfterAhci, AfterHeap, AfterPml4, AfterPdpt,
     InMenu
<1>15. CASE pc \in Late /\ Fails
  BY <1>2, <1>15 DEF Fails, BootOK, Holds, Early, Late, AfterAhci, AfterHeap, AfterPml4,
     AfterPdpt, InMenu
<1>16. CASE \/ AllocateAhci \/ AllocateHeap \/ AllocatePml4 \/ AllocatePdpt
            \/ AllocateDirectory \/ LoadCr3
  <2>1. pc \in Late /\ (pc' \in Late \/ Fails)
    BY <1>16 DEF AllocateAhci, AllocateHeap, AllocatePml4, Obtains, AllocatePdpt,
       AllocateDirectory, LoadCr3, Late, AfterAhci, AfterHeap, AfterPml4, AfterPdpt, InMenu
  <2> QED
    BY <1>14, <1>15, <2>1
<1>17. CASE Callers
  BY <1>14, <1>17 DEF Callers, Hold, Unmap, ReadSector, Late, AfterAhci, AfterHeap,
     AfterPml4, AfterPdpt, InMenu
<1>18. CASE UNCHANGED vars
  BY <1>2, <1>18 DEF vars, BootOK, Holds, Early
<1> QED
  BY <1>5, <1>6, <1>7, <1>8, <1>10, <1>11, <1>12, <1>13, <1>16, <1>17, <1>18
  DEF Next, Loader, Kmain, Callers

-----------------------------------------------------------------------------
LEMMA StartupInvariant == Spec => []StartupInv
<1>1. StartupInv /\ [Next]_vars => StartupInv'
  <2> SUFFICES ASSUME StartupInv, [Next]_vars PROVE StartupInv'
    OBVIOUS
  <2>1. TypesOK' /\ BooksOK' /\ TablesOK' /\ KernelOK'
    BY TypesStep, BooksStep, TablesStep, KernelStep DEF StartupInv
  <2> QED
    BY <2>1, BootStep DEF StartupInv
<1> QED
  BY StartupInit, <1>1, PTL DEF Spec

(* Nothing overwrites the image, the firmware or the map while they are    *)
(* needed, on any machine where a heap would fit above the limit: the      *)
(* loader ignores the firmware's refusals (bootloader main.rs 91) and      *)
(* kmain reserves neither its stack nor its bitmap (main.rs 135-154).      *)
THEOREM FixedPlacesAreSafe == Spec => []FixedPlacesSafe
<1>1. StartupInv => FixedPlacesSafe
  BY DEF StartupInv, BootOK, Sound, FixedPlacesSafe, Alive, Early
<1> QED
  BY StartupInvariant, <1>1, PTL

(* The image, kmain's stack, the bitmap, the heap and the memory of the    *)
(* disk driver stay as they were set up (main.rs 146-170), but for the     *)
(* page of the DMA buffer, whatever callers of the manager do.             *)
THEOREM KernelStaysIntact == Spec => []KernelIntact
<1>1. StartupInv => KernelIntact
  BY DEF StartupInv, KernelOK, KernelIntact, Late, AfterAhci, AfterHeap, AfterPml4,
     AfterPdpt, InMenu
<1> QED
  BY StartupInvariant, <1>1, PTL

LEMMA WholeAndRest ==
  ASSUME NEW p \in Nat, NEW r \in Nat \ {0}, NEW d \in Nat, p < d * r
  PROVE  /\ (p \div r) \in Nat /\ (p \div r) < d
         /\ (p \div r) * r + (p % r) = p
<1>1. (p \div r) \in Nat /\ (p % r) \in Nat /\ p = r * (p \div r) + (p % r)
  BY SMT
<1> DEFINE q == p \div r
           m == p % r
<1>2. q \in Nat /\ m \in Nat /\ p = r * q + m
  BY <1>1
<1> HIDE DEF q, m
<1>3. r * q = q * r
  BY <1>2
<1>4. q < d
  <2>1. SUFFICES ASSUME d <= q PROVE FALSE
    BY <1>2
  <2>2. d * r <= q * r
    BY <2>1, <1>2
  <2> QED
    BY <2>2, <1>2, <1>3
<1> QED
  BY <1>2, <1>3, <1>4 DEF q, m

(* The tables of init_os_paging (paging.rs 15-57) map every address of the *)
(* first Directories directories to itself, as long as the sectors that    *)
(* are read do not go to a table.                                          *)
THEOREM AddressesMapToThemselves == Spec => []IdentityMapped
<1>1. StartupInv => IdentityMapped
  <2> SUFFICES ASSUME StartupInv, pc = "menu", Dma \notin TablePages,
                      NEW p \in Pages, p < Directories * Reach
               PROVE  Walk(p) = p
    BY DEF IdentityMapped
  <2>1. /\ mem[at.pml4].to = <<at.pdpt>> /\ mem[at.pdpt].to = at.pd
        /\ Len(at.pd) = Directories
        /\ \A j \in DOMAIN at.pd : mem[at.pd[j]].to = <<(j - 1) * Reach>>
    BY DEF StartupInv, TablesOK, AfterPdpt, InMenu
  <2>2. p \in Nat /\ Reach \in Nat \ {0} /\ Directories \in Nat
    BY PagesAssumption, SizesAssumption
  <2>3. /\ (p \div Reach) \in Nat /\ (p \div Reach) < Directories
        /\ (p \div Reach) * Reach + (p % Reach) = p
    BY <2>2, WholeAndRest
  <2> DEFINE q == p \div Reach
             j == q + 1
  <2>4. j \in DOMAIN at.pd /\ j - 1 = q
    <3>1. at.pd \in Seq(Nat)
      BY DEF StartupInv, TypesOK, Places
    <3>2. q \in Nat /\ q < Directories
      BY <2>3
    <3> HIDE DEF q
    <3> QED
      BY <2>1, <2>2, <3>1, <3>2
  <2>5. mem[at.pd[j]].to = <<(j - 1) * Reach>>
    BY <2>1, <2>4
  <2>6. mem[at.pd[j]].to[1] = q * Reach
    BY <2>4, <2>5
  <2>7. Walk(p) = mem[at.pd[j]].to[1] + (p % Reach)
    BY <2>1 DEF Walk
  <2> QED
    BY <2>3, <2>6, <2>7
<1> QED
  BY StartupInvariant, <1>1, PTL

(* What the manager gives to one caller it gives to nobody else, nor is it *)
(* the kernel's, the firmware's or a fixed place (main.rs 155-170, ram.rs  *)
(* 65-84), and only a sector read can change it.                           *)
THEOREM CallersAreUndisturbed == Spec => []CallersUndisturbed
<1>1. StartupInv => CallersUndisturbed
  <2> SUFFICES ASSUME StartupInv, pc = "menu" PROVE CallersUndisturbed
    BY DEF CallersUndisturbed
  <2>1. KernelPages \subseteq Owned
    BY DEF StartupInv, KernelOK, TablesOK, KernelPages, TablePages, PdPages, AfterAhci,
       AfterHeap, AfterPml4, AfterPdpt, InMenu
  <2>2. /\ free \subseteq High /\ conv \cap layout.firmware = {} /\ High \subseteq conv
        /\ \A r \in held : r \subseteq High /\ r \cap free = {} /\ Holds(r \ {Dma}, "program")
        /\ \A r, q \in held : r = q \/ r \cap q = {}
    BY LayoutPages DEF StartupInv, BooksOK, High
  <2>3. High \cap Fixed = {}
    <3>1. \A p \in Fixed : p \in Nat /\ p < LowLimit
      BY PagesAssumption, PlacesAssumption
    <3> QED
      BY <3>1, PlacesAssumption DEF High
  <2>4. free \cap KernelPages = {} /\ \A r \in held : r \cap KernelPages = {}
    BY <2>1 DEF Owned
  <2> QED
    BY <2>2, <2>3, <2>4 DEF CallersUndisturbed
<1> QED
  BY StartupInvariant, <1>1, PTL
=============================================================================
