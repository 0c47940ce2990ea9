----------------------------- MODULE RamManager -----------------------------
(***************************************************************************)
(* The physical memory manager, kernel/src/ram.rs, as kmain sets it up and *)
(* the system calls SYS_MGET, SYS_MMAP and SYS_MUNMAP drive it.            *)
(*                                                                         *)
(* One bit per 4 KiB page says whether the page is used.  allocate_sectors *)
(* is a single pass over the bitmap that remembers the length and the      *)
(* start of the current run of free pages; here every iteration of its     *)
(* scan, of the loop that marks the run and of the loop of SYS_MUNMAP that *)
(* frees one is a step.  The manager does not know who holds what: "held"  *)
(* is a history variable, the runs the callers were given and have not     *)
(* unmapped.                                                               *)
(***************************************************************************)
EXTENDS Integers, FiniteSets

CONSTANTS
  Conventional,  (* page numbers of EfiConventionalMemory in the memory map *)
  LowLimit,      (* 0x4000000 / 4096: pages below stay reserved             *)
  Requests,      (* page counts asked for                                   *)
  Alignments,    (* alignments, in pages, asked of allocate_aligned         *)
  FailedSector   (* 0xFFFFFFFFFFFFFFFF / 4096, the page of a failed request *)

(* total_ram adds up the conventional pages only, holes are not counted. *)
TotalSectors == Cardinality(Conventional)

Sectors == 0 .. (TotalSectors - 1)

ASSUME MemoryMapAssumption ==
  /\ Conventional \subseteq Nat
  /\ IsFiniteSet(Conventional)
  /\ LowLimit \in Nat

ASSUME RequestAssumption ==
  /\ Requests \subseteq Nat
  /\ Alignments \subseteq Nat \ {0}
  /\ FailedSector \in Nat
  /\ FailedSector >= TotalSectors

VARIABLES
  bitmap,       (* the pages whose bit is 1                       *)
  pc,           (* "idle", or the loop the manager is in          *)
  n,            (* page count of the call                         *)
  i,            (* index of the scan                              *)
  consecutive,  (* length of the run of free pages ending at i    *)
  start_idx,    (* where that run, or the run to mark/free starts *)
  j,            (* index of the marking or freeing loop           *)
  result,       (* page the last allocation answered              *)
  held          (* history: runs given out and not yet unmapped   *)

vars == <<bitmap, pc, n, i, consecutive, start_idx, j, result, held>>
registers == <<n, i, consecutive, start_idx, j>>

(* The locals of a call end with it. *)
LocalsEnd ==
  n' = 0 /\ i' = 0 /\ consecutive' = 0 /\ start_idx' = 0 /\ j' = 0

Span(s, k) == s .. (s + k - 1)
Region(s, k) == [start |-> s, pages |-> k]

(* What a caller holds after it was given k pages at s. *)
Given(s, k) == IF k = 0 THEN {} ELSE {Region(s, k)}

is_used(s) == s \notin Sectors \/ s \in bitmap

MarkedUsed(s) == bitmap \union ({s} \intersect Sectors)

MarkedFree(s) == bitmap \ {s}

(* kmain: every bit is set, then each conventional page at or above the    *)
(* limit is marked free; mark_free ignores pages beyond the bitmap.        *)
Init ==
  /\ bitmap = Sectors \ {s \in Conventional : s >= LowLimit}
  /\ pc = "idle"
  /\ n = 0 /\ i = 0 /\ consecutive = 0 /\ start_idx = 0 /\ j = 0
  /\ result = FailedSector
  /\ held = {}

-----------------------------------------------------------------------------
(* allocate_sectors, through SYS_MGET or SYS_MMAP: both drop the alignment. *)
AllocateSectors(k) ==
  /\ pc = "idle"
  /\ pc' = "scan"
  /\ n' = k
  /\ i' = 0 /\ consecutive' = 0 /\ start_idx' = 0
  /\ UNCHANGED <<bitmap, j, result, held>>

ScanUsed ==
  /\ pc = "scan" /\ i < TotalSectors
  /\ is_used(i)
  /\ consecutive' = 0
  /\ i' = i + 1
  /\ UNCHANGED <<bitmap, pc, n, start_idx, j, result, held>>

RunStart == IF consecutive = 0 THEN i ELSE start_idx

ScanFree ==
  /\ pc = "scan" /\ i < TotalSectors
  /\ ~ is_used(i)
  /\ start_idx' = RunStart
  /\ consecutive' = consecutive + 1
  /\ \/ consecutive + 1 = n /\ pc' = "mark" /\ j' = 0 /\ i' = i
     \/ consecutive + 1 # n /\ i' = i + 1 /\ UNCHANGED <<pc, j>>
  /\ UNCHANGED <<bitmap, n, result, held>>

(* A slip: the scan stops one page early. *)
ScanExhaustedEarly ==
  /\ pc = "scan" /\ i >= TotalSectors - 1
  /\ pc' = "idle"
  /\ result' = FailedSector
  /\ LocalsEnd
  /\ UNCHANGED <<bitmap, held>>

ScanExhausted ==
  /\ pc = "scan" /\ i = TotalSectors
  /\ pc' = "idle"
  /\ result' = FailedSector
  /\ LocalsEnd
  /\ UNCHANGED <<bitmap, held>>

(* A slip: the first page of the run is not marked. *)
MarkRunSkipsFirst ==
  /\ pc = "mark" /\ j < n
  /\ bitmap' = IF j = 0 THEN bitmap ELSE MarkedUsed(start_idx + j)
  /\ j' = j + 1
  /\ UNCHANGED <<pc, n, i, consecutive, start_idx, result, held>>

MarkRun ==
  /\ pc = "mark" /\ j < n
  /\ bitmap' = MarkedUsed(start_idx + j)
  /\ j' = j + 1
  /\ UNCHANGED <<pc, n, i, consecutive, start_idx, result, held>>

ReturnRun ==
  /\ pc = "mark" /\ j = n
  /\ pc' = "idle"
  /\ result' = start_idx
  /\ held' = held \union Given(start_idx, n)
  /\ LocalsEnd
  /\ UNCHANGED bitmap

-----------------------------------------------------------------------------
(* allocate_aligned: the first free page on the boundary from which k      *)
(* pages are free.  It has no caller in the tree; one step.                *)
FitsAligned(s, k, a) ==
  /\ ~ is_used(s)
  /\ s % a = 0
  /\ \A d \in 0 .. (k - 1) : ~ is_used(s + d)

AllocateAligned(k, a) ==
  /\ pc = "idle"
  /\ \/ \E s \in Sectors :
          /\ FitsAligned(s, k, a)
          /\ \A t \in Sectors : t < s => ~ FitsAligned(t, k, a)
          /\ bitmap' = bitmap \union Span(s, k)
          /\ held' = held \union Given(s, k)
          /\ result' = s
     \/ /\ \A s \in Sectors : ~ FitsAligned(s, k, a)
        /\ result' = FailedSector
        /\ UNCHANGED <<bitmap, held>>
  /\ UNCHANGED <<pc, registers>>

-----------------------------------------------------------------------------
(* SYS_MUNMAP of a run its caller holds, or of the address a failed        *)
(* request answered, which standard_boot passes on without a look at it.   *)
(* The kernel itself checks nothing: who may unmap what is up to callers.  *)
Munmap(r) ==
  /\ pc = "idle"
  /\ pc' = "free"
  /\ held' = held \ {r}
  /\ start_idx' = r.start /\ n' = r.pages /\ j' = 0
  /\ UNCHANGED <<bitmap, i, consecutive, result>>

(* A slip: the loop frees one page too few. *)
MunmapDoneEarly ==
  /\ pc = "free" /\ j + 1 >= n
  /\ pc' = "idle"
  /\ LocalsEnd
  /\ UNCHANGED <<bitmap, result, held>>

(* A slip: the index of the freeing loop does not advance past the bitmap. *)
FreeRunStuck ==
  /\ pc = "free" /\ j < n
  /\ bitmap' = MarkedFree(start_idx + j)
  /\ j' = IF start_idx + j \in Sectors THEN j + 1 ELSE j
  /\ UNCHANGED <<pc, n, i, consecutive, start_idx, result, held>>

FreeRun ==
  /\ pc = "free" /\ j < n
  /\ bitmap' = MarkedFree(start_idx + j)
  /\ j' = j + 1
  /\ UNCHANGED <<pc, n, i, consecutive, start_idx, result, held>>

MunmapDone ==
  /\ pc = "free" /\ j = n
  /\ pc' = "idle"
  /\ LocalsEnd
  /\ UNCHANGED <<bitmap, result, held>>

FailedRegion(k) == Region(FailedSector, k)

-----------------------------------------------------------------------------
Scan == ScanUsed \/ ScanFree \/ ScanExhausted
Step == Scan \/ MarkRun \/ ReturnRun \/ FreeRun \/ MunmapDone

Next ==
  \/ \E k \in Requests : AllocateSectors(k)
  \/ \E k \in Requests, a \in Alignments : AllocateAligned(k, a)
  \/ \E r \in held : Munmap(r)
  \/ \E k \in Requests : Munmap(FailedRegion(k))
  \/ Step

(* The loops run on the only CPU with interrupts off, so they go on.       *)
Spec == Init /\ [][Next]_vars /\ WF_vars(Step)

-----------------------------------------------------------------------------
(* Every variable has its type; the registers of the loops stay in range.  *)
TypeOK ==
  /\ bitmap \subseteq Sectors
  /\ pc \in {"idle", "scan", "mark", "free"}
  /\ n \in Nat /\ i \in Nat /\ consecutive \in Nat
  /\ start_idx \in Nat /\ j \in Nat
  /\ i <= TotalSectors
  /\ result \in Sectors \union {FailedSector}
  /\ held \subseteq [start : Sectors, pages : Nat]

Managed == {s \in Sectors \intersect Conventional : s >= LowLimit}

HeldPages == UNION {Span(r.start, r.pages) : r \in held}

(* No page is in two runs: whatever allocations and unmappings came before *)
(* and whatever state the bitmap was scanned in, two callers never share.  *)
HeldApart ==
  \A r, q \in held :
    r # q => Span(r.start, r.pages) \intersect Span(q.start, q.pages) = {}

(* Only RAM the firmware called conventional, above the kernel and the     *)
(* bitmap itself, is ever handed out or marked free.                       *)
OnlyManagedRam == HeldPages \union (Sectors \ bitmap) \subseteq Managed

(* Between calls the bitmap and the callers agree on every page: a page is *)
(* used exactly when it is reserved or somebody holds it.  So no page is   *)
(* lost by allocation, and none stays free under a holder.                 *)
BooksBalance ==
  pc = "idle" => Managed \intersect bitmap = HeldPages

(* The pages of the bitmap that count as free for the callers: those of    *)
(* the run being marked are not taken before the call returns, and those   *)
(* of a run being freed are given back when the call begins.               *)
FreeBar ==
  (Sectors \ bitmap)
    \union (IF pc = "mark" THEN Span(start_idx, j) ELSE {})
    \union (IF pc = "free" THEN Sectors \intersect
                                 ((start_idx + j) .. (start_idx + n - 1))
                            ELSE {})

(* The scan misses nothing: no run of n free pages ends before the page it *)
(* is at, and "consecutive" counts exactly the free pages just behind it.  *)
ScanMissesNothing ==
  pc = "scan" =>
    /\ consecutive <= i
    /\ (i - consecutive) .. (i - 1) \subseteq Sectors \ bitmap
    /\ consecutive < i => is_used(i - consecutive - 1)
    /\ \A s \in Sectors :
         (n > 0 /\ s + n <= i) => Span(s, n) \intersect bitmap # {}

(* The request allocate_sectors is working on.                             *)
AskedBar == IF pc \in {"scan", "mark"} THEN {n} ELSE {}

Abs == INSTANCE PageAllocator
         WITH free <- FreeBar, asked <- AskedBar, Nowhere <- FailedSector

(* ram.rs, page by page, implements the first-fit allocator: a call        *)
(* answers its request with the lowest run that fits and fails only when   *)
(* none does, and a run being unmapped is whole again for the next one.    *)
FirstFitAllocator == Abs!Spec

(* Every call returns: the scan, the marking and the freeing loops end,    *)
(* the freeing of a failed request's address included.                     *)
EveryCallReturns == pc # "idle" ~> pc = "idle"
=============================================================================
