-------------------------- MODULE RamManagerProofs --------------------------
(***************************************************************************)
(* RamManager proved for every memory map, every set of page counts and    *)
(* every sequence of calls: no two runs overlap, only managed RAM is       *)
(* handed out, no page is lost, and the page-by-page bitmap code           *)
(* implements the first-fit allocator.                                     *)
(*                                                                         *)
(* HeldApart is not inductive: that ReturnRun adds a run no holder has     *)
(* follows from the bitmap it was found in, so the invariant says what the *)
(* bitmap means at every point of the three loops.                         *)
(***************************************************************************)
EXTENDS RamManager, FiniteSetTheorems, TLAPS

(* The bitmap and the callers agree on every page, in the middle of a call *)
(* too; what is held is marked, and is managed RAM.                        *)
Books ==
  /\ FreeBar = Managed \ HeldPages
  /\ HeldPages \subseteq bitmap \intersect Managed

(* The registers of the scan: the run behind i starts at start_idx and is  *)
(* shorter than what is looked for.                                        *)
ScanRegisters ==
  pc = "scan" =>
    /\ n \in Requests
    /\ consecutive > 0 => start_idx = i - consecutive
    /\ n > 0 => consecutive < n

(* A run being marked: found free, its first j pages marked, and no lower  *)
(* run of n pages was free when it was found.                              *)
Marking ==
  pc = "mark" =>
    /\ n \in Requests /\ n > 0 /\ j <= n
    /\ Span(start_idx, n) \subseteq Sectors
    /\ Span(start_idx, j) \subseteq bitmap
    /\ Span(start_idx + j, n - j) \intersect bitmap = {}
    /\ \A s \in Sectors : s < start_idx =>
         Span(s, n) \intersect (bitmap \ Span(start_idx, j)) # {}

(* A run being freed: its pages not yet freed are marked.                  *)
Freeing ==
  pc = "free" =>
    /\ j <= n
    /\ Sectors \intersect Span(start_idx + j, n - j) \subseteq bitmap

(* The inductive invariant. *)
IInv ==
  /\ TypeOK
  /\ ScanMissesNothing
  /\ ScanRegisters
  /\ Marking
  /\ Freeing
  /\ Books
  /\ HeldApart

-----------------------------------------------------------------------------
LEMMA TotalSectorsType == TotalSectors \in Nat
  BY MemoryMapAssumption, FS_CardinalityType DEF TotalSectors

(* A page number is managed exactly when it is below the number of pages.  *)
LEMMA SectorsMembers == \A s : s \in Sectors <=> s \in Nat /\ s < TotalSectors
  BY TotalSectorsType DEF Sectors

LEMMA SpanMembers ==
  ASSUME NEW s \in Nat, NEW k \in Nat
  PROVE  /\ \A x : x \in Span(s, k) <=> x \in Nat /\ s <= x /\ x < s + k
         /\ k = 0 => Span(s, k) = {}
  BY DEF Span

(* Giving a run to a caller adds its pages to the held ones.               *)
LEMMA HeldPagesGiven ==
  ASSUME NEW s \in Nat, NEW k \in Nat, held' = held \union Given(s, k)
  PROVE  HeldPages' = HeldPages \union Span(s, k)
<1>1. CASE k = 0
  BY <1>1, SpanMembers DEF HeldPages, Given
<1>2. CASE k # 0
  <2>1. \A x : x \in HeldPages <=> \E r \in held : x \in Span(r.start, r.pages)
    BY DEF HeldPages
  <2>2. \A x : x \in HeldPages'
                 <=> \E r \in held' : x \in Span(r.start, r.pages)
    BY DEF HeldPages
  <2>3. /\ held' = held \union {Region(s, k)}
        /\ Region(s, k).start = s
        /\ Region(s, k).pages = k
    BY <1>2 DEF Given, Region
  <2>4. \A x : x \in HeldPages' <=> x \in HeldPages \/ x \in Span(s, k)
    BY <2>1, <2>2, <2>3
  <2> QED
    BY <2>4
<1> QED
  BY <1>1, <1>2

(* Taking a run back removes exactly its pages: nobody else holds them.    *)
LEMMA HeldPagesTaken ==
  ASSUME NEW r \in held, HeldApart, held' = held \ {r}
  PROVE  HeldPages' = HeldPages \ Span(r.start, r.pages)
  BY DEF HeldPages, HeldApart

-----------------------------------------------------------------------------
LEMMA InitIInv == Init => IInv
<1> SUFFICES ASSUME Init PROVE IInv
  OBVIOUS
<1> USE SectorsMembers, TotalSectorsType, RequestAssumption, MemoryMapAssumption
<1>1. TypeOK
  BY DEF Init, TypeOK, Sectors
<1>2. HeldPages = {}
  BY DEF Init, HeldPages
<1>3. Books
  BY <1>2 DEF Init, Books, FreeBar, Managed
<1> QED
  BY <1>1, <1>3 DEF Init, IInv, ScanMissesNothing, ScanRegisters, Marking,
                    Freeing, HeldApart

-----------------------------------------------------------------------------
(* The invariant is kept by each step: one lemma for each loop, then the   *)
(* steps that begin or end a call.                                         *)
LEMMA ScanStep ==
  ASSUME IInv, ScanUsed \/ ScanFree \/ ScanExhausted
  PROVE  IInv'
<1> USE SectorsMembers, TotalSectorsType, RequestAssumption
<1>1. CASE ScanUsed
  <2>1. TypeOK'
    BY <1>1 DEF IInv, TypeOK, ScanUsed
  <2>2. i \in bitmap
    BY <1>1 DEF IInv, TypeOK, ScanUsed, is_used
  <2>3. ScanMissesNothing'
    <3>1. SUFFICES ASSUME NEW s \in Sectors, n > 0, s + n <= i + 1
                   PROVE  Span(s, n) \intersect bitmap # {}
      BY <1>1, <2>2 DEF IInv, TypeOK, ScanUsed, ScanMissesNothing, is_used
    <3>2. CASE s + n <= i
      BY <1>1, <3>1, <3>2 DEF IInv, ScanUsed, ScanMissesNothing
    <3>3. CASE s + n = i + 1
      <4>1. i \in Span(s, n)
        BY <3>1, <3>3 DEF IInv, TypeOK, Span
      <4> QED
        BY <4>1, <2>2
    <3> QED
      BY <3>1, <3>2, <3>3 DEF IInv, TypeOK
  <2>4. ScanRegisters'
    BY <1>1 DEF IInv, TypeOK, ScanUsed, ScanRegisters
  <2>5. Books' /\ HeldApart' /\ Marking' /\ Freeing'
    BY <1>1 DEF IInv, ScanUsed, Books, FreeBar, HeldPages, HeldApart,
                Marking, Freeing
  <2> QED
    BY <2>1, <2>3, <2>4, <2>5 DEF IInv
<1>2. CASE ScanFree
  <2>1. TypeOK'
    BY <1>2 DEF IInv, TypeOK, ScanFree, RunStart
  <2>2. /\ RunStart \in Nat
        /\ RunStart = i - consecutive
        /\ consecutive <= i
        /\ \A x \in RunStart .. i : x \in Sectors \ bitmap
    BY <1>2 DEF IInv, TypeOK, ScanFree, RunStart, ScanRegisters,
                ScanMissesNothing, is_used
  <2>3. Books' /\ HeldApart' /\ Freeing'
    <3>1. FreeBar' = FreeBar
      <4>1. pc' = "mark" => Span(start_idx', j') = {}
        BY <1>2, <2>2 DEF ScanFree, Span
      <4> QED
        BY <1>2, <4>1 DEF ScanFree, FreeBar
    <3> QED
      BY <1>2, <3>1 DEF IInv, ScanFree, Books, Managed, HeldPages, HeldApart,
                        Freeing
  <2>4. CASE consecutive + 1 = n /\ pc' = "mark" /\ j' = 0 /\ i' = i
    <3>1. ScanMissesNothing' /\ ScanRegisters'
      BY <2>4 DEF ScanMissesNothing, ScanRegisters
    <3>2. /\ n > 0
          /\ Span(RunStart, n) \subseteq Sectors \ bitmap
          /\ Span(RunStart, 0) = {}
      BY <2>2, <2>4 DEF Span, IInv, TypeOK
    <3>3. \A s \in Sectors : s < RunStart => Span(s, n) \intersect bitmap # {}
      BY <1>2, <2>2, <2>4 DEF IInv, TypeOK, ScanFree, ScanMissesNothing
    <3>4. Marking'
      <4>1. n \in Requests
        BY <1>2 DEF IInv, ScanFree, ScanRegisters
      <4>2. Span(RunStart + 0, n - 0) \intersect bitmap = {}
        BY <2>2, <3>2 DEF IInv, TypeOK
      <4>3. /\ pc' = "mark" /\ j' = 0 /\ n' = n /\ bitmap' = bitmap
            /\ start_idx' = RunStart
        BY <1>2, <2>4 DEF ScanFree
      <4> QED
        BY <2>4, <3>2, <3>3, <4>1, <4>2, <4>3 DEF Marking
    <3> QED
      BY <2>1, <2>3, <3>1, <3>4 DEF IInv
  <2>5. CASE consecutive + 1 # n /\ i' = i + 1 /\ UNCHANGED <<pc, j>>
    <3>1. ScanRegisters' /\ Marking'
      BY <1>2, <2>2, <2>5 DEF IInv, TypeOK, ScanFree, ScanRegisters, Marking
    <3>2. ScanMissesNothing'
      <4>1. /\ consecutive' <= i'
            /\ (i' - consecutive') .. (i' - 1) \subseteq Sectors \ bitmap'
            /\ consecutive' < i' => \/ i' - consecutive' - 1 \notin Sectors
                                    \/ i' - consecutive' - 1 \in bitmap'
        <5>1. /\ i' = i + 1 /\ consecutive' = consecutive + 1
              /\ bitmap' = bitmap
              /\ i \in Nat /\ consecutive \in Nat
          BY <1>2, <2>5 DEF IInv, TypeOK, ScanFree
        <5>2. i' - consecutive' = i - consecutive /\ i' - 1 = i
          BY <5>1
        <5>3. \A x \in (i' - consecutive') .. (i' - 1) : x \in Sectors \ bitmap'
          BY <2>2, <5>1, <5>2
        <5>4. consecutive < i => \/ i - consecutive - 1 \notin Sectors
                                \/ i - consecutive - 1 \in bitmap
          BY <1>2 DEF IInv, ScanFree, ScanMissesNothing, is_used
        <5> QED
          BY <2>2, <5>1, <5>2, <5>3, <5>4
      <4>2. SUFFICES ASSUME NEW s \in Sectors, n > 0, s + n <= i + 1
                     PROVE  Span(s, n) \intersect bitmap # {}
        BY <1>2, <2>5, <4>1 DEF ScanFree, ScanMissesNothing, is_used
      <4>3. CASE s + n <= i
        BY <1>2, <4>2, <4>3 DEF IInv, ScanFree, ScanMissesNothing
      <4>4. CASE s + n = i + 1
        <5>1. consecutive + 1 < n
          BY <1>2, <2>5, <4>2 DEF IInv, TypeOK, ScanFree, ScanRegisters
        <5>2. consecutive < i /\ i - consecutive - 1 \in Sectors
          BY <1>2, <5>1, <4>4 DEF IInv, TypeOK, ScanFree
        <5>3. i - consecutive - 1 \in bitmap
          BY <1>2, <5>2 DEF IInv, ScanFree, ScanMissesNothing, is_used
        <5>4. i - consecutive - 1 \in Span(s, n)
          BY <5>1, <5>2, <4>4 DEF IInv, TypeOK, Span
        <5> QED
          BY <5>3, <5>4
      <4> QED
        BY <4>2, <4>3, <4>4 DEF IInv, TypeOK
    <3> QED
      BY <2>1, <2>3, <3>1, <3>2 DEF IInv
  <2> QED
    BY <1>2, <2>4, <2>5 DEF ScanFree
<1>3. CASE ScanExhausted
  <2>1. TypeOK'
    BY <1>3 DEF IInv, TypeOK, ScanExhausted, LocalsEnd
  <2>2. Books' /\ HeldApart'
    BY <1>3 DEF IInv, ScanExhausted, Books, FreeBar, HeldPages, HeldApart
  <2> QED
    BY <1>3, <2>1, <2>2 DEF IInv, ScanExhausted, ScanMissesNothing,
                            ScanRegisters, Marking, Freeing
<1> QED
  BY <1>1, <1>2, <1>3

LEMMA MarkStep ==
  ASSUME IInv, MarkRun \/ ReturnRun
  PROVE  IInv'
<1> USE SectorsMembers, TotalSectorsType, RequestAssumption
<1>1. CASE MarkRun
  <2> DEFINE p == start_idx + j
  <2>1. /\ p \in Sectors /\ p \notin bitmap
        /\ p \in Span(start_idx, n)
        /\ bitmap' = bitmap \union {p}
        /\ j \in Nat /\ n \in Nat /\ start_idx \in Nat /\ j < n
        /\ pc = "mark" /\ pc' = "mark" /\ j' = j + 1
    BY <1>1 DEF IInv, TypeOK, MarkRun, MarkedUsed, Marking, Span
  <2>2. Span(start_idx, j + 1) = Span(start_idx, j) \union {p}
    BY <2>1 DEF Span
  <2>3. \A x \in Span(start_idx + (j + 1), n - (j + 1)) :
          x \in Span(p, n - j) /\ x # p
    BY <2>1 DEF Span
  <2>4. TypeOK'
    BY <1>1, <2>1 DEF IInv, TypeOK, MarkRun
  <2>5. Marking'
    <3>1. Span(start_idx, j + 1) \subseteq bitmap'
      BY <1>1, <2>1, <2>2 DEF IInv, Marking, MarkRun
    <3>2. Span(start_idx + (j + 1), n - (j + 1)) \intersect bitmap' = {}
      BY <1>1, <2>1, <2>3 DEF IInv, Marking, MarkRun
    <3>3. bitmap' \ Span(start_idx, j + 1) = bitmap \ Span(start_idx, j)
      BY <2>1, <2>2
    <3> QED
      BY <1>1, <2>1, <3>1, <3>2, <3>3 DEF IInv, TypeOK, Marking, MarkRun
  <2>6. FreeBar' = FreeBar
    BY <1>1, <2>1, <2>2 DEF MarkRun, FreeBar
  <2>7. Books' /\ HeldApart'
    BY <1>1, <2>1, <2>6 DEF IInv, MarkRun, Books, Managed, HeldPages, HeldApart
  <2> QED
    BY <1>1, <2>4, <2>5, <2>7 DEF IInv, MarkRun, ScanMissesNothing,
                                  ScanRegisters, Freeing
<1>2. CASE ReturnRun
  <2>1. /\ n \in Nat /\ n > 0 /\ j = n /\ start_idx \in Sectors
        /\ Span(start_idx, n) \subseteq bitmap
        /\ FreeBar = (Sectors \ bitmap) \union Span(start_idx, n)
        /\ FreeBar' = Sectors \ bitmap
    BY <1>2 DEF IInv, TypeOK, ReturnRun, Marking, Span, FreeBar
  <2>2. HeldPages' = HeldPages \union Span(start_idx, n)
    BY <1>2, <2>1, HeldPagesGiven DEF ReturnRun
  <2>3. TypeOK'
    BY <1>2, <2>1 DEF IInv, TypeOK, ReturnRun, Given, Region, LocalsEnd
  <2>4. Books'
    BY <1>2, <2>1, <2>2 DEF IInv, Books, ReturnRun, Managed
  <2>5. Span(start_idx, n) \intersect HeldPages = {}
    BY <2>1 DEF IInv, Books
  <2>6. HeldApart'
    <3>1. \A r \in held : Span(r.start, r.pages) \subseteq HeldPages
      BY DEF HeldPages
    <3>2. /\ held' = held \union {Region(start_idx, n)}
          /\ Region(start_idx, n).start = start_idx
          /\ Region(start_idx, n).pages = n
      BY <1>2, <2>1 DEF ReturnRun, Given, Region
    <3> QED
      BY <2>5, <3>1, <3>2 DEF IInv, HeldApart
  <2> QED
    BY <1>2, <2>3, <2>4, <2>6 DEF IInv, ReturnRun, ScanMissesNothing,
                                  ScanRegisters, Marking, Freeing
<1> QED
  BY <1>1, <1>2

LEMMA FreeStep ==
  ASSUME IInv, FreeRun \/ MunmapDone
  PROVE  IInv'
<1> USE SectorsMembers, TotalSectorsType, RequestAssumption
<1>1. CASE FreeRun
  <2> DEFINE p == start_idx + j
             Rest == Span(p, n - j)
             Rest1 == Span(start_idx + (j + 1), n - (j + 1))
  <2>1. /\ bitmap' = bitmap \ {p}
        /\ j \in Nat /\ n \in Nat /\ start_idx \in Nat /\ j < n
        /\ pc = "free" /\ pc' = "free" /\ j' = j + 1
        /\ UNCHANGED <<start_idx, n>>
    BY <1>1 DEF IInv, TypeOK, FreeRun, MarkedFree
  <2>2. Rest = Rest1 \union {p} /\ p \notin Rest1
    BY <2>1 DEF Span
  <2>3. TypeOK'
    BY <1>1, <2>1 DEF IInv, TypeOK, FreeRun
  <2>4. Sectors \intersect Rest \subseteq bitmap
    BY <2>1 DEF IInv, Freeing
  <2>5. Freeing'
    BY <2>1, <2>2, <2>4 DEF Freeing
  <2>6. FreeBar' = FreeBar
    <3>1. FreeBar = (Sectors \ bitmap) \union (Sectors \intersect Rest)
      BY <2>1 DEF FreeBar, Span
    <3>2. FreeBar' = (Sectors \ bitmap') \union (Sectors \intersect Rest1)
      BY <2>1 DEF FreeBar, Span
    <3> QED
      BY <2>1, <2>2, <3>1, <3>2
  <2>7. Books' /\ HeldApart'
    <3>1. p \in Sectors => p \in FreeBar
      BY <2>1, <2>2 DEF FreeBar, Span
    <3> QED
      BY <1>1, <2>1, <2>6, <3>1 DEF IInv, TypeOK, FreeRun, Books, Managed,
                                    HeldPages, HeldApart
  <2> QED
    BY <1>1, <2>3, <2>5, <2>7 DEF IInv, FreeRun, ScanMissesNothing,
                                  ScanRegisters, Marking
<1>2. CASE MunmapDone
  <2>1. TypeOK'
    BY <1>2 DEF IInv, TypeOK, MunmapDone, LocalsEnd
  <2>2. FreeBar' = FreeBar
    BY <1>2 DEF IInv, TypeOK, MunmapDone, FreeBar
  <2> QED
    BY <1>2, <2>1, <2>2 DEF IInv, MunmapDone, Books, Managed, HeldPages,
          HeldApart, ScanMissesNothing, ScanRegisters, Marking, Freeing
<1> QED
  BY <1>1, <1>2

(* Adding a run disjoint from every held one keeps the runs apart.         *)
LEMMA ApartGiven ==
  ASSUME NEW s \in Nat, NEW k \in Nat, HeldApart,
         held' = held \union Given(s, k),
         Span(s, k) \intersect HeldPages = {}
  PROVE  HeldApart'
<1>1. \A r \in held : Span(r.start, r.pages) \subseteq HeldPages
  BY DEF HeldPages
<1>2. CASE k = 0
  BY <1>2 DEF Given, HeldApart
<1>3. CASE k # 0
  <2>1. /\ held' = held \union {Region(s, k)}
        /\ Region(s, k).start = s
        /\ Region(s, k).pages = k
    BY <1>3 DEF Given, Region
  <2> QED
    BY <1>1, <2>1 DEF HeldApart
<1> QED
  BY <1>2, <1>3

LEMMA AlignedStep ==
  ASSUME IInv, NEW k \in Requests, NEW a \in Alignments, AllocateAligned(k, a)
  PROVE  IInv'
<1> USE SectorsMembers, TotalSectorsType, RequestAssumption
<1>1. CASE result' = FailedSector /\ UNCHANGED <<bitmap, held>>
  <2>1. TypeOK'
    BY <1>1 DEF IInv, TypeOK, AllocateAligned, registers
  <2> QED
    BY <1>1, <2>1 DEF AllocateAligned, registers, IInv, Books, FreeBar, Managed,
          HeldPages, HeldApart, ScanMissesNothing, ScanRegisters, Marking,
          Freeing, is_used
<1>2. ASSUME NEW s \in Sectors, FitsAligned(s, k, a),
             bitmap' = bitmap \union Span(s, k),
             held' = held \union Given(s, k),
             result' = s
      PROVE  IInv'
  <2>1. k \in Nat /\ s \in Nat
    OBVIOUS
  <2>2. Span(s, k) \subseteq Sectors \ bitmap
    <3>1. SUFFICES ASSUME NEW x \in Span(s, k) PROVE x \in Sectors \ bitmap
      OBVIOUS
    <3>2. x - s \in 0 .. (k - 1) /\ s + (x - s) = x
      BY <2>1, <3>1 DEF Span
    <3> QED
      BY <1>2, <3>2 DEF FitsAligned, is_used
  <2>3. pc = "idle" /\ pc' = "idle" /\ UNCHANGED registers
    BY DEF AllocateAligned
  <2>4. TypeOK'
    <3>1. Given(s, k) \subseteq [start : Sectors, pages : Nat]
      BY <2>1 DEF Given, Region
    <3> QED
      BY <1>2, <2>2, <2>3, <3>1 DEF IInv, TypeOK, registers
  <2>5. HeldPages' = HeldPages \union Span(s, k)
    BY <1>2, <2>1, HeldPagesGiven
  <2>6. FreeBar = Sectors \ bitmap /\ FreeBar' = Sectors \ bitmap'
    BY <2>3 DEF FreeBar
  <2>7. Books'
    BY <1>2, <2>2, <2>5, <2>6 DEF IInv, Books, Managed
  <2>8. HeldApart'
    BY <1>2, <2>1, <2>2, <2>6, ApartGiven DEF IInv, Books
  <2> QED
    BY <2>3, <2>4, <2>7, <2>8 DEF IInv, ScanMissesNothing, ScanRegisters,
                                  Marking, Freeing
<1> QED
  BY <1>1, <1>2 DEF AllocateAligned

LEMMA MunmapStep ==
  ASSUME IInv, NEW r, Munmap(r),
         r \in held \/ \E k \in Requests : r = FailedRegion(k)
  PROVE  IInv'
<1> USE SectorsMembers, TotalSectorsType, RequestAssumption
<1>1. /\ pc = "idle" /\ pc' = "free" /\ j' = 0 /\ bitmap' = bitmap
      /\ start_idx' = r.start /\ n' = r.pages /\ held' = held \ {r}
  BY DEF Munmap
<1>2. FreeBar = Sectors \ bitmap
  BY <1>1 DEF FreeBar
<1>3. CASE r \in held
  <2>1. r.start \in Sectors /\ r.pages \in Nat
    BY <1>3 DEF IInv, TypeOK
  <2>2. TypeOK'
    BY <1>1, <2>1 DEF IInv, TypeOK, Munmap
  <2>3. HeldPages' = HeldPages \ Span(r.start, r.pages)
    BY <1>1, <1>3, HeldPagesTaken DEF IInv
  <2>4. Span(r.start, r.pages) \subseteq HeldPages
    BY <1>3 DEF HeldPages
  <2>5. FreeBar' = (Sectors \ bitmap)
                     \union (Sectors \intersect Span(r.start, r.pages))
    BY <1>1, <2>1 DEF FreeBar, Span
  <2>6. Books'
    BY <1>1, <1>2, <2>3, <2>4, <2>5 DEF IInv, Books, Managed
  <2>7. Freeing'
    <3>1. r.start + 0 = r.start /\ r.pages - 0 = r.pages
      BY <2>1
    <3> QED
      BY <1>1, <2>1, <2>4, <3>1 DEF IInv, Books, Freeing
  <2> QED
    BY <1>1, <2>2, <2>6, <2>7 DEF IInv, HeldApart, ScanMissesNothing,
                                  ScanRegisters, Marking
<1>4. ASSUME NEW k \in Requests, r = FailedRegion(k)
      PROVE  IInv'
  <2>1. r.start = FailedSector /\ r.pages = k /\ k \in Nat
    BY <1>4 DEF FailedRegion, Region
  <2>2. r \notin held
    BY <2>1 DEF IInv, TypeOK
  <2>3. held' = held
    BY <1>1, <2>2
  <2>4. Sectors \intersect Span(FailedSector, k) = {}
    BY DEF Span
  <2>5. TypeOK'
    BY <1>1, <2>1, <2>3 DEF IInv, TypeOK, Munmap
  <2>6. FreeBar' = FreeBar
    BY <1>1, <1>2, <2>1, <2>4 DEF FreeBar, Span
  <2>7. Books'
    BY <1>1, <2>3, <2>6 DEF IInv, Books, Managed, HeldPages
  <2>8. Freeing'
    <3>1. FailedSector + 0 = FailedSector /\ k - 0 = k
      BY <2>1
    <3> QED
      BY <1>1, <2>1, <2>4, <3>1 DEF Freeing
  <2> QED
    BY <1>1, <2>3, <2>5, <2>7, <2>8 DEF IInv, HeldApart, ScanMissesNothing,
                                  ScanRegisters, Marking
<1> QED
  BY <1>3, <1>4

LEMMA AllocateStep ==
  ASSUME IInv, NEW k \in Requests, AllocateSectors(k)
  PROVE  IInv'
<1> USE SectorsMembers, TotalSectorsType, RequestAssumption
<1>1. TypeOK'
  BY DEF IInv, TypeOK, AllocateSectors
<1>2. Books' /\ HeldApart'
  BY DEF IInv, AllocateSectors, Books, FreeBar, Managed, HeldPages, HeldApart
<1>3. ScanMissesNothing'
  <2>1. /\ pc' = "scan" /\ n' = k /\ i' = 0 /\ consecutive' = 0 /\ k \in Nat
    BY DEF AllocateSectors
  <2>2. \A s \in Sectors : ~ (k > 0 /\ s + k <= 0)
    BY <2>1
  <2>3. (0 - 0) .. (0 - 1) = {}
    OBVIOUS
  <2> QED
    BY <2>1, <2>2, <2>3 DEF ScanMissesNothing
<1> QED
  BY <1>1, <1>2, <1>3 DEF IInv, AllocateSectors, ScanRegisters, Marking, Freeing

LEMMA NextIInv == IInv /\ [Next]_vars => IInv'
<1> SUFFICES ASSUME IInv, [Next]_vars PROVE IInv'
  OBVIOUS
<1>1. CASE UNCHANGED vars
  BY <1>1 DEF vars, IInv, TypeOK, ScanMissesNothing, ScanRegisters, Marking,
              Freeing, Books, FreeBar, Managed, HeldPages, HeldApart, is_used
<1>2. CASE Step
  BY <1>2, ScanStep, MarkStep, FreeStep DEF Step, Scan
<1>3. ASSUME NEW k \in Requests, AllocateSectors(k) PROVE IInv'
  BY <1>3, AllocateStep
<1>4. ASSUME NEW k \in Requests, NEW a \in Alignments, AllocateAligned(k, a)
      PROVE  IInv'
  BY <1>4, AlignedStep
<1>5. ASSUME NEW r \in held, Munmap(r) PROVE IInv'
  BY <1>5, MunmapStep
<1>6. ASSUME NEW k \in Requests, Munmap(FailedRegion(k)) PROVE IInv'
  BY <1>6, MunmapStep
<1> QED
  BY <1>1, <1>2, <1>3, <1>4, <1>5, <1>6 DEF Next

-----------------------------------------------------------------------------
(* The inductive invariant holds in every state of every behaviour of the  *)
(* memory manager.                                                         *)
THEOREM Invariance == Spec => []IInv
  BY InitIInv, NextIInv, PTL DEF Spec

(* Type correctness of ram.rs and of the loops of SYS_MGET and SYS_MUNMAP. *)
THEOREM TypeCorrect == Spec => []TypeOK
  BY Invariance, PTL DEF IInv

(* Two callers of SYS_MGET, SYS_MMAP or allocate_aligned never hold a page *)
(* in common.                                                              *)
THEOREM RunsStayApart == Spec => []HeldApart
  BY Invariance, PTL DEF IInv

(* allocate_sectors hands out and SYS_MUNMAP frees only conventional       *)
(* memory at or above the limit kmain sets.                                *)
THEOREM OnlyManaged == Spec => []OnlyManagedRam
<1>1. IInv => OnlyManagedRam
  BY DEF IInv, Books, FreeBar, OnlyManagedRam
<1> QED
  BY <1>1, Invariance, PTL

(* Between calls a page is marked exactly when it is reserved or held.     *)
THEOREM NoPageLost == Spec => []BooksBalance
<1>1. IInv => BooksBalance
  BY DEF IInv, TypeOK, Books, FreeBar, BooksBalance, Managed
<1> QED
  BY <1>1, Invariance, PTL

(* The single pass of allocate_sectors overlooks no run that would fit.    *)
THEOREM ScanComplete == Spec => []ScanMissesNothing
  BY Invariance, PTL DEF IInv

-----------------------------------------------------------------------------
(* The refinement: what the callers count as free is exactly the managed   *)
(* pages nobody holds, so a step that changes no holder is a stutter.      *)
LEMMA FreeBarHeld ==
  ASSUME Books, Books'
  PROVE  /\ held' = held => FreeBar' = FreeBar
         /\ \A s \in Nat, k \in Nat :
              held' = held \union Given(s, k) => FreeBar' = FreeBar \ Span(s, k)
<1>1. held' = held => FreeBar' = FreeBar
  BY DEF Books, Managed, HeldPages
<1>2. ASSUME NEW s \in Nat, NEW k \in Nat, held' = held \union Given(s, k)
      PROVE  FreeBar' = FreeBar \ Span(s, k)
  <2>1. HeldPages' = HeldPages \union Span(s, k)
    BY <1>2, HeldPagesGiven
  <2> QED
    BY <2>1 DEF Books, Managed
<1> QED
  BY <1>1, <1>2

LEMMA ReturnRunImplements ==
  ASSUME IInv, IInv', ReturnRun
  PROVE  Abs!Allocate(n)
<1> USE SectorsMembers, TotalSectorsType
<1>1. /\ n \in Nat /\ n > 0 /\ j = n /\ start_idx \in Sectors
      /\ FreeBar = (Sectors \ bitmap) \union Span(start_idx, n)
  BY DEF IInv, TypeOK, ReturnRun, Marking, Span, FreeBar
<1>2. Abs!Fits(start_idx, n)
  BY <1>1 DEF Abs!Fits, Abs!Span, Span
<1>3. ASSUME NEW t \in Sectors, t < start_idx PROVE ~ Abs!Fits(t, n)
  <2>1. Span(t, n) \intersect (bitmap \ Span(start_idx, n)) # {}
    BY <1>1, <1>3 DEF IInv, Marking, ReturnRun
  <2>2. PICK x \in Span(t, n) : x \in bitmap /\ x \notin Span(start_idx, n)
    BY <2>1
  <2>3. x \notin FreeBar
    BY <1>1, <2>2 DEF IInv, TypeOK
  <2> QED
    BY <2>2, <2>3 DEF Abs!Fits, Abs!Span, Span
<1>4. Abs!Take(start_idx, n)
  <2>1. FreeBar' = FreeBar \ Span(start_idx, n)
    BY <1>1, FreeBarHeld DEF IInv, ReturnRun
  <2>2. Given(start_idx, n) = Abs!Given(start_idx, n)
    BY DEF Given, Region, Abs!Given, Abs!Region
  <2> QED
    BY <2>1, <2>2 DEF ReturnRun, Abs!Take, Abs!Span, Span
<1>5. AskedBar = {n} /\ AskedBar' = {}
  BY DEF ReturnRun, AskedBar
<1> QED
  BY <1>1, <1>2, <1>3, <1>4, <1>5 DEF Abs!Allocate

LEMMA ExhaustedImplements ==
  ASSUME IInv, IInv', ScanExhausted
  PROVE  Abs!Allocate(n)
<1> USE SectorsMembers, TotalSectorsType
<1>1. FreeBar = Sectors \ bitmap
  BY DEF ScanExhausted, FreeBar
<1>2. ASSUME NEW s \in Sectors, Abs!Fits(s, n) PROVE FALSE
  <2>1. n > 0 /\ n \in Nat /\ Span(s, n) \subseteq Sectors \ bitmap
    BY <1>1, <1>2 DEF IInv, TypeOK, Abs!Fits, Abs!Span, Span
  <2>2. s + n - 1 \in Sectors
    BY <2>1, SpanMembers
  <2>3. s + n <= i
    BY <2>1, <2>2 DEF ScanExhausted
  <2>4. Span(s, n) \intersect bitmap # {}
    BY <2>1, <2>3 DEF IInv, ScanExhausted, ScanMissesNothing
  <2> QED
    BY <2>1, <2>4
<1>3. Abs!Refuse
  BY FreeBarHeld DEF IInv, ScanExhausted, Abs!Refuse
<1>4. AskedBar = {n} /\ AskedBar' = {}
  BY DEF ScanExhausted, AskedBar
<1> QED
  BY <1>2, <1>3, <1>4 DEF Abs!Allocate

LEMMA AlignedImplements ==
  ASSUME IInv, IInv', NEW k \in Requests, NEW a \in Alignments,
         AllocateAligned(k, a)
  PROVE  Abs!AllocateAligned(k, a)
<1> USE SectorsMembers, TotalSectorsType, RequestAssumption
<1>1. FreeBar = Sectors \ bitmap
  BY DEF AllocateAligned, FreeBar
<1>2. ASSUME NEW s \in Sectors
      PROVE  FitsAligned(s, k, a) <=> Abs!FitsAligned(s, k, a)
  <2>1. k \in Nat /\ s \in Nat
    OBVIOUS
  <2>2. ASSUME \A d \in 0 .. (k - 1) : ~ is_used(s + d), NEW x \in Span(s, k)
        PROVE  x \in FreeBar
    <3>1. x - s \in 0 .. (k - 1) /\ s + (x - s) = x
      BY <2>1, <2>2 DEF Span
    <3> QED
      BY <1>1, <2>2, <3>1 DEF is_used
  <2>3. ASSUME Span(s, k) \subseteq FreeBar, NEW d \in 0 .. (k - 1)
        PROVE  ~ is_used(s + d)
    BY <1>1, <2>1, <2>3 DEF Span, is_used
  <2>4. ~ is_used(s) <=> s \in FreeBar
    BY <1>1 DEF is_used
  <2> QED
    BY <2>2, <2>3, <2>4 DEF FitsAligned, Abs!FitsAligned, Abs!Span, Span
<1> AskedBar = {} /\ UNCHANGED AskedBar
  BY DEF AllocateAligned, AskedBar
<1>3. CASE /\ \A s \in Sectors : ~ FitsAligned(s, k, a)
           /\ result' = FailedSector
           /\ UNCHANGED <<bitmap, held>>
  <2>1. Abs!Refuse
    BY <1>3, FreeBarHeld DEF IInv, Abs!Refuse
  <2> QED
    BY <1>2, <1>3, <2>1 DEF Abs!AllocateAligned
<1>4. ASSUME NEW s \in Sectors, FitsAligned(s, k, a),
             \A t \in Sectors : t < s => ~ FitsAligned(t, k, a),
             held' = held \union Given(s, k),
             result' = s
      PROVE  Abs!AllocateAligned(k, a)
  <2>1. FreeBar' = FreeBar \ Span(s, k)
    BY <1>4, FreeBarHeld DEF IInv
  <2>2. Given(s, k) = Abs!Given(s, k)
    BY DEF Given, Region, Abs!Given, Abs!Region
  <2>3. Abs!Take(s, k)
    BY <1>4, <2>1, <2>2 DEF Abs!Take, Abs!Span, Span
  <2> QED
    BY <1>2, <1>4, <2>3 DEF Abs!AllocateAligned
<1> QED
  BY <1>3, <1>4 DEF AllocateAligned

LEMMA MunmapImplements ==
  ASSUME IInv, IInv', NEW r \in held, Munmap(r)
  PROVE  Abs!Release(r)
<1>1. HeldPages' = HeldPages \ Span(r.start, r.pages)
  BY HeldPagesTaken DEF IInv, Munmap
<1>2. Span(r.start, r.pages) \subseteq HeldPages
  BY DEF HeldPages
<1>3. FreeBar' = FreeBar \union Span(r.start, r.pages)
  BY <1>1, <1>2 DEF IInv, Books, Managed
<1>4. AskedBar = {} /\ UNCHANGED AskedBar
  BY DEF Munmap, AskedBar
<1> QED
  BY <1>3, <1>4 DEF Munmap, Abs!Release, Abs!Span, Span

LEMMA StepImplements ==
  IInv /\ IInv' /\ [Next]_vars => [Abs!Next]_<<FreeBar, held, AskedBar, result>>
<1> SUFFICES ASSUME IInv, IInv', [Next]_vars
             PROVE  [Abs!Next]_<<FreeBar, held, AskedBar, result>>
  OBVIOUS
<1>1. CASE held' = held /\ AskedBar' = AskedBar /\ result' = result
  BY <1>1, FreeBarHeld DEF IInv
<1>2. CASE ReturnRun
  <2>1. n \in Requests
    BY <1>2 DEF IInv, Marking, ReturnRun
  <2> QED
    BY <1>2, <2>1, ReturnRunImplements DEF Abs!Next
<1>3. CASE ScanExhausted
  <2>1. n \in Requests
    BY <1>3 DEF IInv, ScanRegisters, ScanExhausted
  <2> QED
    BY <1>3, <2>1, ExhaustedImplements DEF Abs!Next
<1>4. ASSUME NEW k \in Requests, NEW a \in Alignments, AllocateAligned(k, a)
      PROVE  Abs!Next
  BY <1>4, AlignedImplements DEF Abs!Next
<1>5. ASSUME NEW r \in held, Munmap(r) PROVE Abs!Next
  BY <1>5, MunmapImplements DEF Abs!Next
<1>6. ASSUME NEW k \in Requests, Munmap(FailedRegion(k))
      PROVE  held' = held /\ AskedBar' = AskedBar /\ result' = result
  <2>1. FailedRegion(k) \notin held
    BY SectorsMembers, TotalSectorsType, RequestAssumption
       DEF IInv, TypeOK, FailedRegion, Region
  <2> QED
    BY <1>6, <2>1 DEF Munmap, AskedBar
<1>7. ASSUME NEW k \in Requests, AllocateSectors(k) PROVE Abs!Next
  <2>1. AskedBar = {} /\ AskedBar' = {k}
    BY <1>7 DEF AllocateSectors, AskedBar
  <2>2. UNCHANGED <<FreeBar, held, result>>
    BY <1>7, FreeBarHeld DEF IInv, AllocateSectors
  <2> QED
    BY <2>1, <2>2 DEF Abs!Ask, Abs!Next
<1>8. CASE UNCHANGED vars \/ ScanUsed \/ ScanFree \/ MarkRun \/ FreeRun
             \/ MunmapDone
  <2>1. held' = held /\ AskedBar' = AskedBar /\ result' = result
    BY <1>8 DEF vars, ScanUsed, ScanFree, MarkRun, FreeRun, MunmapDone, AskedBar
  <2> QED
    BY <1>1, <2>1
<1> QED
  BY <1>1, <1>2, <1>3, <1>4, <1>5, <1>6, <1>7, <1>8 DEF Next, Step, Scan

(* The bitmap code of ram.rs implements the first-fit allocator: requests  *)
(* get the lowest run that fits, and fail only when none does.             *)
THEOREM ImplementsFirstFit == Spec => FirstFitAllocator
<1>1. Init => Abs!Init
  <2>1. Init => FreeBar \subseteq Sectors
    BY DEF Init, FreeBar
  <2> QED
    BY <2>1 DEF Init, Abs!Init, AskedBar
<1> QED
  BY <1>1, StepImplements, Invariance, PTL DEF Spec, Abs!Spec, FirstFitAllocator
=============================================================================
