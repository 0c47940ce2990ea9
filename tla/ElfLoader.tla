------------------------------ MODULE ElfLoader ------------------------------
(***************************************************************************)
(* load_elf of kernel/src/boot/exec.rs: reads a program from a file into   *)
(* memory it asks the kernel for.                                          *)
(*                                                                         *)
(* What load_elf does between its system calls are actions of this module; *)
(* a system call is a request here, the number and arguments its stub      *)
(* passes to "int 0x80", and an action for what load_elf does with the     *)
(* answer.  SystemCalls takes the one to the handler and brings back the   *)
(* other.  A file and the memory consist of cells; a cell holds a header,  *)
(* a program header or data, so that what the loader reads back as a       *)
(* program header is what the memory really holds there.                   *)
(***************************************************************************)
EXTENDS Integers, Sequences, FiniteSets

CONSTANTS
  Programs,   (* the files a loader may be given, as sequences of cells    *)
  FdNumbers,  (* descriptors                                               *)
  Closed,
  Sectors,    (* pages of managed memory                                   *)
  Nowhere,    (* the page of a failed request's answer                     *)
  PageSize    (* cells of a page                                           *)

Path == "APP.ELF"

Header(elf, phoff, phnum) ==
  [kind |-> "header", elf |-> elf, phoff |-> phoff, phnum |-> phnum]
ProgramHeader(load, offset, vaddr, filesz, memsz) ==
  [kind |-> "phdr", load |-> load, offset |-> offset, vaddr |-> vaddr,
   filesz |-> filesz, memsz |-> memsz]
Byte(n) == [kind |-> "data", byte |-> n]

Zero  == Byte(0)
Stale == [kind |-> "stale"]     (* what memory held before it was given out *)

(* The pages that hold so many cells. *)
Pages(cells) == (cells + PageSize - 1) \div PageSize

(* Addresses count from the first page that may ever be given out, which   *)
(* lies beyond 64 MiB: none of them is a null pointer.                     *)
Address(sector) == sector * PageSize
Cells == 0 .. (PageSize * Cardinality(Sectors) - 1)

Segments(program) ==
  [k \in 1 .. program[1].phnum |-> program[program[1].phoff + k]]

(* What a cell may hold, in a file or in memory.                           *)
CellValues ==
  [kind : {"header"}, elf : BOOLEAN, phoff : Nat, phnum : Nat]
  \cup [kind : {"phdr"}, load : BOOLEAN, offset : Nat, vaddr : Nat,
        filesz : Nat, memsz : Nat]
  \cup [kind : {"data"}, byte : Nat] \cup {Stale}

(* A header that is taken for one is followed by its table, and no segment *)
(* takes more from the file than it has in memory: load_elf checks         *)
(* neither.  A file may still be too short for its segments.               *)
ASSUME ProgramAssumption ==
  \A program \in Programs :
    /\ program \in Seq(CellValues)
    /\ program # <<>> /\ program[1].kind = "header" /\ program[1].elf =>
         /\ program[1].phoff + program[1].phnum <= Len(program)
         /\ \A k \in 1 .. program[1].phnum :
              /\ Segments(program)[k].kind = "phdr"
              /\ Segments(program)[k].filesz <= Segments(program)[k].memsz

ASSUME MemoryAssumption ==
  /\ IsFiniteSet(Sectors) /\ Sectors = 0 .. (Cardinality(Sectors) - 1)
  /\ Nowhere \in Nat \ Sectors
  /\ PageSize \in Nat \ {0}

VARIABLES
  content, open, reply,        (* FileStore                                *)
  free, held, asked, result,   (* PageAllocator                            *)
  mem,         (* the cells of memory                                      *)
  pc,          (* "idle", "fault", or the next step of load_elf            *)
  fd,          (* its locals                                               *)
  header,
  phdr_mem,
  min_vaddr,
  max_vaddr,
  base_addr,
  i,
  loaded       (* what the last call returned: a LoadedElf, or None        *)

store  == <<content, open, reply>>
memory == <<free, held, asked, result>>
locals == <<fd, header, phdr_mem, min_vaddr, max_vaddr, base_addr, i>>

None == [base_addr |-> Nowhere, size |-> 0]

Failed == [ret |-> -1, bytes |-> <<>>]

Ram == INSTANCE PageAllocator WITH Requests <- Nat, Alignments <- {}

LoaderInit ==
  /\ mem = [c \in Cells |-> Stale]
  /\ pc = "idle"
  /\ fd = 0 /\ header = Stale /\ phdr_mem = 0 /\ min_vaddr = 0 /\ max_vaddr = 0
  /\ base_addr = 0 /\ i = 0
  /\ loaded = None

-----------------------------------------------------------------------------
(* The stubs of boot/mod.rs put a number in rax and arguments in rdi, rsi  *)
(* and rdx.  A read goes to an address, or to a local of the caller.       *)
SYS_EXIT == 2
SYS_OPEN == 3
SYS_CLOSE == 4
SYS_LSEEK == 5
SYS_FSTAT == 6
SYS_EXEC == 7
SYS_YIELD == 8
SYS_READ_FILE == 9
SYS_WRITE_FILE == 10
SYS_SEEK == 11
SYS_MGET == 13
SYS_MMAP == 14
SYS_WRITE_AT == 15
SYS_MUNMAP == 33

Call(num, fd_, arg) == [num |-> num, fd |-> fd_, arg |-> arg, to |-> {}]
CallInto(num, fd_, arg, address) == [Call(num, fd_, arg) EXCEPT !.to = {address}]

Then(next) == pc' = next /\ UNCHANGED loaded

(* The processor faults when a store hits an address that is not mapped.   *)
Mapped(at, count) == count = 0 \/ {at, at + count - 1} \subseteq Cells

Written(at, cells) ==
  [c \in Cells |-> IF c >= at /\ c < at + Len(cells) THEN cells[c - at + 1]
                   ELSE mem[c]]

StoreCells(at, cells, next) ==
  IF Mapped(at, Len(cells))
  THEN mem' = Written(at, cells) /\ Then(next)
  ELSE UNCHANGED mem /\ Then("fault")

-----------------------------------------------------------------------------
LoadElf ==
  /\ pc = "idle"
  /\ pc' = "open"
  /\ loaded' = None
  /\ UNCHANGED <<mem, locals>>

(* The program header k, 0 <= k, as it is in memory now.                   *)
Phdr(k) == mem[phdr_mem + k]

TotalSize == max_vaddr - min_vaddr

(* The system call of a step.  sys_open takes a path, which load_elf gives *)
(* and its stub ends with a zero byte; the header is read into a local.    *)
Request ==
  CASE pc = "open"         -> Call(SYS_OPEN, 0, {Path})
    [] pc = "seek_header"  -> Call(SYS_SEEK, fd, 0)
    [] pc = "read_header"  -> Call(SYS_READ_FILE, fd, 1)
    [] pc = "map_table"    -> Call(SYS_MMAP, 0, Pages(header.phnum))
    [] pc = "seek_table"   -> Call(SYS_SEEK, fd, header.phoff)
    [] pc = "read_table"   -> CallInto(SYS_READ_FILE, fd, header.phnum, phdr_mem)
    [] pc = "map_image"    -> Call(SYS_MMAP, 0, Pages(TotalSize))
    [] pc = "seek_segment" -> Call(SYS_SEEK, fd, Phdr(i).offset)
    [] pc = "read_segment" -> CallInto(SYS_READ_FILE, fd, Phdr(i).filesz,
                                       base_addr - min_vaddr + Phdr(i).vaddr)
    [] pc \in {"reject", "close"} -> Call(SYS_CLOSE, fd, 0)

(* Where load_elf goes on after the calls whose answer it does not look at *)
Onward ==
  [seek_header |-> "read_header", reject |-> "idle", seek_table |-> "read_table",
   read_table |-> "measure", seek_segment |-> "read_segment"]

Requesting ==
  DOMAIN Onward
    \cup {"open", "read_header", "map_table", "map_image", "read_segment", "close"}

AnswerIgnored ==
  /\ pc \in DOMAIN Onward
  /\ Then(Onward[pc])
  /\ UNCHANGED locals

(* A negative descriptor: there is no such file. *)
Opened(answer) ==
  /\ pc = "open"
  /\ fd' = answer
  /\ Then(IF answer < 0 THEN "idle" ELSE "seek_header")
  /\ UNCHANGED <<header, phdr_mem, min_vaddr, max_vaddr, base_addr, i>>

(* The length of the header, the magic number and the type are checked.    *)
CheckHeader(answer, bytes) ==
  /\ pc = "read_header"
  /\ IF answer = 1 /\ bytes[1].kind = "header" /\ bytes[1].elf
     THEN header' = bytes[1] /\ Then("map_table")
     ELSE UNCHANGED header /\ Then("reject")
  /\ UNCHANGED <<fd, phdr_mem, min_vaddr, max_vaddr, base_addr, i>>

TableMapped(answer) ==
  /\ pc = "map_table"
  /\ phdr_mem' = Address(answer)
  /\ Then("seek_table")
  /\ UNCHANGED <<fd, header, min_vaddr, max_vaddr, base_addr, i>>

Loadable == {k \in 0 .. (header.phnum - 1) : Phdr(k).load}

(* The lowest address of a segment and the first one behind them all.      *)
Measure ==
  /\ pc = "measure"
  /\ IF Loadable = {}
     THEN Then("reject") /\ UNCHANGED <<min_vaddr, max_vaddr>>
     ELSE /\ \E k \in Loadable :
               /\ min_vaddr' = Phdr(k).vaddr
               /\ \A l \in Loadable : Phdr(k).vaddr <= Phdr(l).vaddr
          /\ \E k \in Loadable :
               /\ max_vaddr' = Phdr(k).vaddr + Phdr(k).memsz
               /\ \A l \in Loadable : Phdr(l).vaddr + Phdr(l).memsz
                                        <= Phdr(k).vaddr + Phdr(k).memsz
          /\ Then("map_image")
  /\ UNCHANGED <<mem, fd, header, phdr_mem, base_addr, i>>

(* A slip: what sys_mmap wrote through the pointer is not read back. *)
ImageMappedUnread(answer) ==
  /\ pc = "map_image"
  /\ Then("zero")
  /\ UNCHANGED locals

ImageMapped(answer) ==
  /\ pc = "map_image"
  /\ base_addr' = Address(answer)
  /\ Then("zero")
  /\ UNCHANGED <<fd, header, phdr_mem, min_vaddr, max_vaddr, i>>

ZeroImage ==
  /\ pc = "zero"
  /\ StoreCells(base_addr, [c \in 1 .. TotalSize |-> Zero], "segment")
  /\ i' = 0
  /\ UNCHANGED <<fd, header, phdr_mem, min_vaddr, max_vaddr, base_addr>>

Copied(k) == Phdr(k).load /\ Phdr(k).filesz > 0

(* A slip: a segment without bytes in the file is not counted. *)
SkipSegmentStays ==
  /\ pc = "segment" /\ i < header.phnum
  /\ ~ Copied(i)
  /\ UNCHANGED <<mem, pc, locals, loaded>>

SkipSegment ==
  /\ pc = "segment" /\ i < header.phnum
  /\ ~ Copied(i)
  /\ i' = i + 1
  /\ UNCHANGED <<mem, pc, fd, header, phdr_mem, min_vaddr, max_vaddr, base_addr,
                 loaded>>

(* A slip: the file is read on from where the last read ended. *)
CopySegmentUnsought ==
  /\ pc = "segment" /\ i < header.phnum
  /\ Copied(i)
  /\ Then("read_segment")
  /\ UNCHANGED <<mem, locals>>

CopySegment ==
  /\ pc = "segment" /\ i < header.phnum
  /\ Copied(i)
  /\ Then("seek_segment")
  /\ UNCHANGED <<mem, locals>>

(* What the read of a segment returns is not looked at either.             *)
SegmentRead ==
  /\ pc = "read_segment"
  /\ Then("segment")
  /\ i' = i + 1
  /\ UNCHANGED <<fd, header, phdr_mem, min_vaddr, max_vaddr, base_addr>>

AllCopied ==
  /\ pc = "segment" /\ i = header.phnum
  /\ Then("close")
  /\ UNCHANGED <<mem, locals>>

(* The file is closed, the program loaded; its pages and those of the      *)
(* table stay allocated.                                                   *)
Finish ==
  /\ pc = "close"
  /\ pc' = "idle"
  /\ loaded' = [base_addr |-> base_addr, size |-> TotalSize]
  /\ UNCHANGED locals

(* A system call is back, with its answer and what it read.                *)
Returns(answer, bytes) ==
  \/ AnswerIgnored \/ Opened(answer) \/ CheckHeader(answer, bytes)
  \/ TableMapped(answer) \/ ImageMapped(answer) \/ SegmentRead \/ Finish

Step ==
  Measure \/ ZeroImage \/ SkipSegment \/ CopySegment \/ AllCopied

-----------------------------------------------------------------------------
(* The segments of the program that cover the address v and have a byte of *)
(* the file there.                                                         *)
Covering(program, v) ==
  {k \in 1 .. program[1].phnum :
     LET s == Segments(program)[k]
     IN /\ s.load
        /\ v \in s.vaddr .. (s.vaddr + s.filesz - 1)
        /\ s.offset + v - s.vaddr < Len(program)}

(* A program that was loaded is in memory as its file says: each address   *)
(* of a segment holds the segment's byte, the last segment's where they    *)
(* overlap, and all others up to the last one hold zero.                   *)
ImageIsProgram ==
  loaded # None =>
    LET program == content[Path]
    IN \A c \in 0 .. (loaded.size - 1) :
         LET v == min_vaddr + c
             over == Covering(program, v)
             cell == mem[loaded.base_addr + c]
         IN IF over = {} THEN cell = Zero
            ELSE \E k \in over :
                   /\ \A l \in over : l <= k
                   /\ cell = program[Segments(program)[k].offset + v
                                       - Segments(program)[k].vaddr + 1]

(* Every load ends, with a program or without; only a memory request that  *)
(* was refused, whose answer load_elf takes for an address, may end the    *)
(* kernel in a page fault.                                                 *)
LoadEnds ==
  pc # "idle" ~> pc = "idle" \/ (pc = "fault" /\ result = Nowhere)
=============================================================================
