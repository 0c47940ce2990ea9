-------------------------- MODULE SystemCallsProofs --------------------------
(***************************************************************************)
(* What SystemCalls promises, proved for any memory, any files, any        *)
(* program and any calls of an application.                                *)
(*                                                                         *)
(* AllInv is inductive.  Its parts:                                        *)
(*   CallsInv     how calls nest, and where the answer of each one is;     *)
(*   MemoryInv    the pages held, and what the call under way changes;     *)
(*   FilesInv     which descriptor is open at which step;                  *)
(*   ContentsInv  what the test file holds, against what was read;         *)
(*   LoadInv      what load_elf has read, mapped and copied so far.        *)
(* LoadInv speaks of load_elf's locals as they will be once it has read    *)
(* the answer that is there for it: so seen, each of its calls is one step *)
(* (LStep), the one at which the handler serves it.  A lemma per group of  *)
(* actions shows that each part is kept; EveryStep puts them together.     *)
(***************************************************************************)
EXTENDS SystemCalls, TLAPS, SequenceTheorems, FiniteSetTheorems

(* Where the kernel is, in the order in which it gets there.               *)
Rank ==
  [mget |-> 1, open |-> 2, read |-> 3, write |-> 4, lseek |-> 5, seek |-> 6,
   reread |-> 7, close |-> 8, mmap |-> 9, munmap |-> 10, remap |-> 11,
   container |-> 12, load |-> 13, loading |-> 14, app |-> 15, spin |-> 16,
   end |-> 17]

Booting == Steps \cup {"load"}
Untouched == at \in Booting \cup {"loading"} \/ (at = "app" /\ made = 0)

-----------------------------------------------------------------------------
(* The calls being served: one, or the request for memory within an mmap.  *)
IsFrame(f) == f = [call |-> f.call, stage |-> f.stage, gave |-> f.gave]

Outer == frames[Len(frames)]

(* The outer call has its answer.                                          *)
HasAnswer == frames # <<>> /\ frames[1].stage \in {"done", "called"}

Nesting ==
  \/ frames = <<>>
  \/ frames = <<frames[1]>> /\ IsFrame(frames[1])
     /\ (frames[1].stage = "called" => Outer.call.num = SYS_MMAP)
  \/ /\ frames = <<frames[1], frames[2]>> /\ IsFrame(frames[1]) /\ IsFrame(frames[2])
     /\ frames[2].call.num = SYS_MMAP /\ frames[2].stage = "called"
     /\ frames[1].call = Call(SYS_MGET, 0, frames[2].call.arg)
     /\ frames[1].stage # "called"

(* The stub load_elf is in at each of its calls.                           *)
Stubs ==
  [open |-> SYS_OPEN, seek_header |-> SYS_SEEK, read_header |-> SYS_READ_FILE,
   reject |-> SYS_CLOSE, map_table |-> SYS_MMAP, seek_table |-> SYS_SEEK,
   read_table |-> SYS_READ_FILE, map_image |-> SYS_MMAP, seek_segment |-> SYS_SEEK,
   read_segment |-> SYS_READ_FILE, close |-> SYS_CLOSE]

(* A store of the handler for load_elf that faults is the end of it.       *)
LoaderAsked ==
  /\ pc = "fault" => frames[1].stage = "fault"
  /\ pc # "fault" => pc \in DOMAIN Stubs /\ Outer.call.num = Stubs[pc]
  /\ pc # "fault" /\ ~ HasAnswer => Outer.call = Request

Callers ==
  /\ at \in DOMAIN Rank /\ made \in Nat
  /\ at # "loading" => pc = "idle"
  /\ frames # <<>> =>
       \/ at \in DOMAIN Script /\ Outer.call = Script[at]
       \/ at = "app" /\ Outer.call \in AppCalls /\ made > 0
       \/ at = "loading" /\ LoaderAsked

(* The answer is where the one who asked looks for it, and what was asked  *)
(* of the allocator is where its answer went.                              *)
Answers ==
  frames # <<>> =>
    /\ frames[1].stage = "asked" => frames[1].call.num = SYS_MGET
    /\ frames[1].stage \in {"done", "called"}
       /\ frames[1].call.num \in {SYS_MGET, SYS_MMAP} => word = result
    /\ frames[1].stage = "done" /\ frames[1].call.num \in {SYS_MGET, SYS_MMAP} =>
         frames[1].gave = word
    /\ frames[1].stage = "done" /\ at \in Steps \cup {"loading"}
       /\ frames[1].call.num \notin {SYS_MGET, SYS_MMAP} =>
         frames[1].gave = SYSCALL_RET

CallsInv == Nesting /\ Callers /\ Answers /\ KernelGetsItsAnswer

-----------------------------------------------------------------------------
(* Pages are free or in one of the runs held.                              *)
RunsApart ==
  /\ free \subseteq Sectors
  /\ \A r \in held :
       /\ r = Ram!Region(r.start, r.pages)
       /\ r.start \in Sectors /\ r.pages \in Nat \ {0}
       /\ Ram!Span(r.start, r.pages) \subseteq Sectors \ free
  /\ \A r, q \in held :
       r # q => Ram!Span(r.start, r.pages) \cap Ram!Span(q.start, q.pages) = {}

MemorySteps == {"mget", "mmap", "remap", "container"}

Taken ==
  /\ DOMAIN got = Steps
  /\ \A s \in Steps : got[s] # NoAnswer => Rank[s] < Rank[at]
  /\ \A s \in MemorySteps : got[s] # NoAnswer =>
       got[s] = [ret |-> got[s].ret, bytes |-> <<>>]
       /\ got[s].ret \in Sectors \cup {Nowhere}

(* What the call under way has changed of what is held.                    *)
New ==
  IF HasAnswer /\ at \in MemorySteps /\ word # Nowhere
  THEN {Ram!Region(word, Script[at].arg)} ELSE {}
Old == IF HasAnswer /\ at = "munmap" THEN {Script["munmap"].arg} ELSE {}

BootHolds ==
  /\ at \in Booting => held = (BootHas \cup New) \ Old
  /\ BootHas \ Old \subseteq held
  /\ HasAnswer /\ at \in MemorySteps => word \in Sectors \cup {Nowhere}
  /\ HasAnswer /\ at = "munmap" => SYSCALL_RET = 0

(* No page below this one is free; Nowhere is above them all.              *)
Lowest(s) == \A t \in Sectors : t < s => t \notin free

MapAgain ==
  /\ at = "mmap" /\ HasAnswer =>
       Lowest(word) /\ (word # Nowhere => word # got["mget"].ret)
  /\ at = "munmap" =>
       got["mmap"] # NoAnswer
       /\ (got["mmap"].ret # Nowhere => got["mmap"].ret # got["mget"].ret)
  /\ at = "munmap" \/ (at = "remap" /\ ~ HasAnswer) => Lowest(got["mmap"].ret)
  /\ (at = "munmap" /\ HasAnswer) \/ (at = "remap" /\ ~ HasAnswer) =>
       got["mmap"].ret \in free \cup {Nowhere}
  /\ at = "remap" => got["mmap"] # NoAnswer
  /\ at = "remap" /\ HasAnswer => word = got["mmap"].ret
  /\ got["remap"] # NoAnswer => got["remap"] = got["mmap"]

MemoryInv == RunsApart /\ Taken /\ BootHolds /\ MapAgain

-----------------------------------------------------------------------------
Descriptors ==
  open \in [FdNumbers -> [file : {Path, TestFile}, position : Nat] \cup {Closed}]

AllClosed == \A d \in FdNumbers : open[d] = Closed
OnlyOpen(d, f) ==
  /\ d \in FdNumbers /\ open[d] # Closed /\ open[d].file = f
  /\ \A e \in FdNumbers \ {d} : open[e] = Closed

Testing == {"read", "write", "lseek", "seek", "reread", "close"}
Text == content[TestFile]

FilesInv ==
  /\ Descriptors
  /\ DOMAIN content = {Path, TestFile}
  /\ content[Path] \in Seq(CellValues) /\ Text \in Seq(CellValues)
  /\ at \in Testing =>
       IF at = "close" /\ HasAnswer THEN AllClosed
       ELSE OnlyOpen(got["open"].ret, TestFile)
  /\ at \in Booting \ Testing => AllClosed
  /\ at \in {"app", "end"} /\ made = 0 => AllClosed

(* The first cells, as far as a buffer reaches.                            *)
Start(cells) == SubSeq(cells, 1, Disk!Smaller(BufSize, Len(cells)))

Expected(n) == Start(got["read"].bytes \o SubSeq(TestData, 1, n))

Place == open[got["open"].ret].position

ContentsInv ==
  /\ Untouched => content[Path] \in Programs
  /\ at = "read" =>
       IF HasAnswer THEN reply.bytes = Start(Text) /\ Place = Len(Start(Text))
       ELSE Place = 0
  /\ at = "write" =>
       IF HasAnswer THEN frames[1].gave \in -1 .. Len(TestData) /\ Start(Text) = Expected(frames[1].gave)
       ELSE got["read"].bytes = Start(Text) /\ Place = Len(Start(Text))
  /\ at \in {"lseek", "seek", "reread"} => Start(Text) = Expected(got["write"].ret)
  /\ (at = "lseek" /\ HasAnswer) \/ at = "seek" \/ (at = "reread" /\ ~ HasAnswer) =>
       Place = 0
  /\ at = "reread" /\ HasAnswer => reply.bytes = Expected(got["write"].ret)
  /\ SelfTestReadsBack

-----------------------------------------------------------------------------
(* load_elf's locals as they will be once it has read the answer that is   *)
(* there for it.                                                           *)
Pending == at = "loading" /\ HasAnswer

HeaderRight ==
  SYSCALL_RET = 1 /\ reply.bytes[1].kind = "header" /\ reply.bytes[1].elf

AfterCall ==
  [open |-> IF SYSCALL_RET < 0 THEN "idle" ELSE "seek_header",
   seek_header |-> "read_header",
   read_header |-> IF HeaderRight THEN "map_table" ELSE "reject",
   reject |-> "idle", map_table |-> "seek_table", seek_table |-> "read_table",
   read_table |-> "measure", map_image |-> "zero", seek_segment |-> "read_segment",
   read_segment |-> "segment", close |-> "idle"]

lpc == IF Pending THEN AfterCall[pc] ELSE pc
lfd == IF Pending /\ pc = "open" THEN SYSCALL_RET ELSE fd
lheader ==
  IF Pending /\ pc = "read_header" /\ HeaderRight THEN reply.bytes[1] ELSE header
lphdr_mem == IF Pending /\ pc = "map_table" THEN Address(word) ELSE phdr_mem
lbase_addr == IF Pending /\ pc = "map_image" THEN Address(word) ELSE base_addr
li == IF Pending /\ pc = "read_segment" THEN i + 1 ELSE i
lloaded ==
  IF Pending /\ pc = "close" THEN [base_addr |-> base_addr, size |-> TotalSize]
  ELSE loaded
llocals == <<lfd, lheader, lphdr_mem, min_vaddr, max_vaddr, lbase_addr, li>>

LPhdr(k) == mem[lphdr_mem + k]
LLoadable == {k \in 0 .. (lheader.phnum - 1) : LPhdr(k).load}
LCopied(k) == LPhdr(k).load /\ LPhdr(k).filesz > 0

LImageIsProgram ==
  lloaded # None =>
    LET program == content[Path]
    IN \A c \in 0 .. (lloaded.size - 1) :
         LET v == min_vaddr + c
             over == Covering(program, v)
             cell == mem[lloaded.base_addr + c]
         IN IF over = {} THEN cell = Zero
            ELSE \E k \in over :
                   /\ \A l \in over : l <= k
                   /\ cell = program[Segments(program)[k].offset + v
                                       - Segments(program)[k].vaddr + 1]

Copying == {"seek_segment", "read_segment"}
Looping == {"segment", "close"} \cup Copying
Imaged == {"zero"} \cup Looping
Measured == {"map_image"} \cup Imaged
TableRead == {"measure"} \cup Measured
TableKept == {"seek_table", "read_table"} \cup TableRead
HeaderRead == {"map_table"} \cup TableKept
FdOpen == {"seek_header", "read_header", "reject"} \cup HeaderRead

Program == content[Path]

Progress ==
  /\ lpc \in {"idle", "fault", "open"} \cup FdOpen
  /\ at # "loading" => lpc = "idle"
  /\ at \in Booting \/ lpc # "idle" => lloaded = None

File ==
  /\ at = "loading" /\ lpc \in {"idle", "open"} => AllClosed
  /\ lpc \in FdOpen => OnlyOpen(lfd, Path)
  /\ lpc = "read_header" => open[lfd].position = 0
  /\ lpc = "read_table" => open[lfd].position = lheader.phoff

(* The header is the file's; its table is read back from memory as it is   *)
(* in the file; the image has room for all segments.                       *)
HeaderIs ==
  Program # <<>> /\ lheader = Program[1] /\ lheader.kind = "header" /\ lheader.elf

Table == 0 .. (lheader.phnum - 1)
Image == 0 .. (TotalSize - 1)
Segment(k) == Segments(Program)[k + 1]

Run(place, cells) ==
  \E q \in Sectors \cup {Nowhere} :
    place = Address(q) /\ (q # Nowhere => Ram!Region(q, Pages(cells)) \in held \ BootHas)

TableIs == \A k \in Table : lphdr_mem + k \in Cells /\ LPhdr(k) = Segment(k)

MeasureIs ==
  /\ min_vaddr \in Nat /\ max_vaddr \in Nat /\ min_vaddr <= max_vaddr
  /\ \A k \in Table : Segment(k).load =>
       min_vaddr <= Segment(k).vaddr /\ Segment(k).vaddr + Segment(k).memsz <= max_vaddr

Beside == \A k \in Table, c \in Image : lphdr_mem + k # lbase_addr + c

(* What is at an address after the first n segments have been copied.      *)
CellIs(cell, v, n) ==
  LET over == {k \in Covering(Program, v) : k <= n}
  IN  IF over = {} THEN cell = Zero
      ELSE \E k \in over :
             /\ \A l \in over : l <= k
             /\ cell = Program[Segments(Program)[k].offset + v
                                 - Segments(Program)[k].vaddr + 1]

CopiedUpTo(n) ==
  \A c \in Image : lbase_addr + c \in Cells /\ CellIs(mem[lbase_addr + c], min_vaddr + c, n)

HeldInv ==
  /\ lpc \in HeaderRead => HeaderIs
  /\ lpc \in TableKept => Run(lphdr_mem, lheader.phnum)
  /\ lpc \in TableRead => TableIs
  /\ lpc \in Measured => MeasureIs
  /\ lpc \in Imaged => Run(lbase_addr, TotalSize) /\ Beside

ImageInv ==
  /\ lpc \in Looping => li \in 0 .. lheader.phnum /\ CopiedUpTo(li)
  /\ lpc \in Copying => li < lheader.phnum /\ LCopied(li)
  /\ lpc = "read_segment" => open[lfd].position = LPhdr(li).offset
  /\ lpc = "close" => li = lheader.phnum
  /\ at \in {"loading", "app"} /\ made = 0 => LImageIsProgram

LoadInv == Progress /\ File /\ HeldInv /\ ImageInv /\ DOMAIN mem = Cells

-----------------------------------------------------------------------------
(* Calls.                                                                  *)
LEMMA Numbers ==
  /\ SYS_EXIT = 2 /\ SYS_OPEN = 3 /\ SYS_CLOSE = 4 /\ SYS_LSEEK = 5
  /\ SYS_FSTAT = 6 /\ SYS_EXEC = 7 /\ SYS_YIELD = 8 /\ SYS_READ_FILE = 9
  /\ SYS_WRITE_FILE = 10 /\ SYS_SEEK = 11 /\ SYS_MGET = 13 /\ SYS_MMAP = 14
  /\ SYS_WRITE_AT = 15 /\ SYS_MUNMAP = 33
  BY DEF SYS_EXIT, SYS_OPEN, SYS_CLOSE, SYS_LSEEK, SYS_FSTAT, SYS_EXEC,
     SYS_YIELD, SYS_READ_FILE, SYS_WRITE_FILE, SYS_SEEK, SYS_MGET, SYS_MMAP,
     SYS_WRITE_AT, SYS_MUNMAP

LEMMA ScriptSteps ==
  /\ DOMAIN Script = Steps \ {"open"} /\ "open" \in Steps
  /\ Steps \ {"open"} = Testing \cup MemorySteps \cup {"munmap"}
  /\ Steps \subseteq DOMAIN Rank
  /\ Steps \cap {"load", "loading", "app", "spin", "end"} = {}
  BY DEF Script, Steps, Afterwards, Testing, MemorySteps, Rank

LEMMA ScriptCalls ==
  /\ Script["mget"].num = SYS_MGET /\ Script["read"].num = SYS_READ_FILE
  /\ Script["write"].num = SYS_WRITE_FILE /\ Script["lseek"].num = SYS_LSEEK
  /\ Script["seek"].num = SYS_SEEK /\ Script["reread"].num = SYS_READ_FILE
  /\ Script["close"].num = SYS_CLOSE /\ Script["mmap"].num = SYS_MMAP
  /\ Script["munmap"].num = SYS_MUNMAP /\ Script["remap"].num = SYS_MMAP
  /\ Script["container"].num = SYS_MMAP
  BY DEF Script, Call

LEMMA ScriptStays == UNCHANGED got => Script' = Script
  BY DEF Script

(* A frame is given another stage and answer; the call in it and the call  *)
(* behind it are what they were.                                           *)
LEMMA Restaged ==
  ASSUME Nesting, frames # <<>>, NEW f, IsFrame(f),
         f.call = frames[1].call, f.stage # "called",
         frames' = [frames EXCEPT ![1] = f]
  PROVE  /\ Nesting' /\ frames' # <<>> /\ Len(frames') = Len(frames)
         /\ Outer'.call = Outer.call /\ frames'[1] = f
<1> DEFINE e == frames[1]
           g == frames[2]
<1>1. CASE frames = <<e>>
  <2>1. frames' = <<f>>
    BY <1>1
  <2>2. frames'[1] = f /\ Len(frames') = 1 /\ frames' # <<>>
    BY <2>1
  <2> QED
    BY <1>1, <2>1, <2>2 DEF Nesting, Outer
<1>2. CASE frames = <<e, g>> /\ frames # <<e>>
  <2>1. frames' = <<f, g>>
    <3> HIDE DEF e, g
    <3> QED
      BY <1>2
  <2>2. frames'[1] = f /\ frames'[2] = g /\ Len(frames') = 2 /\ frames' # <<>>
    BY <2>1
  <2>3. /\ g.call.num = SYS_MMAP /\ g.stage = "called" /\ IsFrame(g)
        /\ f.call = Call(SYS_MGET, 0, g.call.arg)
    BY <1>2 DEF Nesting
  <2>4. Nesting'
    BY <2>1, <2>2, <2>3 DEF Nesting
  <2> QED
    BY <1>2, <2>1, <2>2, <2>4 DEF Outer
<1> QED
  BY <1>1, <1>2 DEF Nesting

LEMMA FirstFrame == Nesting /\ frames # <<>> => IsFrame(frames[1]) /\ Len(frames) \in {1, 2}
<1>1. ASSUME NEW f, frames = <<f>> PROVE Len(frames) = 1
  BY <1>1
<1>2. ASSUME NEW f, NEW g, frames = <<f, g>> PROVE Len(frames) = 2
  BY <1>2
<1> QED
  BY <1>1, <1>2 DEF Nesting

LEMMA ServedFrame ==
  ASSUME Nesting, frames # <<>>, NEW gave, Served(gave)
  PROVE  frames' = [frames EXCEPT ![1] =
                      [call |-> frames[1].call, stage |-> "done", gave |-> gave]]
<1>1. ASSUME NEW f, IsFrame(f), NEW g, g = [f EXCEPT !.stage = "done", !.gave = gave]
      PROVE  g = [call |-> f.call, stage |-> "done", gave |-> gave]
  BY <1>1 DEF IsFrame
<1>2. frames' = [frames EXCEPT ![1] = [frames[1] EXCEPT !.stage = "done", !.gave = gave]]
  BY DEF Served
<1> QED
  BY <1>1, <1>2, FirstFrame

(* A call that is served keeps its caller and its place.                   *)
LEMMA ServedNesting ==
  ASSUME Nesting, frames # <<>>, NEW gave, Served(gave)
  PROVE  /\ Nesting' /\ frames' # <<>> /\ Len(frames') = Len(frames)
         /\ Outer'.call = Outer.call
         /\ frames'[1] = [call |-> frames[1].call, stage |-> "done", gave |-> gave]
<1> DEFINE f == [call |-> frames[1].call, stage |-> "done", gave |-> gave]
<1>1. IsFrame(f) /\ f.call = frames[1].call /\ f.stage # "called"
  BY DEF IsFrame
<1> QED
  BY <1>1, ServedFrame, Restaged

(* The call on top is the outer one or the mget within an mmap.            *)
LEMMA TopCall ==
  ASSUME Nesting, frames # <<>>
  PROVE  \/ Len(frames) = 1 /\ Outer = frames[1]
         \/ /\ Len(frames) = 2 /\ Outer = frames[2]
            /\ frames[1].call = Call(SYS_MGET, 0, Outer.call.arg)
            /\ frames[1].call.num = SYS_MGET
            /\ Outer.call.num = SYS_MMAP /\ frames[1].stage # "called"
<1>1. ASSUME NEW f, frames = <<f>> PROVE Len(frames) = 1
  BY <1>1
<1>2. ASSUME NEW f, NEW g, frames = <<f, g>> PROVE Len(frames) = 2
  BY <1>2
<1>3. \A a : Call(SYS_MGET, 0, a).num = SYS_MGET
  BY DEF Call
<1> QED
  BY <1>1, <1>2, <1>3 DEF Nesting, Outer

LEMMA ServedDone ==
  ASSUME Nesting, frames # <<>>, \E gave : Served(gave)
  PROVE  frames' # <<>> /\ frames'[1].stage = "done"
<1>1. PICK gave : Served(gave)
  OBVIOUS
<1>2. /\ frames' # <<>>
      /\ frames'[1] = [call |-> frames[1].call, stage |-> "done", gave |-> gave]
  BY <1>1, ServedNesting
<1> QED
  BY <1>2

LEMMA ServedCalls ==
  ASSUME CallsInv, frames # <<>>, NEW gave, Served(gave),
         UNCHANGED <<at, got, told, made, pc>>,
         frames[1].stage # "fault",
         frames[1].call.num \in {SYS_MGET, SYS_MMAP} => word' = gave /\ result' = gave,
         frames[1].call.num \notin {SYS_MGET, SYS_MMAP} /\ at \in Steps \cup {"loading"} =>
           SYSCALL_RET' = gave
  PROVE  CallsInv'
<1>1. /\ Nesting' /\ frames' # <<>> /\ Outer'.call = Outer.call
      /\ frames'[1] = [call |-> frames[1].call, stage |-> "done", gave |-> gave]
  BY ServedNesting DEF CallsInv
<1>2. Callers'
  <2>1. HasAnswer'
    BY <1>1 DEF HasAnswer
  <2>2. LoaderAsked => LoaderAsked'
    BY <1>1, <2>1 DEF LoaderAsked
  <2>3. AppCalls' = AppCalls
    BY DEF AppCalls
  <2> QED
    BY <1>1, <2>2, <2>3, ScriptStays DEF CallsInv, Callers
<1>3. Answers'
  BY <1>1 DEF CallsInv, Answers
<1> QED
  BY <1>1, <1>2, <1>3 DEF CallsInv, KernelGetsItsAnswer

(* A call that reads into memory is load_elf's.                            *)
LEMMA WhoReadsInto ==
  ASSUME CallsInv, frames # <<>>, at # "loading"
  PROVE  To = {} /\ pc = "idle"
<1>1. \A s \in DOMAIN Script : Script[s].to = {}
  BY DEF Script, Call
<1>2. \A call \in AppCalls : call.to = {}
  BY DEF AppCalls, Call
<1>3. Outer.call.to = {} /\ pc = "idle"
  BY <1>1, <1>2 DEF CallsInv, Callers
<1>4. Call(SYS_MGET, 0, Outer.call.arg).to = {}
  BY DEF Call
<1> QED
  BY <1>3, <1>4, TopCall DEF CallsInv, To

LEMMA ReadCalls == CallsInv /\ ReadArm => CallsInv'
<1> SUFFICES ASSUME CallsInv, ReadArm PROVE CallsInv'
  OBVIOUS
<1>1. /\ frames # <<>> /\ UNCHANGED <<at, got, told, made>>
      /\ frames[1].call.num = SYS_READ_FILE /\ frames[1].stage = "new"
      /\ pc' = "fault" => frames' = [frames EXCEPT ![1].stage = "fault"]
      /\ pc' # "fault" => Served(reply'.ret) /\ SYSCALL_RET' = reply'.ret
      /\ pc' \in {pc, "fault"} /\ (To = {} => pc' = pc)
  BY DEF ReadArm, Serving, StoreCells, Then
<1>2. CASE pc' # "fault"
  BY <1>1, <1>2, ServedCalls, Numbers
<1>3. CASE pc' = "fault"
  <2>1. at = "loading"
    BY <1>1, <1>3, WhoReadsInto
  <2> DEFINE f == [call |-> frames[1].call, stage |-> "fault", gave |-> frames[1].gave]
  <2>2. ASSUME NEW e, IsFrame(e), NEW g, g = [e EXCEPT !.stage = "fault"]
        PROVE  g = [call |-> e.call, stage |-> "fault", gave |-> e.gave]
    BY <2>2 DEF IsFrame
  <2>3. frames' = [frames EXCEPT ![1] = f]
    BY <1>1, <1>3, <2>2, FirstFrame DEF CallsInv
  <2>4. IsFrame(f) /\ f.call = frames[1].call /\ f.stage = "fault"
    BY DEF IsFrame
  <2> HIDE DEF f
  <2>5. Nesting' /\ frames' # <<>> /\ frames'[1] = f
    BY <1>1, <2>3, <2>4, Restaged DEF CallsInv
  <2>6. Callers'
    BY <1>1, <1>3, <2>1, <2>4, <2>5 DEF CallsInv, Callers, LoaderAsked
  <2>7. Answers'
    BY <2>4, <2>5 DEF Answers
  <2> QED
    BY <1>1, <2>5, <2>6, <2>7 DEF CallsInv, KernelGetsItsAnswer
<1> QED
  BY <1>2, <1>3

(* The other arms for files and for memory given back.                           *)
LEMMA AnsweredCalls ==
  ASSUME CallsInv,
         AnswersNull \/ OpenArm \/ CloseArm \/ LseekArm \/ SeekArm \/ FstatArm
           \/ WriteArm \/ MunmapArm
  PROVE  CallsInv'
<1>1. PICK gave : Served(gave) /\ SYSCALL_RET' = gave
  BY DEF AnswersNull, OpenArm, CloseArm, LseekArm, SeekArm, FstatArm,
     WriteArm, MunmapArm, FileArm, Answered
<1>2. /\ UNCHANGED <<at, got, told, made, pc>>
      /\ frames # <<>> /\ frames[1].stage = "new"
      /\ frames[1].call.num \notin {SYS_MGET, SYS_MMAP}
  BY Numbers DEF AnswersNull, OpenArm, CloseArm, LseekArm, SeekArm, FstatArm,
     WriteArm, MunmapArm, FileArm, MemoryArm, Answered, Serving, loading
<1> QED
  BY <1>1, <1>2, ServedCalls

LEMMA ScriptNumbers ==
  ASSUME NEW s \in DOMAIN Script
  PROVE  /\ Script[s].num \notin {SYS_WRITE_AT, SYS_EXIT, SYS_EXEC, SYS_YIELD,
                                  SYS_OPEN, SYS_FSTAT}
         /\ Script[s].num \in {SYS_MGET, SYS_MMAP} <=> s \in MemorySteps
         /\ Script[s].num = SYS_MUNMAP <=> s = "munmap"
  BY ScriptSteps, ScriptCalls, Numbers DEF Testing, MemorySteps

LEMMA DrawingCalls == CallsInv /\ AnswersInRax => CallsInv'
<1> SUFFICES ASSUME CallsInv, AnswersInRax PROVE CallsInv'
  OBVIOUS
<1>1. frames # <<>> /\ frames[1].call.num \in {SYS_WRITE_AT, SYS_EXEC}
  BY Numbers DEF AnswersInRax, Serving
<1>2. Outer = frames[1]
  BY <1>1, TopCall, Numbers DEF CallsInv
<1>3. at \notin Steps \cup {"loading"}
  <2>1. frames[1].stage = "new"
    BY DEF AnswersInRax, Serving
  <2>2. at = "loading" => frames[1].call.num \in {Stubs[s] : s \in DOMAIN Stubs}
    BY <1>1, <1>2, <2>1, ScriptSteps DEF CallsInv, Callers, LoaderAsked
  <2>3. \A s \in DOMAIN Stubs : Stubs[s] \notin {SYS_WRITE_AT, SYS_EXEC}
    BY Numbers DEF Stubs
  <2> QED
    BY <1>1, <1>2, <2>2, <2>3, ScriptNumbers, ScriptSteps, Numbers DEF CallsInv, Callers
<1>4. UNCHANGED pc /\ frames[1].stage = "new"
  BY DEF AnswersInRax, Serving, loading
<1> QED
  BY <1>1, <1>3, <1>4, ServedCalls, Numbers DEF AnswersInRax

LEMMA PairOfFrames ==
  ASSUME NEW f, NEW g
  PROVE  <<g>> \o <<f>> = <<g, f>>
<1>1. <<g>> \in Seq({f, g}) /\ <<f>> \in Seq({f, g}) /\ <<g, f>> \in Seq({f, g})
  OBVIOUS
<1>2. Len(<<g>> \o <<f>>) = 2 /\ (<<g>> \o <<f>>)[1] = g /\ (<<g>> \o <<f>>)[2] = f
  BY <1>1
<1>3. <<g>> \o <<f>> \in Seq({f, g})
  BY <1>1
<1> DEFINE s == <<g>> \o <<f>>
           t == <<g, f>>
<1>4. Len(s) = Len(t) /\ \A k \in 1 .. Len(s) : s[k] = t[k]
  BY <1>2
<1> QED
  BY <1>1, <1>3, <1>4, SeqEqual

(* What the other steps of the handler make of the frames.                 *)
LEMMA AsksNesting ==
  ASSUME Nesting, MgetAsks
  PROVE  /\ Nesting' /\ frames' # <<>> /\ Outer'.call = Outer.call
         /\ frames'[1].call = frames[1].call /\ frames'[1].stage = "asked"
<1> DEFINE f == [call |-> frames[1].call, stage |-> "asked", gave |-> frames[1].gave]
<1>1. frames # <<>> /\ frames' = [frames EXCEPT ![1].stage = "asked"]
  BY DEF MgetAsks, MemoryArm, Serving
<1>2. ASSUME NEW e, IsFrame(e), NEW g, g = [e EXCEPT !.stage = "asked"]
      PROVE  g = [call |-> e.call, stage |-> "asked", gave |-> e.gave]
  BY <1>2 DEF IsFrame
<1>3. frames' = [frames EXCEPT ![1] = f]
  BY <1>1, <1>2, FirstFrame
<1>4. IsFrame(f) /\ f.call = frames[1].call /\ f.stage # "called"
  BY DEF IsFrame
<1>5. /\ Nesting' /\ frames' # <<>> /\ Outer'.call = Outer.call
      /\ frames'[1] = f
  BY <1>1, <1>3, <1>4, Restaged
<1> QED
  BY <1>5

LEMMA MmapNesting ==
  ASSUME Nesting, MmapCalls
  PROVE  /\ Nesting' /\ frames' # <<>> /\ Outer'.call = Outer.call
         /\ frames'[1].stage = "new"
<1> DEFINE e == frames[1]
           f == [call |-> e.call, stage |-> "called", gave |-> e.gave]
           g == [call |-> Call(SYS_MGET, 0, e.call.arg), stage |-> "new", gave |-> 0]
<1>1. frames # <<>> /\ e.call.num = SYS_MMAP
  BY DEF MmapCalls, MemoryArm, Serving
<1>2. frames = <<e>> /\ IsFrame(e) /\ Outer = e
  BY <1>1, TopCall, Numbers DEF Nesting, Call
<1>3. frames' = <<g>> \o [frames EXCEPT ![1].stage = "called"]
  BY DEF MmapCalls, Arg
<1>4. ASSUME NEW d, IsFrame(d), NEW h, h = [d EXCEPT !.stage = "called"]
      PROVE  h = [call |-> d.call, stage |-> "called", gave |-> d.gave]
  BY <1>4 DEF IsFrame
<1>5. [frames EXCEPT ![1].stage = "called"] = <<[e EXCEPT !.stage = "called"]>>
  <2> HIDE DEF e
  <2> QED
    BY <1>2
<1>6. frames' = <<g, f>>
  <2>1. frames' = <<g>> \o <<f>>
    BY <1>2, <1>3, <1>4, <1>5
  <2> HIDE DEF f, g
  <2> QED
    BY <2>1, PairOfFrames
<1>7. frames'[1] = g /\ frames'[2] = f /\ Len(frames') = 2 /\ frames' # <<>>
  <2> HIDE DEF f, g
  <2> QED
    BY <1>6
<1> QED
  BY <1>1, <1>2, <1>6, <1>7 DEF Nesting, IsFrame, Outer

LEMMA HandlerNesting ==
  ASSUME Nesting, ReturnToHandler
  PROVE  /\ Nesting' /\ frames' # <<>> /\ Outer'.call = Outer.call
         /\ frames'[1].stage = "called"
<1> DEFINE g == frames[2]
<1>1. frames # <<>> /\ Len(frames) > 1 /\ frames' = Tail(frames)
  BY DEF ReturnToHandler, Iret
<1>2. Len(frames) = 2 /\ Outer = g
  BY <1>1, TopCall
<1>3. /\ frames = <<frames[1], g>> /\ IsFrame(g)
      /\ g.call.num = SYS_MMAP /\ g.stage = "called"
  <2>1. ASSUME NEW f, frames = <<f>> PROVE FALSE
    BY <1>2, <2>1
  <2> QED
    BY <1>1, <2>1 DEF Nesting
<1>4. frames' = <<g>>
  <2>1. ASSUME NEW e, NEW f PROVE Tail(<<e, f>>) = <<f>>
    OBVIOUS
  <2> QED
    BY <1>1, <1>3, <2>1
<1>5. frames' # <<>> /\ frames'[1] = g /\ Outer' = g
  BY <1>4 DEF Outer
<1> QED
  BY <1>2, <1>3, <1>4, <1>5 DEF Nesting, IsFrame

LEMMA MemoryCalls ==
  ASSUME CallsInv,
         MgetAsks \/ MgetAnswers \/ MmapCalls \/ MmapAnswers \/ ReturnToHandler
  PROVE  CallsInv'
<1>1. CASE MgetAnswers \/ MmapAnswers
  <2>1. /\ UNCHANGED <<at, got, told, made, pc>> /\ frames # <<>>
        /\ frames[1].call.num \in {SYS_MGET, SYS_MMAP}
        /\ frames[1].stage \in {"asked", "called"}
    BY <1>1 DEF MgetAnswers, MmapAnswers, MemoryArm, Serving, loading
  <2>2. CASE MgetAnswers
    BY <2>1, <2>2, ServedCalls DEF MgetAnswers
  <2>3. CASE MmapAnswers
    <3>1. word = result
      BY <2>1, <2>3 DEF CallsInv, Answers, MmapAnswers, MemoryArm, Serving
    <3>2. Served(result) /\ UNCHANGED <<word, result>>
      BY <2>3 DEF MmapAnswers, memory
    <3> QED
      BY <2>1, <3>1, <3>2, ServedCalls
  <2> QED
    BY <1>1, <2>2, <2>3
<1>2. CASE MgetAsks \/ MmapCalls \/ ReturnToHandler
  <2>1. /\ Nesting' /\ frames' # <<>> /\ Outer'.call = Outer.call
        /\ \/ frames'[1].stage = "new" /\ MmapCalls
           \/ frames'[1].stage = "called" /\ ReturnToHandler
           \/ frames'[1].stage = "asked" /\ frames'[1].call.num = SYS_MGET /\ MgetAsks
    BY <1>2, AsksNesting, MmapNesting, HandlerNesting
       DEF CallsInv, MgetAsks, MemoryArm, Serving
  <2>2. /\ frames # <<>> /\ UNCHANGED <<at, got, told, made, loading>>
        /\ frames[1].stage \in {"new", "done"}
    BY <1>2 DEF MgetAsks, MmapCalls, ReturnToHandler, MemoryArm, Serving, Iret
  <2>3. Callers'
    <3>1. UNCHANGED <<pc, Request>>
      BY <2>2 DEF loading, locals, Request, Phdr, TotalSize
    <3>2. HasAnswer' <=> ReturnToHandler
      BY <2>1 DEF HasAnswer, MgetAsks, MmapCalls, ReturnToHandler, MemoryArm, Serving, Iret
    <3>3. ~ ReturnToHandler => frames[1].stage = "new"
      BY <2>1 DEF MgetAsks, MmapCalls, MemoryArm, Serving
    <3>4. ~ HasAnswer' => ~ HasAnswer
      BY <3>2, <3>3 DEF HasAnswer
    <3>5. LoaderAsked => LoaderAsked'
      BY <2>1, <2>2, <3>1, <3>4 DEF LoaderAsked
    <3>6. AppCalls' = AppCalls
      BY DEF AppCalls
    <3> QED
      BY <2>1, <2>2, <3>1, <3>5, <3>6, ScriptStays DEF CallsInv, Callers
  <2>4. Answers'
    <3>1. CASE ReturnToHandler
      <4>1. /\ Iret /\ UNCHANGED <<word, result>> /\ Len(frames) > 1
        BY <3>1 DEF ReturnToHandler, memory
      <4>2. frames[1].stage = "done" /\ frames[1].call.num = SYS_MGET
        <5>1. frames[1].stage = "done" /\ frames # <<>> /\ Len(frames) # 1
          BY <4>1 DEF Iret
        <5> QED
          BY <5>1, TopCall DEF CallsInv
      <4>3. word = result
        BY <2>2, <4>2 DEF CallsInv, Answers
      <4> QED
        BY <2>1, <3>1, <4>1, <4>2, <4>3 DEF Answers, MgetAsks, MmapCalls, MemoryArm, Serving
    <3>2. CASE ~ ReturnToHandler
      BY <2>1, <3>2 DEF Answers
    <3> QED
      BY <3>1, <3>2
  <2> QED
    BY <2>1, <2>2, <2>3, <2>4 DEF CallsInv, KernelGetsItsAnswer
<1> QED
  BY <1>1, <1>2

LEMMA RankSteps ==
  /\ {"load", "loading", "app", "spin", "end"} \subseteq DOMAIN Rank
  /\ \A s \in DOMAIN Script : Afterwards[s] \in DOMAIN Rank
  /\ {"read", "mmap"} \subseteq DOMAIN Rank
  BY DEF Rank, Script, Afterwards

LEMMA RankOrder ==
  /\ \A s \in DOMAIN Rank : Rank[s] \in Nat
  /\ \A s \in DOMAIN Script : Rank[s] < Rank[Afterwards[s]]
  /\ Rank["mget"] = 1 /\ Rank["open"] = 2 /\ Rank["read"] = 3 /\ Rank["write"] = 4
  /\ Rank["lseek"] = 5 /\ Rank["seek"] = 6 /\ Rank["reread"] = 7 /\ Rank["close"] = 8
  /\ Rank["mmap"] = 9 /\ Rank["munmap"] = 10 /\ Rank["remap"] = 11
  /\ Rank["container"] = 12 /\ Rank["load"] = 13 /\ Rank["loading"] = 14
  /\ Rank["app"] = 15 /\ Rank["spin"] = 16 /\ Rank["end"] = 17
  BY DEF Rank, Script, Afterwards

LEMMA ReturnCalls ==
  ASSUME CallsInv, ReturnToKernel \/ ReturnToLoader \/ ReturnToApp
  PROVE  CallsInv'
<1>2. ASSUME Iret, Len(frames) = 1
      PROVE  frames' = <<>> /\ Outer = frames[1] /\ frames[1].stage = "done" /\ frames # <<>>
  <2>1. frames # <<>> /\ frames' = Tail(frames) /\ frames[1].stage = "done"
    BY <1>2 DEF Iret
  <2>2. Outer = frames[1]
    BY <1>2 DEF Outer
  <2>3. PICK f : frames = <<f>>
    <3>1. ASSUME NEW f, NEW g, frames = <<f, g>> PROVE FALSE
      BY <1>2, <3>1
    <3> QED
      BY <2>1, <3>1 DEF CallsInv, Nesting
  <2> QED
    BY <2>1, <2>2, <2>3
<1>3. CASE ReturnToKernel
  <2>1. /\ frames' = <<>> /\ Outer = frames[1] /\ frames[1].stage = "done" /\ frames # <<>>
        /\ at \in Steps /\ at' = Afterwards[at] /\ UNCHANGED made
        /\ told'.gave = frames[1].gave
        /\ told'.got = IF ByPointer THEN word ELSE SYSCALL_RET
        /\ UNCHANGED pc
    BY <1>2, <1>3 DEF ReturnToKernel, Told, Answer, loading
  <2>2. at \in DOMAIN Script /\ pc = "idle"
    BY <2>1, ScriptSteps DEF CallsInv, Callers
  <2>3. told'.got = told'.gave
    BY <2>1 DEF CallsInv, Answers, ByPointer
  <2>4. at' \in DOMAIN Rank
    BY <2>1, <2>2, RankSteps
  <2> QED
    BY <2>1, <2>2, <2>3, <2>4 DEF CallsInv, Nesting, Callers, Answers, KernelGetsItsAnswer
<1>4. CASE ReturnToApp
  <2>1. /\ frames' = <<>> /\ at' \in {"spin", "app"} /\ at = "app"
        /\ UNCHANGED <<made, pc>> /\ told'.by = "app"
    BY <1>2, <1>4 DEF ReturnToApp, Told, loading
  <2> QED
    BY <2>1, RankSteps DEF CallsInv, Nesting, Callers, Answers, KernelGetsItsAnswer
<1>5. CASE ReturnToLoader
  <2>1. /\ frames' = <<>> /\ frames[1].stage = "done" /\ frames # <<>>
        /\ at = "loading" /\ UNCHANGED <<at, made>>
        /\ told'.gave = frames[1].gave
        /\ told'.got = IF ByPointer THEN word ELSE SYSCALL_RET
    BY <1>2, <1>5 DEF ReturnToLoader, Told, Answer
  <2>2. told'.got = told'.gave
    BY <2>1 DEF CallsInv, Answers, ByPointer
  <2> QED
    BY <2>1, <2>2 DEF CallsInv, Nesting, Callers, Answers, KernelGetsItsAnswer
<1> QED
  BY <1>3, <1>4, <1>5

LEMMA LoaderStubs ==
  ASSUME pc \in Requesting
  PROVE  pc \in DOMAIN Stubs /\ Request.num = Stubs[pc] /\ pc # "fault"
  BY DEF Requesting, Onward, Stubs, Request, Call, CallInto

LEMMA NewCalls ==
  ASSUME CallsInv, BootCalls \/ LoaderCalls \/ AppMakesCall
  PROVE  CallsInv'
<1>1. PICK call : /\ Int80(call)
                  /\ \/ BootCalls /\ call = Script[at]
                     \/ LoaderCalls /\ call = Request
                     \/ AppMakesCall /\ call \in AppCalls
  <2>1. CASE BootCalls
    BY <2>1 DEF BootCalls
  <2>2. CASE AppMakesCall
    <3>1. PICK call \in AppCalls : Int80(call)
      BY <2>2 DEF AppMakesCall
    <3> QED
      BY <2>2, <3>1
  <2>3. CASE LoaderCalls
    BY <2>3 DEF LoaderCalls
  <2> QED
    BY <2>1, <2>2, <2>3
<1> DEFINE f == [call |-> call, stage |-> "new", gave |-> 0]
<1>2. frames = <<>> /\ UNCHANGED <<at, got, told, loading>>
  BY DEF BootCalls, LoaderCalls, AppMakesCall
<1>3. frames' = <<f>>
  <2> HIDE DEF f
  <2> QED
    BY <1>1, <1>2 DEF Int80, f
<1>4. frames'[1] = f /\ Outer' = f /\ frames' # <<>>
  BY <1>3 DEF Outer
<1>5. Nesting'
  BY <1>3, <1>4 DEF Nesting, IsFrame
<1>6. Callers'
  <2> HIDE DEF f
  <2>0. UNCHANGED <<pc, Request>>
    BY <1>2 DEF loading, locals, Request, Phdr, TotalSize
  <2>1. CASE BootCalls /\ call = Script[at]
    BY <2>0, <2>1, <1>1, <1>2, <1>4, ScriptStays DEF CallsInv, Callers, BootCalls, f
  <2>2. CASE AppMakesCall /\ call \in AppCalls
    <3>1. AppCalls' = AppCalls
      BY DEF AppCalls
    <3> QED
      BY <2>0, <2>2, <3>1, <1>1, <1>4, <1>2 DEF CallsInv, Callers, AppMakesCall, f
  <2>3. CASE LoaderCalls /\ call = Request
    <3>1. at = "loading" /\ pc \in Requesting /\ UNCHANGED made
      BY <2>3 DEF LoaderCalls
    <3>2. pc \in DOMAIN Stubs /\ Request.num = Stubs[pc] /\ pc # "fault"
      BY <3>1, LoaderStubs
    <3>3. Outer'.call = Request
      BY <1>4, <2>3 DEF f
    <3>4. LoaderAsked'
      BY <2>0, <3>2, <3>3 DEF LoaderAsked
    <3> QED
      BY <1>2, <3>1, <3>4 DEF CallsInv, Callers
  <2> QED
    BY <1>1, <2>1, <2>2, <2>3
<1>7. Answers'
  BY <1>4 DEF Answers
<1> QED
  BY <1>2, <1>5, <1>6, <1>7 DEF CallsInv, KernelGetsItsAnswer

(* load_elf's own steps are taken while no call of its is served.          *)
LEMMA NotAsking ==
  ASSUME CallsInv, at = "loading", pc = "idle" \/ Step
  PROVE  frames = <<>>
<1>1. pc \in {"idle", "measure", "zero", "segment"}
  BY DEF Step, Measure, ZeroImage, SkipSegment, CopySegment, AllCopied
<1>2. pc \notin DOMAIN Stubs /\ pc # "fault"
  BY <1>1 DEF Stubs
<1> QED
  BY <1>2, ScriptSteps DEF CallsInv, Callers, LoaderAsked

LEMMA CallsStep == CallsInv /\ [CallsNext]_allVars => CallsInv'
<1> SUFFICES ASSUME CallsInv, [CallsNext]_allVars PROVE CallsInv'
  OBVIOUS
<1>1. CASE Handler
  BY <1>1, AnsweredCalls, ReadCalls, DrawingCalls, MemoryCalls, ReturnCalls DEF Handler
<1>2. CASE BootCalls \/ LoaderCalls \/ AppMakesCall
  BY <1>2, NewCalls
<1>3. CASE OpenTest \/ CallLoadElf \/ LoadReturns \/ AppReturns
  <2>1. /\ UNCHANGED <<frames, word, SYSCALL_RET, told, made>>
        /\ at \in {"open", "load"} \/ (at = "loading" /\ pc = "idle") \/ frames = <<>>
        /\ at' \in {"read", "mmap", "loading", "end", "app"}
        /\ at' = "loading" \/ pc' = pc
        /\ at = "loading" => pc = "idle"
    BY <1>3 DEF OpenTest, CallLoadElf, LoadReturns, AppReturns, loading
  <2>2. frames = <<>> /\ (at' # "loading" => pc' = "idle")
    BY <2>1, ScriptSteps, NotAsking DEF CallsInv, Callers
  <2> QED
    BY <2>1, <2>2, RankSteps DEF CallsInv, Nesting, Callers, Answers, KernelGetsItsAnswer
<1>4. CASE Loading
  <2>1. UNCHANGED <<at, frames, word, told, made>> /\ frames = <<>> /\ at = "loading"
    BY <1>4, NotAsking DEF Loading, calling
  <2> QED
    BY <2>1 DEF CallsInv, Nesting, Callers, Answers, KernelGetsItsAnswer
<1>5. CASE UNCHANGED allVars
  <2>1. /\ UNCHANGED <<at, frames, word, SYSCALL_RET, got, told, made, result, pc>>
        /\ UNCHANGED loading
    BY <1>5 DEF calling, allVars, memory, loading
  <2>2. AppCalls' = AppCalls /\ Outer' = Outer /\ UNCHANGED Request
        /\ HasAnswer' = HasAnswer
    BY <2>1 DEF AppCalls, Outer, loading, locals, Request, Phdr, TotalSize, HasAnswer
  <2> QED
    BY <2>1, <2>2, ScriptStays
       DEF CallsInv, Nesting, Callers, LoaderAsked, Answers, KernelGetsItsAnswer, IsFrame
<1> QED
  BY <1>1, <1>2, <1>3, <1>4, <1>5 DEF CallsNext, Boot

LEMMA CallsInvariant == CallsSpec => []CallsInv
<1>1. CallsInit => CallsInv
  BY DEF CallsInit, LoaderInit, CallsInv, Nesting, Callers, Answers, KernelGetsItsAnswer, Rank
<1> QED
  BY <1>1, CallsStep, PTL DEF CallsSpec

(* Through calls within calls, answers by pointer and answers in a global  *)
(* variable: between the handler's answer and the stub that reads it       *)
(* nothing else writes there.                                              *)
THEOREM StubsGetTheirAnswers == CallsSpec => []KernelGetsItsAnswer
<1>1. CallsInv => KernelGetsItsAnswer
  BY DEF CallsInv
<1> QED
  BY <1>1, CallsInvariant, PTL

-----------------------------------------------------------------------------
(* A read for standard_boot or an application: its buffer is a local.      *)
PlainRead ==
  FileArm(SYS_READ_FILE, IF IsOpen /\ Arg > 0 THEN Disk!Read(Fd, Arg) ELSE Disk!Refuse,
          reply'.ret)

LEMMA ReadsApart ==
  ASSUME CallsInv, at # "loading", ReadArm
  PROVE  PlainRead
<1>1. To = {} /\ pc = "idle"
  BY WhoReadsInto DEF ReadArm, Serving
<1>2. UNCHANGED <<mem, pc, loaded>>
  BY <1>1 DEF ReadArm, Then
<1> QED
  BY <1>1, <1>2 DEF ReadArm, PlainRead, FileArm, Answered, loading

(* Memory.                                                                 *)
LEMMA Beyond ==
  /\ Cardinality(Sectors) \in Nat
  /\ Sectors = 0 .. (Cardinality(Sectors) - 1)
  /\ Nowhere \in Nat /\ Nowhere \notin Sectors /\ Nowhere >= Cardinality(Sectors)
  /\ \A t \in Sectors : t < Nowhere
<1>1. Cardinality(Sectors) \in Nat
  BY MemoryAssumption, FS_CardinalityType
<1> QED
  BY <1>1, MemoryAssumption

(* A request takes the lowest run that fits.                               *)
LEMMA AllocateRuns ==
  ASSUME RunsApart, NEW k \in Nat, Ram!Allocate(k)
  PROVE  /\ RunsApart' /\ held \subseteq held' /\ free' \subseteq free
         /\ result' \in Sectors \cup {Nowhere}
         /\ held' = held \cup (IF result' = Nowhere THEN {} ELSE {Ram!Region(result', k)})
         /\ result' # Nowhere => k > 0 /\ Ram!Span(result', k) \subseteq free
         /\ k = 1 => Lowest(result')
         /\ \A m \in Sectors \cap free : k = 1 => result' # Nowhere /\ result' <= m
<1>1. ASSUME NEW s \in Sectors, Ram!Fits(s, k), \A t \in Sectors : t < s => ~ Ram!Fits(t, k),
             Ram!Take(s, k)
      PROVE  /\ RunsApart' /\ held \subseteq held' /\ free' \subseteq free
             /\ result' = s /\ s # Nowhere
             /\ held' = held \cup {Ram!Region(s, k)}
             /\ k > 0 /\ Ram!Span(s, k) \subseteq free
             /\ k = 1 => Lowest(s) /\ \A m \in Sectors \cap free : s <= m
  <2>1. /\ k > 0 /\ Ram!Span(s, k) \subseteq free /\ s # Nowhere /\ result' = s
        /\ free' = free \ Ram!Span(s, k) /\ held' = held \cup {Ram!Region(s, k)}
    BY <1>1, Beyond DEF Ram!Fits, Ram!Take, Ram!Given
  <2>2. RunsApart'
    BY <2>1 DEF RunsApart, Ram!Region
  <2>3. k = 1 => \A t \in Sectors : t \in free => Ram!Fits(t, k)
    BY Beyond DEF Ram!Fits, Ram!Span
  <2>4. k = 1 => Lowest(s) /\ \A m \in Sectors \cap free : s <= m
    BY <1>1, <2>3, Beyond DEF Lowest
  <2> QED
    BY <2>1, <2>2, <2>4
<1>2. ASSUME \A s \in Sectors : ~ Ram!Fits(s, k), Ram!Refuse
      PROVE  /\ UNCHANGED <<free, held>> /\ result' = Nowhere
             /\ k = 1 => \A t \in Sectors : t \notin free
  BY <1>2, Beyond DEF Ram!Refuse, Ram!Fits, Ram!Span
<1>3. CASE \E s \in Sectors : /\ Ram!Fits(s, k)
                              /\ \A t \in Sectors : t < s => ~ Ram!Fits(t, k)
                              /\ Ram!Take(s, k)
  BY <1>1, <1>3
<1>4. CASE (\A s \in Sectors : ~ Ram!Fits(s, k)) /\ Ram!Refuse
  BY <1>2, <1>4 DEF RunsApart, Lowest
<1> QED
  BY <1>3, <1>4 DEF Ram!Allocate

LEMMA ReleaseRuns ==
  ASSUME RunsApart, NEW r \in held, Ram!Release(r)
  PROVE  /\ RunsApart' /\ held' = held \ {r}
         /\ free' = free \cup Ram!Span(r.start, r.pages)
<1>1. /\ held' = held \ {r} /\ free' = free \cup Ram!Span(r.start, r.pages)
  BY DEF Ram!Release
<1>2. ASSUME NEW q \in held'
      PROVE  Ram!Span(q.start, q.pages) \subseteq Sectors \ free'
  BY <1>1, <1>2 DEF RunsApart
<1>3. free' \subseteq Sectors
  BY <1>1 DEF RunsApart
<1> QED
  BY <1>1, <1>2, <1>3 DEF RunsApart

(* The runs standard_boot has, one for each answer it keeps.               *)
Size(s) == IF s = "container" THEN ContainerPages ELSE 1

Has(s) ==
  /\ got[s] # NoAnswer /\ got[s].ret # Nowhere
  /\ ~ (s = "mmap" /\ got["munmap"] # NoAnswer)

LEMMA InBootHas ==
  \A r : r \in BootHas <=>
          \E s \in MemorySteps : Has(s) /\ r = Ram!Region(got[s].ret, Size(s))
  BY DEF BootHas, Has, MemorySteps, Size

LEMMA ScriptSizes ==
  /\ \A s \in MemorySteps : Script[s].arg = Size(s) /\ Size(s) \in Nat \ {0}
  /\ Script["munmap"].arg = Ram!Region(got["mmap"].ret, 1)
  BY CallsAssumption DEF Script, MemorySteps, Size, Call

(* Steps to which standard_boot's requests for memory are no matter.       *)
LEMMA SameMemory ==
  ASSUME MemoryInv, UNCHANGED <<free, held, got, at>>,
         at \in MemorySteps \cup {"munmap"} =>
           /\ HasAnswer' <=> HasAnswer
           /\ HasAnswer /\ at \in MemorySteps => UNCHANGED word
           /\ HasAnswer /\ at = "munmap" => UNCHANGED SYSCALL_RET
  PROVE  MemoryInv'
<1>1. RunsApart'
  BY DEF MemoryInv, RunsApart
<1>2. Taken'
  BY DEF MemoryInv, Taken
<1>3. BootHas' = BootHas /\ Script' = Script
  BY ScriptStays DEF BootHas
<1>4. New' = New /\ Old' = Old
  BY <1>3 DEF New, Old
<1>5. BootHolds'
  BY <1>3, <1>4 DEF MemoryInv, BootHolds
<1>6. MapAgain'
  BY DEF MemoryInv, MapAgain, Lowest, MemorySteps
<1> QED
  BY <1>1, <1>2, <1>5, <1>6 DEF MemoryInv

(* Which arm serves which step of standard_boot.                           *)
LEMMA ServesStep ==
  ASSUME at # "loading", CallsInv, frames # <<>>
  PROVE  LET num == frames[1].call.num
         IN  /\ num \notin {SYS_MGET, SYS_MMAP} => at \notin MemorySteps
             /\ num # SYS_MUNMAP => at # "munmap"
             /\ num = SYS_MUNMAP => at = "munmap" /\ frames[1].call = Script[at]
             /\ num \in {SYS_MGET, SYS_MMAP} => at \in MemorySteps \cup {"app"}
             /\ num \in {SYS_MGET, SYS_MMAP} /\ at \in MemorySteps =>
                  frames[1].call.arg = Script[at].arg
<1>1. ASSUME at = "app"
      PROVE  Outer.call.num # SYS_MUNMAP /\ at \notin DOMAIN Script
  <2>1. \A call \in AppCalls : call.num # SYS_MUNMAP
    BY Numbers DEF AppCalls, Call
  <2> QED
    BY <1>1, <2>1, ScriptSteps DEF CallsInv, Callers
<1>2. CASE Outer = frames[1]
  <2>1. CASE at \in DOMAIN Script /\ Outer.call = Script[at]
    BY <1>2, <2>1, ScriptNumbers, Numbers
  <2>2. CASE at = "app"
    BY <1>1, <1>2, <2>2 DEF MemorySteps
  <2> QED
    BY <2>1, <2>2 DEF CallsInv, Callers
<1>3. CASE /\ frames[1].call = Call(SYS_MGET, 0, Outer.call.arg)
           /\ frames[1].call.num = SYS_MGET
           /\ Outer.call.num = SYS_MMAP
  <2>1. frames[1].call.arg = Outer.call.arg
    BY <1>3 DEF Call
  <2> QED
    BY <1>1, <1>3, <2>1, ScriptSteps, ScriptCalls, ScriptNumbers, Numbers
       DEF CallsInv, Callers, MemorySteps
<1> QED
  BY <1>2, <1>3, TopCall DEF CallsInv

(* The arms of the handler that leave memory alone.                        *)
LEMMA ArmsKeepMemory ==
  ASSUME at # "loading", CallsInv, MemoryInv,
         AnswersInRax \/ AnswersNull \/ OpenArm \/ CloseArm \/ LseekArm \/ SeekArm
           \/ FstatArm \/ PlainRead \/ WriteArm
  PROVE  MemoryInv'
<1>1. /\ frames # <<>> /\ frames[1].call.num \notin {SYS_MGET, SYS_MMAP, SYS_MUNMAP}
      /\ UNCHANGED <<free, held, got, at>>
  BY Numbers, SMTT(30)
  DEF AnswersInRax, AnswersNull, OpenArm, CloseArm, LseekArm, SeekArm, FstatArm, PlainRead,
     WriteArm, FileArm, Answered, Serving, memory
<1>2. at \notin MemorySteps \cup {"munmap"}
  BY <1>1, ServesStep
<1> QED
  BY <1>1, <1>2, SameMemory

LEMMA RequestsKeepMemory ==
  ASSUME at # "loading", CallsInv, MemoryInv, MgetAsks \/ MmapCalls \/ MmapAnswers \/ ReturnToHandler
  PROVE  MemoryInv'
<1>1. /\ frames # <<>> /\ Nesting /\ UNCHANGED <<free, held, got, at>>
      /\ frames[1].call.num \in {SYS_MGET, SYS_MMAP} => at # "munmap"
  BY ServesStep, Numbers, SMTT(30)
     DEF MgetAsks, MmapCalls, MmapAnswers, ReturnToHandler, Iret, MemoryArm, Serving,
     memory, Ram!Ask, CallsInv
<1>2. CASE MgetAsks \/ MmapCalls
  <2>1. frames[1].stage = "new"
    BY <1>2 DEF MgetAsks, MmapCalls, MemoryArm, Serving
  <2>2. frames'[1].stage \in {"asked", "new"}
    BY <1>1, <1>2, AsksNesting, MmapNesting
  <2>3. ~ HasAnswer /\ ~ HasAnswer'
    BY <2>1, <2>2 DEF HasAnswer
  <2> QED
    BY <1>1, <2>3, SameMemory
<1>3. CASE MmapAnswers
  <2>1. /\ frames[1].stage = "called" /\ UNCHANGED word /\ Served(result)
        /\ frames[1].call.num = SYS_MMAP
    BY <1>3 DEF MmapAnswers, MemoryArm, Serving
  <2>2. frames'[1].stage = "done" /\ frames' # <<>>
    BY <1>1, <2>1, ServedDone
  <2>3. HasAnswer /\ HasAnswer'
    BY <1>1, <2>1, <2>2 DEF HasAnswer
  <2> QED
    BY <1>1, <2>1, <2>3, SameMemory
<1>4. CASE ReturnToHandler
  <2>1. /\ frames[1].stage = "done" /\ UNCHANGED <<word, SYSCALL_RET>>
    BY <1>4 DEF ReturnToHandler, Iret
  <2>2. frames'[1].stage = "called" /\ frames' # <<>>
    BY <1>1, <1>4, HandlerNesting
  <2>3. HasAnswer /\ HasAnswer'
    BY <1>1, <2>1, <2>2 DEF HasAnswer
  <2> QED
    BY <1>1, <2>1, <2>3, SameMemory
<1> QED
  BY <1>2, <1>3, <1>4

LEMMA MgetMemory ==
  ASSUME at # "loading", CallsInv, MemoryInv, MgetAnswers
  PROVE  MemoryInv'
<1> DEFINE k == frames[1].call.arg
<1>1. /\ frames # <<>> /\ frames[1].call.num = SYS_MGET /\ frames[1].stage = "asked"
      /\ UNCHANGED <<at, got, made>> /\ Ram!Allocate(k) /\ word' = result'
      /\ Served(result')
  BY DEF MgetAnswers, MemoryArm, Serving, Arg
<1>2. /\ at \in MemorySteps \cup {"app"} /\ at # "munmap"
      /\ at \in MemorySteps => k = Size(at) /\ k = Script[at].arg
  BY <1>1, ServesStep, ScriptSizes DEF MemorySteps
<1>3. k \in Nat
  <2>1. ASSUME at = "app" PROVE k \in Nat
    <3>1. \A call \in AppCalls : call.num \in {SYS_MGET, SYS_MMAP} => call.arg \in Nat
      BY Numbers DEF AppCalls, Call
    <3>2. Outer.call \in AppCalls
      BY <1>1, <2>1, ScriptSteps DEF CallsInv, Callers
    <3>3. Outer.call.num \in {SYS_MGET, SYS_MMAP} /\ k = Outer.call.arg
      BY <1>1, TopCall DEF CallsInv, Call
    <3> QED
      BY <3>1, <3>2, <3>3
  <2> QED
    BY <1>2, <2>1, ScriptSizes
<1> HIDE DEF k
<1>4. ~ HasAnswer /\ HasAnswer'
  BY <1>1, ServedDone DEF HasAnswer, CallsInv
<1>5. /\ RunsApart' /\ held \subseteq held' /\ free' \subseteq free
      /\ word' \in Sectors \cup {Nowhere}
      /\ held' = held \cup (IF word' = Nowhere THEN {} ELSE {Ram!Region(word', k)})
      /\ word' # Nowhere => k > 0 /\ Ram!Span(word', k) \subseteq free
      /\ k = 1 => Lowest(word')
      /\ \A m \in Sectors \cap free : k = 1 => word' # Nowhere /\ word' <= m
  BY <1>1, <1>3, AllocateRuns DEF MemoryInv
<1>6. Taken' /\ BootHas' = BootHas /\ Script' = Script
  BY <1>1, ScriptStays DEF MemoryInv, Taken, BootHas
<1>7. BootHolds'
  <2>1. New = {} /\ Old = {} /\ Old' = {}
    BY <1>1, <1>2, <1>4 DEF New, Old
  <2>2. at \in Booting => held = BootHas
    BY <2>1 DEF MemoryInv, BootHolds
  <2>3. at \in MemorySteps =>
          New' = IF word' = Nowhere THEN {} ELSE {Ram!Region(word', k)}
    BY <1>1, <1>2, <1>4, <1>6 DEF New
  <2>4. at \in Booting => at \in MemorySteps
    BY <1>2, ScriptSteps DEF Booting
  <2>5. BootHas \subseteq held
    BY <2>1 DEF MemoryInv, BootHolds
  <2> QED
    BY <1>1, <1>2, <1>5, <1>6, <2>1, <2>2, <2>3, <2>4, <2>5 DEF BootHolds
<1>8. MapAgain'
  <2>1. CASE at = "mmap"
    <3>1. ASSUME word' # Nowhere, word' = got["mget"].ret PROVE FALSE
      <4>1. word' \in free /\ word' \in Sectors /\ word' \in Nat
        BY <1>2, <1>5, <2>1, <3>1, Beyond DEF Ram!Span, Size, MemorySteps
      <4>2. got["mget"] # NoAnswer /\ Has("mget")
        BY <3>1, <4>1, Beyond DEF NoAnswer, Has
      <4>3. Ram!Region(word', 1) \in BootHas
        BY <3>1, <4>2, InBootHas DEF MemorySteps, Size
      <4>4. Ram!Region(word', 1) \in held
        BY <4>3, <2>1 DEF MemoryInv, BootHolds, Old
      <4>5. \A s \in Nat : s \in Ram!Span(s, 1)
        BY DEF Ram!Span
      <4> QED
        BY <4>1, <4>4, <4>5 DEF MemoryInv, RunsApart, Ram!Region
    <3>2. Lowest(word)'
      BY <1>2, <1>5, <2>1 DEF Lowest, Size, MemorySteps
    <3>3. got["remap"] = NoAnswer
      BY <2>1, RankOrder, ScriptSteps DEF MemoryInv, Taken, MemorySteps
    <3> QED
      BY <1>1, <2>1, <3>1, <3>2, <3>3 DEF MapAgain
  <2>2. CASE at = "remap"
    <3> DEFINE m == got["mmap"].ret
    <3>1. /\ m \in free \cup {Nowhere} /\ Lowest(m) /\ got["mmap"] # NoAnswer
          /\ got["remap"] # NoAnswer => got["remap"] = got["mmap"]
      BY <1>4, <2>2 DEF MemoryInv, MapAgain
    <3>2. word' = m
      <4>1. k = 1
        BY <1>2, <2>2 DEF Size, MemorySteps
      <4>2. word' \in Sectors => word' \in free
        BY <1>5, <4>1, Beyond DEF Ram!Span
      <4>3. CASE m = Nowhere
        BY <3>1, <4>2, <4>3, <1>5, Beyond DEF Lowest
      <4>4. CASE m \in free
        <5>1. m \in Sectors
          BY <4>4 DEF MemoryInv, RunsApart
        <5>2. word' # Nowhere /\ word' <= m
          BY <1>5, <4>1, <4>4, <5>1
        <5>3. ~ (word' < m)
          BY <3>1, <4>2, <5>2, <1>5 DEF Lowest
        <5> QED
          BY <5>1, <5>2, <5>3, <1>5, Beyond
      <4> QED
        BY <3>1, <4>3, <4>4
    <3> QED
      BY <1>1, <1>4, <2>2, <3>1, <3>2 DEF MapAgain
  <2>3. CASE at \notin {"mmap", "remap"}
    BY <1>1, <1>2, <2>3 DEF MemoryInv, MapAgain
  <2> QED
    BY <2>1, <2>2, <2>3
<1> QED
  BY <1>5, <1>6, <1>7, <1>8 DEF MemoryInv

LEMMA MunmapMemory ==
  ASSUME at # "loading", CallsInv, MemoryInv, MunmapArm
  PROVE  MemoryInv'
<1> DEFINE m == got["mmap"].ret
           r == Ram!Region(m, 1)
<1>1. /\ frames # <<>> /\ frames[1].call.num = SYS_MUNMAP /\ frames[1].stage = "new"
      /\ UNCHANGED <<at, got, made>> /\ Served(0) /\ SYSCALL_RET' = 0
      /\ IF frames[1].call.arg \in held THEN Ram!Release(frames[1].call.arg)
         ELSE UNCHANGED memory
  BY DEF MunmapArm, MemoryArm, Serving, Arg
<1>2. at = "munmap" /\ frames[1].call.arg = r
  BY <1>1, ServesStep, ScriptSizes
<1>3. ~ HasAnswer /\ HasAnswer'
  BY <1>1, ServedDone DEF HasAnswer, CallsInv
<1>4. /\ New = {} /\ Old = {} /\ New' = {} /\ Old' = {r} /\ BootHas' = BootHas
      /\ held = BootHas
  BY <1>1, <1>2, <1>3, ScriptStays, ScriptSizes, ScriptSteps
     DEF New, Old, BootHas, MemorySteps, MemoryInv, BootHolds, Booting
<1>5. /\ RunsApart' /\ held' = held \ {r}
      /\ IF r \in held THEN free' = free \cup Ram!Span(r.start, r.pages)
         ELSE UNCHANGED free
  <2>1. CASE r \in held
    BY <1>1, <1>2, <2>1, ReleaseRuns DEF MemoryInv
  <2>2. CASE r \notin held
    BY <1>1, <1>2, <2>2 DEF MemoryInv, RunsApart, memory
  <2> QED
    BY <2>1, <2>2
<1>6. BootHolds'
  BY <1>1, <1>2, <1>4, <1>5 DEF BootHolds, MemorySteps
<1>7. Taken'
  BY <1>1 DEF MemoryInv, Taken
<1>8. MapAgain'
  <2>1. /\ got["mmap"] # NoAnswer /\ Lowest(m) /\ (m # Nowhere => m # got["mget"].ret)
        /\ got["remap"] # NoAnswer => got["remap"] = got["mmap"]
    BY <1>2 DEF MemoryInv, MapAgain
  <2>2. m \in Sectors \cup {Nowhere}
    BY <2>1 DEF MemoryInv, Taken, MemorySteps
  <2>3. ASSUME m # Nowhere PROVE free' = free \cup {m}
    <3>1. got["munmap"] = NoAnswer
      BY <1>2, RankOrder, ScriptSteps DEF MemoryInv, Taken
    <3>2. Has("mmap")
      BY <2>1, <2>3, <3>1 DEF Has
    <3>3. r \in held
      BY <1>4, <3>2, InBootHas DEF MemorySteps, Size
    <3>4. Ram!Span(r.start, r.pages) = {m}
      BY <2>2, <2>3, Beyond DEF Ram!Span, Ram!Region
    <3> QED
      BY <1>5, <3>3, <3>4
  <2>4. m = Nowhere => UNCHANGED free
    <3>1. ASSUME m = Nowhere PROVE r \notin held
      <4>1. r.start = Nowhere
        BY <3>1 DEF Ram!Region
      <4> QED
        BY <4>1, Beyond DEF MemoryInv, RunsApart
    <3> QED
      BY <1>5, <3>1
  <2>5. m \in free' \cup {Nowhere}
    BY <2>3
  <2>6. \A t \in Sectors : t < m => t \notin free'
    BY <2>1, <2>2, <2>3, <2>4, Beyond DEF Lowest
  <2> QED
    BY <1>1, <1>2, <1>3, <2>1, <2>5, <2>6 DEF MapAgain, Lowest
<1> QED
  BY <1>5, <1>6, <1>7, <1>8 DEF MemoryInv

LEMMA KernelReturns ==
  ASSUME CallsInv, MemoryInv, ReturnToKernel
  PROVE  /\ at \in DOMAIN Script /\ at' = Afterwards[at] /\ Rank[at] < Rank[at']
         /\ HasAnswer /\ ~ HasAnswer' /\ UNCHANGED <<free, held>>
         /\ DOMAIN got' = Steps
         /\ \A s \in Steps \ {at} : got'[s] = got[s]
         /\ at \in MemorySteps => got'[at] = [ret |-> word, bytes |-> <<>>]
         /\ at = "munmap" => got'[at].ret = SYSCALL_RET
         /\ frames' = <<>>
<1>1. /\ frames # <<>> /\ Len(frames) = 1 /\ frames[1].stage = "done" /\ at \in Steps
      /\ at' = Afterwards[at] /\ UNCHANGED <<store, memory>> /\ frames' = Tail(frames)
      /\ got' = [got EXCEPT ![at] =
                   [ret |-> IF ByPointer THEN word ELSE SYSCALL_RET,
                    bytes |-> IF frames[1].call.num = SYS_READ_FILE THEN reply.bytes
                              ELSE <<>>]]
  BY DEF ReturnToKernel, Iret, Answer
<1>2. frames' = <<>>
  <2>1. PICK f : frames = <<f>>
    <3>1. ASSUME NEW f, NEW g, frames = <<f, g>> PROVE FALSE
      BY <1>1, <3>1
    <3> QED
      BY <1>1, <3>1 DEF CallsInv, Nesting
  <2> QED
    BY <1>1, <2>1
<1>3. at \in DOMAIN Script /\ frames[1].call = Script[at]
  BY <1>1, ScriptSteps DEF CallsInv, Callers, Outer
<1>4. /\ ByPointer <=> at \in MemorySteps
      /\ at \in MemorySteps => frames[1].call.num # SYS_READ_FILE
  BY <1>3, ScriptNumbers, Numbers DEF ByPointer
<1> QED
  BY <1>1, <1>2, <1>3, <1>4, RankOrder
     DEF HasAnswer, MemoryInv, Taken, MemorySteps, memory

(* An answer standard_boot has kept came before the step it is at.         *)
LEMMA NotYet ==
  ASSUME MemoryInv, NEW s \in Steps, ~ (Rank[s] < Rank[at])
  PROVE  got[s] = NoAnswer
  BY DEF MemoryInv, Taken

LEMMA KernelReturnsMemory ==
  ASSUME CallsInv, MemoryInv, ReturnToKernel
  PROVE  MemoryInv'
<1> DEFINE m == got["mmap"].ret
           r == Ram!Region(m, 1)
<1>1. /\ at \in DOMAIN Script /\ at' = Afterwards[at] /\ Rank[at] < Rank[at']
      /\ HasAnswer /\ ~ HasAnswer' /\ UNCHANGED <<free, held>>
      /\ DOMAIN got' = Steps
      /\ \A s \in Steps \ {at} : got'[s] = got[s]
      /\ at \in MemorySteps => got'[at] = [ret |-> word, bytes |-> <<>>]
      /\ at = "munmap" => got'[at].ret = SYSCALL_RET
  BY KernelReturns
<1>2. RunsApart'
  BY <1>1 DEF MemoryInv, RunsApart
<1>3. /\ at \in Steps /\ at' \in DOMAIN Rank
      /\ at \in MemorySteps => word \in Sectors \cup {Nowhere}
  BY <1>1, ScriptSteps, RankSteps DEF MemoryInv, BootHolds
<1>4. Taken'
  <2>1. ASSUME NEW s \in Steps, got'[s] # NoAnswer PROVE Rank[s] < Rank[at']
    <3>1. CASE s = at
      BY <1>1, <3>1
    <3>2. CASE s # at
      <4>1. Rank[s] < Rank[at]
        BY <1>1, <2>1, <3>2 DEF MemoryInv, Taken
      <4> QED
        BY <1>1, <1>3, <4>1, RankOrder, ScriptSteps, SMTT(30)
    <3> QED
      BY <3>1, <3>2
  <2>2. ASSUME NEW s \in MemorySteps, got'[s] # NoAnswer
        PROVE  /\ got'[s] = [ret |-> got'[s].ret, bytes |-> <<>>]
               /\ got'[s].ret \in Sectors \cup {Nowhere}
    <3>1. CASE s = at
      BY <1>1, <1>3, <2>2, <3>1
    <3>2. CASE s # at
      BY <1>1, <2>2, <3>2, ScriptSteps DEF MemoryInv, Taken
    <3> QED
      BY <3>1, <3>2
  <2> QED
    BY <1>1, <2>1, <2>2 DEF Taken
<1>5. New' = {} /\ Old' = {} /\ at \in Booting
  BY <1>1, <1>3 DEF New, Old, Booting
<1>6. BootHas' = (BootHas \cup New) \ Old
  <2>1. \A x : x \in BootHas' <=>
          \E s \in MemorySteps : Has(s)' /\ x = Ram!Region(got'[s].ret, Size(s))
    BY DEF BootHas, Has, MemorySteps, Size
  <2>2. \A s \in MemorySteps \ {at, "mmap"} :
          (Has(s)' <=> Has(s)) /\ got'[s] = got[s]
    BY <1>1, ScriptSteps DEF Has
  <2>3. CASE at \in MemorySteps
    <3>1. New = (IF word = Nowhere THEN {} ELSE {Ram!Region(word, Size(at))}) /\ Old = {}
      BY <1>1, <2>3, ScriptSizes DEF New, Old, MemorySteps
    <3>2. got[at] = NoAnswer /\ ~ Has(at)
      BY <1>3, NotYet, RankOrder, ScriptSteps DEF Has
    <3>3. got'["munmap"] = got["munmap"]
      BY <1>1, <2>3, ScriptSteps DEF MemorySteps
    <3>4. \A s \in MemorySteps : s = at =>
            (Has(s)' <=> word # Nowhere) /\ got'[s].ret = word
      <4>1. got'[at] # NoAnswer /\ got'[at].ret = word
        BY <1>1, <1>3, <2>3, Beyond DEF NoAnswer
      <4>2. at = "mmap" => got["munmap"] = NoAnswer
        BY NotYet, RankOrder, ScriptSteps
      <4> QED
        BY <3>3, <4>1, <4>2 DEF Has
    <3>5. \A s \in MemorySteps \ {at} : (Has(s)' <=> Has(s)) /\ got'[s] = got[s]
      BY <1>1, <3>3, ScriptSteps DEF Has
    <3> QED
      BY <1>1, <2>1, <2>3, <3>1, <3>2, <3>4, <3>5, InBootHas
  <2>4. CASE at = "munmap"
    <3>1. New = {} /\ Old = {r}
      BY <1>1, <2>4, ScriptSizes DEF New, Old, MemorySteps
    <3>2. ~ Has("mmap")'
      <4>1. got'["munmap"] # NoAnswer
        BY <1>1, <2>4 DEF MemoryInv, BootHolds, NoAnswer
      <4> QED
        BY <4>1 DEF Has
    <3>3. /\ Has("mmap") <=> m # Nowhere
          /\ m # Nowhere => m # got["mget"].ret
      <4>1. got["munmap"] = NoAnswer
        BY <1>3, <2>4, NotYet, RankOrder
      <4> QED
        BY <2>4, <4>1 DEF Has, MemoryInv, MapAgain
    <3>4. ~ Has("remap") /\ ~ Has("container")
      BY <2>4, NotYet, RankOrder, ScriptSteps DEF Has, MemorySteps
    <3>5. \A x, y, z : Ram!Region(x, z) = Ram!Region(y, z) => x = y
      BY DEF Ram!Region
    <3>6. Has("mget") => Ram!Region(got["mget"].ret, 1) # r
      BY <3>3, <3>5 DEF Has
    <3>7. Size("mget") = 1 /\ Size("mmap") = 1
      BY DEF Size
    <3> QED
      BY <2>1, <2>2, <2>4, <3>1, <3>2, <3>3, <3>4, <3>6, <3>7, InBootHas DEF MemorySteps
  <2>5. CASE at \notin MemorySteps \cup {"munmap"}
    <3>1. New = {} /\ Old = {}
      BY <2>5 DEF New, Old
    <3>2. \A s \in MemorySteps : (Has(s)' <=> Has(s)) /\ got'[s] = got[s]
      BY <1>1, <2>5, ScriptSteps DEF Has, MemorySteps
    <3> QED
      BY <2>1, <3>1, <3>2, InBootHas
  <2> QED
    BY <2>3, <2>4, <2>5
<1>7. BootHolds'
  BY <1>1, <1>5, <1>6 DEF MemoryInv, BootHolds
<1>8. MapAgain'
  <2>1. /\ at' = "munmap" <=> at = "mmap"
        /\ at' = "remap" <=> at = "munmap"
        /\ at' = "mmap" => at = "close"
    BY <1>1 DEF Afterwards, Script
  <2>2. CASE at = "mmap"
    <3>1. got["remap"] = NoAnswer /\ got'["remap"] = NoAnswer
      BY <1>1, <2>2, NotYet, RankOrder, ScriptSteps, SMTT(30) DEF MemorySteps
    <3>2. /\ got'["mmap"] # NoAnswer /\ got'["mmap"].ret = word
          /\ got'["mget"] = got["mget"]
      BY <1>1, <1>3, <2>2, Beyond, ScriptSteps DEF NoAnswer, MemorySteps
    <3> QED
      BY <1>1, <2>1, <2>2, <3>1, <3>2 DEF MemoryInv, MapAgain, Lowest
  <2>3. CASE at = "munmap"
    <3>1. got'["mmap"] = got["mmap"] /\ got'["remap"] = got["remap"]
      BY <1>1, <2>3, ScriptSteps DEF MemorySteps
    <3> QED
      BY <1>1, <2>1, <2>3, <3>1 DEF MemoryInv, MapAgain, Lowest
  <2>4. CASE at = "remap"
    <3>1. got'["mmap"] = got["mmap"] /\ got["mmap"] # NoAnswer
          /\ word = got["mmap"].ret /\ got'["remap"] = [ret |-> word, bytes |-> <<>>]
      BY <1>1, <2>4, ScriptSteps DEF MemoryInv, MapAgain, MemorySteps
    <3>2. got["mmap"] = [ret |-> got["mmap"].ret, bytes |-> <<>>]
      BY <3>1 DEF MemoryInv, Taken, MemorySteps
    <3> QED
      BY <1>1, <2>1, <2>4, <3>1, <3>2 DEF MapAgain
  <2>5. CASE at \notin {"mmap", "munmap", "remap"}
    <3>1. got'["mmap"] = got["mmap"] /\ got'["remap"] = got["remap"]
      BY <1>1, <2>5, ScriptSteps DEF MemorySteps
    <3> QED
      BY <1>1, <2>1, <2>5, <3>1 DEF MemoryInv, MapAgain
  <2> QED
    BY <2>2, <2>3, <2>4, <2>5
<1> QED
  BY <1>2, <1>4, <1>7, <1>8 DEF MemoryInv

(* Between two calls, and behind standard_boot's last one.                 *)
LEMMA BootMovesMemory ==
  ASSUME CallsInv, MemoryInv,
         BootCalls \/ AppMakesCall \/ OpenTest \/ CallLoadElf
           \/ LoadReturns \/ ReturnToApp \/ AppReturns
  PROVE  MemoryInv'
<1>1. CASE BootCalls \/ AppMakesCall
  <2>1. frames = <<>> /\ UNCHANGED <<free, held, got, at>> /\ \E call : Int80(call)
    BY <1>1 DEF BootCalls, AppMakesCall, memory
  <2>2. frames' # <<>> /\ frames'[1].stage = "new"
    BY <2>1 DEF Int80
  <2>3. ~ HasAnswer /\ ~ HasAnswer'
    BY <2>1, <2>2 DEF HasAnswer
  <2> QED
    BY <2>1, <2>3, SameMemory
<1>2. CASE OpenTest
  <2>1. /\ frames = <<>> /\ at = "open" /\ at' \in {"read", "mmap"}
        /\ UNCHANGED <<free, held, frames>>
        /\ DOMAIN got' = Steps /\ \A s \in Steps \ {"open"} : got'[s] = got[s]
    BY <1>2, ScriptSteps DEF OpenTest, CallsInv, Callers, MemoryInv, Taken, memory
  <2>2. \A s \in MemorySteps \cup {"munmap"} :
          s \in Steps /\ got'[s] = got[s] /\ (s # "mget" => got[s] = NoAnswer)
    BY <2>1, NotYet, RankOrder, ScriptSteps DEF MemorySteps
  <2>3. Taken'
    <3>1. ASSUME NEW s \in Steps, got'[s] # NoAnswer PROVE Rank[s] < Rank[at']
      <4>1. Rank[s] < Rank[at] \/ s = at
        BY <2>1, <3>1 DEF MemoryInv, Taken
      <4>2. Rank[at] < Rank[at']
        BY <2>1, RankOrder, SMTT(30)
      <4> QED
        BY <4>1, <4>2, <2>1, RankOrder, ScriptSteps, RankSteps, SMTT(30)
    <3> QED
      BY <2>1, <2>2, <3>1 DEF MemoryInv, Taken
  <2>4. BootHas' = BootHas
    BY <2>2 DEF BootHas, MemorySteps
  <2>5. New = {} /\ Old = {} /\ New' = {} /\ Old' = {} /\ ~ HasAnswer'
    BY <2>1 DEF New, Old, HasAnswer
  <2>6. BootHolds'
    BY <2>1, <2>4, <2>5, ScriptSteps DEF MemoryInv, BootHolds, Booting
  <2>7. MapAgain'
    BY <2>1, <2>2, <2>5 DEF MemoryInv, MapAgain, MemorySteps
  <2> QED
    BY <2>1, <2>3, <2>6, <2>7 DEF MemoryInv, RunsApart
<1>3. CASE CallLoadElf \/ LoadReturns \/ ReturnToApp \/ AppReturns
  <2>1. /\ UNCHANGED <<free, held, got>>
        /\ \/ at = "load" /\ at' = "loading"
           \/ at \in {"loading", "app"} /\ at' \in {"app", "spin", "end"}
    BY <1>3 DEF CallLoadElf, LoadReturns, ReturnToApp, AppReturns, LoadElf, memory
  <2>2. /\ at' \notin Booting \cup MemorySteps \cup {"munmap"}
        /\ at \notin MemorySteps \cup {"munmap"}
        /\ \A s \in Steps : Rank[s] < Rank[at] => Rank[s] < Rank[at']
    <3>1. CASE at = "load" /\ at' = "loading"
      BY <3>1, ScriptSteps, RankOrder DEF Booting, MemorySteps
    <3>2. CASE at \in {"loading", "app"} /\ at' \in {"app", "spin", "end"}
      <4>1. \A s \in Steps : Rank[s] < 14
        BY RankOrder, ScriptSteps DEF Testing, MemorySteps
      <4> QED
        BY <3>2, <4>1, ScriptSteps, RankOrder DEF Booting, MemorySteps
    <3> QED
      BY <2>1, <3>1, <3>2
  <2>3. Taken'
    BY <2>1, <2>2 DEF MemoryInv, Taken
  <2>4. BootHas' = BootHas /\ Old' = {} /\ Old = {}
    BY <2>1, <2>2 DEF BootHas, Old
  <2> QED
    BY <2>1, <2>2, <2>3, <2>4 DEF MemoryInv, RunsApart, BootHolds, MapAgain, MemorySteps
<1> QED
  BY <1>1, <1>2, <1>3

LEMMA LoadingMemory ==
  ASSUME MemoryInv, at = "loading", UNCHANGED <<at, got>>,
         UNCHANGED <<free, held>> \/ \E k \in Nat : Ram!Allocate(k)
  PROVE  MemoryInv' /\ held \subseteq held'
<1>1. RunsApart' /\ held \subseteq held'
  BY AllocateRuns DEF MemoryInv, RunsApart
<1>2. UNCHANGED <<at, got>>
  OBVIOUS
<1>3. Taken' /\ BootHas' = BootHas /\ Old = {} /\ Old' = {}
  BY <1>2 DEF MemoryInv, Taken, BootHas, Old
<1>4. BootHolds'
  BY <1>1, <1>2, <1>3, ScriptSteps DEF MemoryInv, BootHolds, Booting, MemorySteps
<1>5. MapAgain'
  BY <1>2 DEF MemoryInv, MapAgain
<1> QED
  BY <1>1, <1>3, <1>4, <1>5 DEF MemoryInv

-----------------------------------------------------------------------------
(* Files.                                                                  *)
LEMMA DescriptorOpen ==
  ASSUME Descriptors, NEW d \in FdNumbers, open[d] # Closed
  PROVE  /\ open[d] = [file |-> open[d].file, position |-> open[d].position]
         /\ open[d].file \in {Path, TestFile} /\ open[d].position \in Nat
  BY DEF Descriptors

LEMMA FileNames == Path # TestFile
  BY DEF Path, TestFile

(* A position is moved; no file is closed or exchanged for another.        *)
SameFiles ==
  /\ Descriptors'
  /\ \A d \in FdNumbers :
       /\ open'[d] = Closed <=> open[d] = Closed
       /\ open[d] # Closed => open'[d].file = open[d].file

LEMMA PositionMoved ==
  ASSUME Descriptors, NEW d \in FdNumbers, open[d] # Closed, NEW p \in Nat,
         open' = [open EXCEPT ![d].position = p]
  PROVE  /\ SameFiles /\ open'[d].position = p
         /\ \A e \in FdNumbers \ {d} : open'[e] = open[e]
<1> DEFINE new == [file |-> open[d].file, position |-> p]
<1>1. open[d] = [file |-> open[d].file, position |-> open[d].position]
      /\ open[d].file \in {Path, TestFile}
  BY DescriptorOpen
<1>2. open' = [open EXCEPT ![d] = new]
  <2>1. ASSUME NEW e, e = [file |-> e.file, position |-> e.position],
               NEW g, g = [e EXCEPT !.position = p]
        PROVE  g = [file |-> e.file, position |-> p]
    BY <2>1
  <2>2. open' = [open EXCEPT ![d] = [open[d] EXCEPT !.position = p]]
    OBVIOUS
  <2> QED
    BY <1>1, <2>1, <2>2
<1>3. new \in [file : {Path, TestFile}, position : Nat] /\ new # Closed
  BY <1>1, CallsAssumption
<1>4. /\ open'[d] = new /\ new.file = open[d].file /\ new.position = p
      /\ \A e \in FdNumbers \ {d} : open'[e] = open[e]
  BY <1>2 DEF Descriptors
<1>5. Descriptors'
  BY <1>2, <1>3 DEF Descriptors
<1> HIDE DEF new
<1> QED
  BY <1>3, <1>4, <1>5 DEF SameFiles

(* What one call of each kind does.                                        *)
LEMMA SeekMoves ==
  ASSUME Descriptors, NEW d \in FdNumbers, NEW p \in Nat,
         Disk!SeekTo(d, p)
  PROVE  /\ SameFiles /\ open'[d].position = p /\ UNCHANGED content
         /\ \A e \in FdNumbers \ {d} : open'[e] = open[e]
<1>1. open[d] # Closed /\ open' = [open EXCEPT ![d].position = p] /\ UNCHANGED content
  BY DEF Disk!SeekTo
<1> QED
  BY <1>1, PositionMoved

(* The bytes a read of so many cells returns.                              *)
Bytes(cells, pos, count) ==
  SubSeq(cells, pos + 1, Disk!Smaller(pos + count, Len(cells)))

LEMMA BytesRead ==
  ASSUME NEW cells \in Seq(CellValues), NEW pos \in Nat, NEW count \in Nat
  PROVE  LET bytes == Bytes(cells, pos, count)
         IN  /\ bytes \in Seq(CellValues)
             /\ Len(bytes) \in Nat /\ Len(bytes) <= count
             /\ \A c \in 1 .. Len(bytes) : pos + c <= Len(cells) /\ bytes[c] = cells[pos + c]
             /\ \A c \in 1 .. count : pos + c <= Len(cells) => c <= Len(bytes)
<1> DEFINE n == Disk!Smaller(pos + count, Len(cells))
           bytes == Bytes(cells, pos, count)
<1>1. /\ n \in Nat /\ n <= Len(cells) /\ n <= pos + count
      /\ n = pos + count \/ n = Len(cells)
  BY DEF Disk!Smaller
<1>2. \A c \in (pos + 1) .. n : cells[c] \in CellValues
  BY <1>1
<1>3. /\ bytes \in Seq(CellValues)
      /\ Len(bytes) = IF pos + 1 <= n THEN n - (pos + 1) + 1 ELSE 0
      /\ \A c \in 1 .. (n - (pos + 1) + 1) : bytes[c] = cells[pos + 1 + c - 1]
  <2> HIDE DEF n
  <2> QED
    BY <1>1, <1>2, SubSeqProperties DEF Bytes, n
<1> HIDE DEF n, bytes
<1>4. \A c \in 1 .. Len(bytes) : pos + c <= Len(cells) /\ bytes[c] = cells[pos + c]
  BY <1>1, <1>3
<1>5. Len(bytes) \in Nat /\ Len(bytes) <= count
  BY <1>1, <1>3
<1>6. \A c \in 1 .. count : pos + c <= Len(cells) => c <= Len(bytes)
  BY <1>1, <1>3
<1>7. bytes \in Seq(CellValues)
  BY <1>3
<1> QED
  BY <1>4, <1>5, <1>6, <1>7, Zenon DEF bytes

LEMMA ReadMoves ==
  ASSUME Descriptors, NEW d \in FdNumbers, NEW k \in Nat,
         content[open[d].file] \in Seq(CellValues),
         Disk!Read(d, k)
  PROVE  LET bytes == Bytes(content[open[d].file], open[d].position, k)
         IN  /\ open[d] # Closed /\ SameFiles /\ UNCHANGED content
             /\ reply' = [ret |-> Len(bytes), bytes |-> bytes]
             /\ open'[d].position = open[d].position + Len(bytes)
<1> DEFINE bytes == Bytes(content[open[d].file], open[d].position, k)
<1>1. /\ open[d] # Closed /\ UNCHANGED content
      /\ reply' = [ret |-> Len(bytes), bytes |-> bytes]
      /\ open' = [open EXCEPT ![d].position = open[d].position + Len(bytes)]
  BY DEF Disk!Read, Disk!ReadBytes, Bytes, Disk!Smaller
<1>2. open[d].position \in Nat /\ Len(bytes) \in Nat
  BY <1>1, DescriptorOpen, BytesRead
<1> HIDE DEF bytes
<1>3. open[d].position + Len(bytes) \in Nat
  BY <1>2
<1> QED
  BY <1>1, <1>3, PositionMoved DEF bytes

FileTypes ==
  /\ Descriptors
  /\ DOMAIN content = {Path, TestFile}
  /\ content[Path] \in Seq(CellValues) /\ Text \in Seq(CellValues)

LEMMA FileTyped ==
  ASSUME FileTypes, NEW d \in FdNumbers, open[d] # Closed
  PROVE  content[open[d].file] \in Seq(CellValues)
  BY DescriptorOpen DEF FileTypes, Text

(* Who is being served, and what was asked for.                            *)
LEMMA Asked ==
  ASSUME at # "loading", CallsInv, frames # <<>>
  PROVE  LET call == frames[1].call
         IN  /\ at \in Testing \cup MemorySteps \cup {"munmap", "app"}
             /\ at \in Testing => call = Script[at]
             /\ at \in MemorySteps \cup {"munmap"} =>
                  call.num \in {SYS_MGET, SYS_MMAP, SYS_MUNMAP}
             /\ at = "app" => made # 0
             /\ call.num \in {SYS_LSEEK, SYS_SEEK, SYS_READ_FILE} => call.arg \in Nat
             /\ call.num = SYS_WRITE_FILE => call.arg = TestData
             /\ call.num = SYS_OPEN => call.arg = {Path, TestFile}
<1> DEFINE call == frames[1].call
<1>1. at \in DOMAIN Script \cup {"app"} /\ (at = "app" => made # 0)
  <2>1. made \in Nat /\ (at \in DOMAIN Script \/ (at = "app" /\ made > 0))
    BY DEF CallsInv, Callers
  <2>2. "app" \notin DOMAIN Script
    BY ScriptSteps
  <2> HIDE DEF call
  <2>3. at = "app" => made > 0
    BY <2>1, <2>2
  <2>4. made > 0 => made # 0
    BY <2>1
  <2> QED
    BY <2>1, <2>3, <2>4
<1>2. \/ call = Outer.call
      \/ call.num = SYS_MGET /\ Outer.call.num = SYS_MMAP
  BY TopCall DEF CallsInv
<1>3. ASSUME at = "app"
      PROVE  /\ Outer.call.num \in {SYS_LSEEK, SYS_SEEK, SYS_READ_FILE} => Outer.call.arg \in Nat
             /\ Outer.call.num = SYS_WRITE_FILE => Outer.call.arg = TestData
             /\ Outer.call.num = SYS_OPEN => Outer.call.arg = {Path, TestFile}
             /\ at \notin DOMAIN Script
  <2>1. \A c \in AppCalls :
          /\ c.num \in {SYS_LSEEK, SYS_SEEK, SYS_READ_FILE} => c.arg \in Nat
          /\ c.num = SYS_WRITE_FILE => c.arg = TestData
          /\ c.num = SYS_OPEN => c.arg = {Path, TestFile}
    BY Numbers DEF AppCalls, Call
  <2>2. at \notin DOMAIN Script
    BY <1>3, ScriptSteps
  <2> QED
    BY <2>1, <2>2 DEF CallsInv, Callers
<1>4. ASSUME NEW s \in Testing
      PROVE  /\ Script[s].num \notin {SYS_MGET, SYS_MMAP, SYS_MUNMAP, SYS_OPEN}
             /\ Script[s].num \in {SYS_LSEEK, SYS_SEEK, SYS_READ_FILE} => Script[s].arg \in Nat
             /\ Script[s].num = SYS_WRITE_FILE => Script[s].arg = TestData
  BY Numbers, CallsAssumption, SMTT(30) DEF Testing, Script, Call
<1>5. ASSUME NEW s \in MemorySteps \cup {"munmap"}
      PROVE  Script[s].num \in {SYS_MGET, SYS_MMAP, SYS_MUNMAP}
  BY ScriptCalls, <1>5 DEF MemorySteps
<1>6. DOMAIN Script = Testing \cup MemorySteps \cup {"munmap"}
  BY ScriptSteps
<1>7. CASE at = "app"
  BY <1>1, <1>2, <1>3, <1>7, Numbers DEF Testing, MemorySteps
<1>8. CASE at \in DOMAIN Script
  <2>1. Outer.call = Script[at] /\ at # "app"
    BY <1>3, <1>8 DEF CallsInv, Callers
  <2>2. CASE at \in Testing
    BY <1>2, <1>4, <2>1, <2>2, Numbers DEF Testing, MemorySteps
  <2>3. CASE at \in MemorySteps \cup {"munmap"}
    <3>1. call.num \in {SYS_MGET, SYS_MMAP, SYS_MUNMAP}
      BY <1>2, <1>5, <2>1, <2>3
    <3> QED
      BY <2>1, <2>3, <3>1, Numbers DEF Testing, MemorySteps
  <2> QED
    BY <1>6, <1>8, <2>2, <2>3
<1> QED
  BY <1>1, <1>7, <1>8

(* The beginnings of two texts.                                            *)
LEMMA StartOf ==
  ASSUME NEW cells \in Seq(CellValues)
  PROVE  /\ Start(cells) \in Seq(CellValues)
         /\ Len(Start(cells)) = Disk!Smaller(BufSize, Len(cells))
         /\ Len(Start(cells)) \in Nat
         /\ \A c \in 1 .. Len(Start(cells)) : Start(cells)[c] = cells[c]
<1> DEFINE n == Disk!Smaller(BufSize, Len(cells))
<1>1. n \in Nat /\ n <= Len(cells)
  BY CallsAssumption DEF Disk!Smaller
<1>2. \A c \in 1 .. n : cells[c] \in CellValues
  BY <1>1
<1> HIDE DEF n
<1>3. /\ SubSeq(cells, 1, n) \in Seq(CellValues)
      /\ Len(SubSeq(cells, 1, n)) = IF 1 <= n THEN n - 1 + 1 ELSE 0
      /\ \A c \in 1 .. (n - 1 + 1) : SubSeq(cells, 1, n)[c] = cells[1 + c - 1]
  BY <1>1, <1>2, SubSeqProperties
<1>4. Start(cells) = SubSeq(cells, 1, n)
  BY DEF Start, n
<1>5. Len(Start(cells)) = n
  BY <1>1, <1>3, <1>4
<1> QED
  BY <1>1, <1>3, <1>4, <1>5 DEF n

LEMMA SameStart ==
  ASSUME NEW a \in Seq(CellValues), NEW b \in Seq(CellValues),
         Disk!Smaller(BufSize, Len(a)) = Disk!Smaller(BufSize, Len(b)),
         \A c \in 1 .. Disk!Smaller(BufSize, Len(a)) : a[c] = b[c]
  PROVE  Start(a) = Start(b)
<1> DEFINE s == Start(a)
           t == Start(b)
<1>1. s \in Seq(CellValues) /\ t \in Seq(CellValues) /\ Len(s) = Len(t)
      /\ \A c \in 1 .. Len(s) : s[c] = t[c]
  BY StartOf
<1> HIDE DEF s, t
<1>2. s = t
  BY <1>1, SeqEqual
<1> QED
  BY <1>2 DEF s, t

LEMMA StartReads ==
  ASSUME NEW cells \in Seq(CellValues)
  PROVE  Bytes(cells, 0, BufSize) = Start(cells)
<1>1. 0 + 1 = 1 /\ 0 + BufSize = BufSize
  BY CallsAssumption
<1> QED
  BY <1>1 DEF Bytes, Start

(* A write behind the bytes the first read has returned.                   *)
LEMMA Appended ==
  ASSUME NEW cells \in Seq(CellValues), NEW n \in 0 .. Len(TestData)
  PROVE  LET all == Start(cells) \o SubSeq(TestData, 1, n)
         IN  /\ all \in Seq(CellValues) /\ Len(all) = Len(Start(cells)) + n
             /\ \A c \in 1 .. Len(Start(cells)) : all[c] = cells[c]
             /\ \A c \in 1 .. n : all[Len(Start(cells)) + c] = TestData[c]
<1> DEFINE b == Start(cells)
           p == SubSeq(TestData, 1, n)
<1>1. /\ b \in Seq(CellValues) /\ Len(b) \in Nat
      /\ \A c \in 1 .. Len(b) : b[c] = cells[c]
  BY StartOf
<1>2. /\ p \in Seq(CellValues) /\ Len(p) = n /\ \A c \in 1 .. n : p[c] = TestData[c]
  <2>1. TestData \in Seq(CellValues) /\ \A c \in 1 .. n : TestData[c] \in CellValues
    BY CallsAssumption
  <2>2. /\ p \in Seq(CellValues) /\ Len(p) = IF 1 <= n THEN n - 1 + 1 ELSE 0
        /\ \A c \in 1 .. (n - 1 + 1) : p[c] = TestData[1 + c - 1]
    BY <2>1, SubSeqProperties
  <2> HIDE DEF p
  <2> QED
    BY <2>2
<1> HIDE DEF b, p
<1>3. /\ b \o p \in Seq(CellValues) /\ Len(b \o p) = Len(b) + Len(p)
      /\ \A c \in 1 .. Len(b) : (b \o p)[c] = b[c]
      /\ \A c \in 1 .. Len(p) : (b \o p)[Len(b) + c] = p[c]
  BY <1>1, <1>2, SMTT(30)
<1> QED
  BY <1>1, <1>2, <1>3 DEF b, p

LEMMA WriteExtends ==
  ASSUME NEW old \in Seq(CellValues), NEW new \in Seq(CellValues),
         NEW n \in 1 .. Len(TestData),
         Disk!Overwritten(old, new, Len(Start(old)), TestData, n)
  PROVE  Start(new) = Start(Start(old) \o SubSeq(TestData, 1, n))
<1> DEFINE k == Len(Start(old))
           all == Start(old) \o SubSeq(TestData, 1, n)
<1>1. /\ k \in Nat /\ k = Disk!Smaller(BufSize, Len(old))
      /\ all \in Seq(CellValues) /\ Len(all) = k + n
      /\ \A c \in 1 .. k : all[c] = old[c]
      /\ \A c \in 1 .. n : all[k + c] = TestData[c]
  <2>1. n \in 0 .. Len(TestData)
    BY CallsAssumption
  <2> QED
    BY <2>1, StartOf, Appended
<1>2. /\ Len(new) = Disk!Larger(Len(old), k + n)
      /\ \A p \in 1 .. Len(new) :
           /\ p \in (k + 1) .. (k + n) => new[p] = TestData[p - k]
           /\ p <= Len(old) /\ p \notin (k + 1) .. (k + n) => new[p] = old[p]
  BY DEF Disk!Overwritten
<1> HIDE DEF k, all
<1>3. n \in Nat /\ Len(old) \in Nat /\ Len(new) \in Nat /\ BufSize \in Nat
  BY CallsAssumption
<1>4. k <= Len(old) /\ (k = Len(old) \/ k = BufSize) /\ k <= BufSize
  BY <1>1, <1>3 DEF Disk!Smaller
<1>5. Disk!Smaller(BufSize, Len(new)) = Disk!Smaller(BufSize, Len(all))
  BY <1>1, <1>2, <1>3, <1>4 DEF Disk!Smaller, Disk!Larger
<1>6. ASSUME NEW c \in 1 .. Disk!Smaller(BufSize, Len(new)) PROVE new[c] = all[c]
  <2>1. c \in Nat /\ 1 <= c /\ c <= BufSize /\ c <= Len(new)
    BY <1>3 DEF Disk!Smaller
  <2>2. CASE c <= k
    <3>1. c \in 1 .. Len(new) /\ c <= Len(old) /\ c \notin (k + 1) .. (k + n) /\ c \in 1 .. k
      BY <1>1, <1>3, <1>4, <2>1, <2>2
    <3>2. new[c] = old[c]
      BY <1>2, <3>1
    <3> QED
      BY <1>1, <3>1, <3>2
  <2>3. CASE c > k
    <3>1. k = Len(old) /\ c <= k + n
      BY <1>2, <1>3, <1>4, <2>1, <2>3, <1>1 DEF Disk!Larger
    <3>2. new[c] = TestData[c - k]
      BY <1>1, <1>2, <1>3, <2>1, <2>3, <3>1
    <3>3. c - k \in 1 .. n /\ k + (c - k) = c
      BY <1>1, <1>3, <2>1, <2>3, <3>1
    <3> QED
      BY <1>1, <3>2, <3>3
  <2> QED
    BY <2>1, <2>2, <2>3, <1>1
<1>7. Start(new) = Start(all)
  BY <1>1, <1>5, <1>6, SameStart
<1> QED
  BY <1>7 DEF all

LEMMA RefusedWrite ==
  ASSUME NEW cells \in Seq(CellValues)
  PROVE  Start(cells) = Start(Start(cells) \o SubSeq(TestData, 1, -1))
<1>1. SubSeq(TestData, 1, -1) = SubSeq(TestData, 1, 0)
  BY CallsAssumption
<1> DEFINE k == Len(Start(cells))
           all == Start(cells) \o SubSeq(TestData, 1, 0)
<1>2. /\ k \in Nat /\ k = Disk!Smaller(BufSize, Len(cells))
      /\ all \in Seq(CellValues) /\ Len(all) = k
      /\ \A c \in 1 .. k : all[c] = cells[c]
  <2>1. 0 \in 0 .. Len(TestData)
    BY CallsAssumption
  <2> QED
    BY <2>1, StartOf, Appended
<1> HIDE DEF k, all
<1>3. Disk!Smaller(BufSize, Len(cells)) = Disk!Smaller(BufSize, Len(all))
  BY <1>2, CallsAssumption DEF Disk!Smaller
<1>4. \A c \in 1 .. Disk!Smaller(BufSize, Len(cells)) : cells[c] = all[c]
  BY <1>2
<1>5. Start(cells) = Start(all)
  BY <1>2, <1>3, <1>4, SameStart
<1> QED
  BY <1>1, <1>5 DEF all

(* What a write leaves in the file is a text again.                        *)
LEMMA WriteTyped ==
  ASSUME FileTypes, NEW d \in FdNumbers, open[d] # Closed, WriteSome(d, TestData)
  PROVE  /\ FileTypes' /\ SameFiles
         /\ \E n \in 1 .. Len(TestData) :
              /\ Disk!Overwritten(content[open[d].file], content'[open[d].file],
                                  open[d].position, TestData, n)
              /\ reply'.ret = n
<1> DEFINE f == open[d].file
           pos == open[d].position
           old == content[f]
<1>1. /\ f \in {Path, TestFile} /\ pos \in Nat
      /\ old \in Seq(CellValues)
  BY DescriptorOpen, FileTyped DEF FileTypes
<1>2. PICK m \in 1 .. Len(TestData) :
        content' = [content EXCEPT ![f] = Overlaid(old, pos, SubSeq(TestData, 1, m))]
  BY DEF WriteSome
<1>3. PICK n \in 1 .. Len(TestData) :
        /\ Disk!Overwritten(old, content'[f], pos, TestData, n)
        /\ open' = [open EXCEPT ![d].position = pos + n]
        /\ reply'.ret = n
  <2>1. Disk!Write(d, TestData)
    BY DEF WriteSome
  <2>2. \A n : Disk!Returned(n).ret = n
    BY DEF Disk!Returned
  <2> QED
    BY <2>1, <2>2 DEF Disk!Write
<1> DEFINE piece == SubSeq(TestData, 1, m)
           new == Overlaid(old, pos, piece)
<1>4. new \in Seq(CellValues)
  <2>1. /\ piece \in Seq(CellValues) /\ Len(piece) = m
        /\ \A c \in 1 .. m : piece[c] \in CellValues
    <3>1. TestData \in Seq(CellValues) /\ m \in Nat /\ \A c \in 1 .. m : TestData[c] \in CellValues
      BY CallsAssumption
    <3>2. /\ piece \in Seq(CellValues) /\ Len(piece) = IF 1 <= m THEN m - 1 + 1 ELSE 0
      BY <3>1, SubSeqProperties
    <3> HIDE DEF piece
    <3> QED
      BY <3>1, <3>2
  <2> DEFINE size == Disk!Larger(Len(old), pos + Len(piece))
  <2> HIDE DEF f, pos, old, piece
  <2>2. size \in Nat /\ m \in Nat /\ Len(old) \in Nat
    BY <1>1, <2>1, CallsAssumption DEF Disk!Larger
  <2>3. Stale \in CellValues
    BY DEF CellValues
  <2>4. \A c \in 1 .. size :
          (IF c \in (pos + 1) .. (pos + Len(piece)) THEN piece[c - pos]
           ELSE IF c <= Len(old) THEN old[c] ELSE Stale) \in CellValues
    <3> SUFFICES ASSUME NEW c \in 1 .. size
                 PROVE (IF c \in (pos + 1) .. (pos + Len(piece)) THEN piece[c - pos]
                        ELSE IF c <= Len(old) THEN old[c] ELSE Stale) \in CellValues
      OBVIOUS
    <3>1. c \in (pos + 1) .. (pos + Len(piece)) => c - pos \in 1 .. m
      BY <1>1, <2>1, <2>2
    <3>2. c <= Len(old) => old[c] \in CellValues
      BY <1>1, <2>2
    <3> QED
      BY <2>1, <2>3, <3>1, <3>2
  <2>5. new \in [1 .. size -> CellValues]
    BY <2>4 DEF Overlaid
  <2> HIDE DEF new, size
  <2> QED
    BY <2>2, <2>5, SeqDef
<1>5. /\ DOMAIN content' = {Path, TestFile}
      /\ content'[Path] \in Seq(CellValues) /\ content'[TestFile] \in Seq(CellValues)
  <2> HIDE DEF new, old
  <2> QED
    BY <1>1, <1>2, <1>4 DEF FileTypes, Text, new
<1>6. SameFiles
  <2>1. pos + n \in Nat
    BY <1>1, CallsAssumption
  <2> QED
    BY <1>3, <2>1, PositionMoved DEF FileTypes
<1> QED
  BY <1>3, <1>5, <1>6 DEF FileTypes, Text, SameFiles

(* Steps behind which the files and standard_boot's answers are the same.  *)
LEMMA QuietFiles ==
  ASSUME FilesInv, ContentsInv, UNCHANGED <<content, open, got, at, made>>,
         at \in Testing => UNCHANGED reply /\ (HasAnswer' <=> HasAnswer)
                           /\ (HasAnswer => frames'[1].gave = frames[1].gave)
  PROVE  FilesInv' /\ ContentsInv'
<1>1. FilesInv'
  BY DEF FilesInv, Descriptors, AllClosed, OnlyOpen, Text, Testing
<1>2. /\ Untouched' = Untouched /\ Place' = Place /\ Text' = Text
      /\ \A n : Expected(n)' = Expected(n)
  BY DEF Untouched, Place, Expected, Start, Text
<1>3. SelfTestReadsBack'
  BY DEF ContentsInv, SelfTestReadsBack
<1>4. Start(Text)' = Start(Text)
  BY <1>2 DEF Start
<1>5. (at \in Testing \/ at = "write" \/ at = "read" \/ at = "reread" \/ at = "lseek")
        => at \in Testing
  BY DEF Testing
<1>6. (Untouched => content[Path] \in Programs)'
  BY <1>2 DEF ContentsInv
<1>7. (at = "read" =>
       IF HasAnswer THEN reply.bytes = Start(Text) /\ Place = Len(Start(Text))
       ELSE Place = 0)'
  BY <1>2, <1>4, <1>5 DEF ContentsInv
<1>8. (at = "write" =>
       IF HasAnswer THEN frames[1].gave \in -1 .. Len(TestData) /\ Start(Text) = Expected(frames[1].gave)
       ELSE got["read"].bytes = Start(Text) /\ Place = Len(Start(Text)))'
  BY <1>2, <1>4, <1>5 DEF ContentsInv, Expected, Start
<1>9. (at \in {"lseek", "seek", "reread"} => Start(Text) = Expected(got["write"].ret))'
  BY <1>2, <1>4 DEF ContentsInv, Expected, Start
<1>10. ((at = "lseek" /\ HasAnswer) \/ at = "seek" \/ (at = "reread" /\ ~ HasAnswer) =>
       Place = 0)'
  BY <1>2, <1>5 DEF ContentsInv
<1>11. (at = "reread" /\ HasAnswer => reply.bytes = Expected(got["write"].ret))'
  BY <1>2, <1>5 DEF ContentsInv, Expected, Start
<1> QED
  BY <1>1, <1>3, <1>6, <1>7, <1>8, <1>9, <1>10, <1>11 DEF ContentsInv

LEMMA QuietArms ==
  ASSUME at # "loading", CallsInv, FilesInv, ContentsInv,
         AnswersInRax \/ AnswersNull \/ MgetAsks \/ MgetAnswers \/ MmapCalls \/ MmapAnswers
           \/ MunmapArm \/ ReturnToHandler
  PROVE  FilesInv' /\ ContentsInv'
<1>1. frames # <<>> /\ UNCHANGED <<content, open, got, at, made>>
  BY DEF AnswersInRax, AnswersNull, MgetAsks, MgetAnswers, MmapCalls, MmapAnswers,
     MunmapArm, ReturnToHandler, MemoryArm, Answered, Serving, Iret, store
<1>2. frames[1].call.num \in {SYS_WRITE_AT, SYS_EXEC, SYS_EXIT, SYS_YIELD, SYS_MGET,
                              SYS_MMAP, SYS_MUNMAP}
  <2>1. CASE ReturnToHandler
    <3>1. Len(frames) # 1
      <4>1. Len(frames) > 1
        BY <2>1 DEF ReturnToHandler
      <4>2. Len(frames) \in Nat
        BY <1>1, FirstFrame DEF CallsInv
      <4>3. ASSUME NEW n \in Nat, n > 1 PROVE n # 1
        BY <4>3
      <4> QED
        BY <4>1, <4>2, <4>3
    <3>2. frames[1].call.num = SYS_MGET
      BY <1>1, <3>1, TopCall DEF CallsInv
    <3> QED
      BY <3>2
  <2>2. CASE ~ ReturnToHandler
    BY <2>2 DEF AnswersInRax, AnswersNull, MgetAsks, MgetAnswers, MmapCalls, MmapAnswers,
       MunmapArm, MemoryArm, Serving
  <2> QED
    BY <2>1, <2>2
<1>3. at \notin Testing
  <2>1. \A s \in Testing : s \in DOMAIN Script /\ s \notin MemorySteps /\ s # "munmap"
    BY ScriptSteps DEF Testing, MemorySteps
  <2> QED
    BY <1>1, <1>2, <2>1, Asked, ScriptNumbers
<1> QED
  BY <1>1, <1>3, QuietFiles

(* The file calls, whoever makes them.                                     *)
FileCalls ==
  OpenArm \/ CloseArm \/ LseekArm \/ SeekArm \/ FstatArm \/ PlainRead \/ WriteArm

LEMMA FileArmsAsked ==
  ASSUME at # "loading", CallsInv, FileCalls
  PROVE  /\ frames # <<>> /\ frames[1].stage = "new" /\ UNCHANGED <<at, got, made>>
         /\ ~ HasAnswer /\ HasAnswer'
         /\ \/ at = "app" /\ made # 0
            \/ at \in Testing /\ frames[1].call = Script[at]
         /\ at = "app" => at \notin Testing
         /\ WriteArm => frames'[1].gave = reply'.ret
<1>1. /\ frames # <<>> /\ frames[1].stage = "new" /\ UNCHANGED <<at, got, made>>
      /\ frames[1].call.num \in {SYS_OPEN, SYS_CLOSE, SYS_LSEEK, SYS_SEEK, SYS_FSTAT,
                                 SYS_READ_FILE, SYS_WRITE_FILE}
      /\ \E gave : Served(gave)
  BY DEF FileCalls, OpenArm, CloseArm, LseekArm, SeekArm, FstatArm, PlainRead, WriteArm,
     FileArm, Serving, Answered
<1>2. ~ HasAnswer /\ HasAnswer'
  BY <1>1, ServedDone DEF HasAnswer, CallsInv
<1>3. at = "app" => at \notin Testing
  BY DEF Testing
<1>4. WriteArm => frames'[1].gave = reply'.ret
  <2>1. WriteArm => Served(reply'.ret)
    BY DEF WriteArm, FileArm, Answered
  <2>2. Served(reply'.ret) =>
          frames'[1] = [call |-> frames[1].call, stage |-> "done", gave |-> reply'.ret]
    BY <1>1, ServedNesting DEF CallsInv
  <2> QED
    BY <2>1, <2>2
<1> QED
  <2>1. frames[1].call.num \notin {SYS_MGET, SYS_MMAP, SYS_MUNMAP}
    BY <1>1, Numbers
  <2>2. \/ at = "app" /\ made # 0
        \/ at \in Testing /\ frames[1].call = Script[at]
    BY <1>1, <2>1, Asked
  <2> QED
    BY <1>1, <1>2, <1>3, <1>4, <2>2

LEMMA FileArmsTyped ==
  ASSUME at # "loading", CallsInv, FileTypes, FileCalls
  PROVE  FileTypes'
<1> DEFINE num == frames[1].call.num
           d == frames[1].call.fd
           a == frames[1].call.arg
<1>1. frames # <<>>
  BY FileArmsAsked
<1>2. ASSUME SameFiles, UNCHANGED content PROVE FileTypes'
  BY <1>2 DEF FileTypes, SameFiles, Text
<1>3. ASSUME UNCHANGED <<content, open>> PROVE FileTypes'
  BY <1>3 DEF FileTypes, Descriptors, Text
<1>4. CASE OpenArm
  <2>1. ASSUME NEW f \in {Path, TestFile}, Disk!Open(f) PROVE FileTypes'
    BY <2>1 DEF Disk!Open, FileTypes, Descriptors, Text
  <2>2. (\E f \in {Path, TestFile} : Disk!Open(f)) \/ UNCHANGED <<content, open>>
    <3>1. num = SYS_OPEN
      BY <1>4 DEF OpenArm, FileArm, Serving
    <3>2. Arg = {Path, TestFile}
      BY <1>1, <3>1, Asked DEF Arg
    <3> QED
      BY <1>4, <3>2 DEF OpenArm, FileArm, Disk!Refuse
  <2> QED
    BY <1>3, <2>1, <2>2
<1>5. CASE CloseArm
  <2>1. ASSUME NEW e \in FdNumbers, Disk!Close(e) PROVE FileTypes'
    BY <2>1 DEF Disk!Close, FileTypes, Descriptors, Text
  <2>2. (d \in FdNumbers /\ Disk!Close(d)) \/ UNCHANGED <<content, open>>
    BY <1>5 DEF CloseArm, FileArm, Disk!Refuse, Fd
  <2> QED
    BY <1>3, <2>1, <2>2
<1>6. CASE LseekArm \/ SeekArm
  <2>1. /\ num \in {SYS_LSEEK, SYS_SEEK}
        /\ (IsOpen /\ Disk!SeekTo(d, a)) \/ UNCHANGED <<content, open>>
    BY <1>6 DEF LseekArm, SeekArm, FileArm, Serving, Fd, Arg, Disk!Refuse
  <2>2. a \in Nat
    BY <1>1, <2>1, Asked
  <2> QED
    BY <1>2, <1>3, <2>1, <2>2, SeekMoves DEF FileTypes, IsOpen, Fd
<1>7. CASE FstatArm
  <2>1. UNCHANGED <<content, open>>
    BY <1>7 DEF FstatArm, FileArm, Disk!Stat, Disk!Refuse
  <2> QED
    BY <1>3, <2>1
<1>8. CASE PlainRead
  <2>1. /\ num = SYS_READ_FILE
        /\ (IsOpen /\ Disk!Read(d, a)) \/ UNCHANGED <<content, open>>
    BY <1>8 DEF PlainRead, FileArm, Serving, Fd, Arg, Disk!Refuse
  <2>2. a \in Nat
    BY <1>1, <2>1, Asked
  <2>3. CASE IsOpen /\ Disk!Read(d, a)
    <3>1. d \in FdNumbers /\ content[open[d].file] \in Seq(CellValues)
      BY <2>3, FileTyped DEF IsOpen, Fd
    <3>2. SameFiles /\ UNCHANGED content
      BY <2>2, <2>3, <3>1, ReadMoves DEF FileTypes
    <3> QED
      BY <1>2, <3>2
  <2> QED
    BY <1>3, <2>1, <2>3
<1>9. CASE WriteArm
  <2>1. /\ num = SYS_WRITE_FILE
        /\ (IsOpen /\ WriteSome(d, a)) \/ UNCHANGED <<content, open>>
    BY <1>9 DEF WriteArm, FileArm, Serving, Fd, Arg, Disk!Refuse
  <2>2. a = TestData
    BY <1>1, <2>1, Asked
  <2> QED
    BY <1>3, <2>1, <2>2, WriteTyped DEF IsOpen, Fd
<1> QED
  BY <1>4, <1>5, <1>6, <1>7, <1>8, <1>9 DEF FileCalls

LEMMA TypesOfFiles == FilesInv => FileTypes
  BY DEF FilesInv, FileTypes

(* Behind the application's calls nothing is promised of the files.        *)
LEMMA AppFiles ==
  ASSUME FileTypes', ContentsInv, UNCHANGED <<got, made>>, at' = "app", at = "app", made # 0
  PROVE  FilesInv' /\ ContentsInv'
<1>1. /\ at' \notin Testing \cup Booting \cup {"read", "write", "lseek", "seek", "reread"}
      /\ at' \notin Tested \cup {"loading"}
  BY ScriptSteps DEF Testing, Booting, Tested
<1>2. FilesInv'
  BY <1>1 DEF FilesInv, FileTypes
<1>3. ~ Untouched'
  BY <1>1 DEF Untouched
<1>4. ContentsInv'
  BY <1>1, <1>3 DEF ContentsInv, SelfTestReadsBack
<1> QED
  BY <1>2, <1>4

(* What each step of standard_boot's test does to the file.                *)
LEMMA TestArms ==
  ASSUME CallsInv, FilesInv, ContentsInv, FileCalls, at \in Testing, at # "loading"
  PROVE  LET d == got["open"].ret
             same == SameFiles /\ UNCHANGED content
         IN  /\ at \in {"read", "reread"} =>
                  /\ same /\ open[d].position \in Nat
                  /\ reply'.bytes = Bytes(Text, open[d].position, BufSize)
                  /\ open'[d].position = open[d].position + Len(reply'.bytes)
             /\ at \in {"lseek", "seek"} => same /\ open'[d].position = 0
             /\ at = "close" => AllClosed' /\ UNCHANGED content
             /\ at = "write" =>
                  /\ SameFiles /\ content'[Path] = content[Path]
                  /\ \/ reply'.ret = -1 /\ UNCHANGED content
                     \/ \E n \in 1 .. Len(TestData) :
                          /\ Disk!Overwritten(Text, Text', open[d].position, TestData, n)
                          /\ reply'.ret = n
<1> DEFINE d == got["open"].ret
           call == frames[1].call
<1>1. frames # <<>> /\ frames[1].stage = "new" /\ call = Script[at] /\ ~ HasAnswer
  BY FileArmsAsked DEF Testing
<1>2. OnlyOpen(d, TestFile) /\ Descriptors
  BY <1>1 DEF FilesInv, Testing
<1>3. d \in FdNumbers /\ open[d] # Closed /\ open[d].file = TestFile
      /\ open[d].position \in Nat
  BY <1>2, DescriptorOpen DEF OnlyOpen
<1>4. /\ Script["read"] = Call(SYS_READ_FILE, d, BufSize)
      /\ Script["reread"] = Call(SYS_READ_FILE, d, BufSize)
      /\ Script["write"] = Call(SYS_WRITE_FILE, d, TestData)
      /\ Script["lseek"] = Call(SYS_LSEEK, d, 0) /\ Script["seek"] = Call(SYS_SEEK, d, 0)
      /\ Script["close"] = Call(SYS_CLOSE, d, 0)
  BY DEF Script
<1>5. call.fd = d
  BY <1>1, <1>4 DEF Testing, Call
<1>6. IsOpen /\ Fd = d
  BY <1>1, <1>3, <1>5 DEF IsOpen, Fd
<1>7. ASSUME at \in {"read", "reread"} PROVE Disk!Read(d, BufSize)
  <2>1. call.num = SYS_READ_FILE /\ call.arg = BufSize
    BY <1>1, <1>4, <1>7 DEF Call
  <2>2. PlainRead
    BY <2>1, Numbers DEF FileCalls, OpenArm, CloseArm, LseekArm, SeekArm, FstatArm, PlainRead,
       WriteArm, FileArm, Serving
  <2> QED
    BY <1>6, <2>1, <2>2, CallsAssumption DEF PlainRead, FileArm, Arg
<1>8. ASSUME at \in {"lseek", "seek"} PROVE Disk!SeekTo(d, 0)
  <2>1. call.num \in {SYS_LSEEK, SYS_SEEK} /\ call.arg = 0
    BY <1>1, <1>4, <1>8 DEF Call
  <2>2. LseekArm \/ SeekArm
    BY <2>1, Numbers DEF FileCalls, OpenArm, CloseArm, LseekArm, SeekArm, FstatArm, PlainRead,
       WriteArm, FileArm, Serving
  <2> QED
    BY <1>6, <2>1, <2>2 DEF LseekArm, SeekArm, FileArm, Arg
<1>9. ASSUME at = "close" PROVE Disk!Close(d)
  <2>1. call.num = SYS_CLOSE
    BY <1>1, <1>4, <1>9 DEF Call
  <2>2. CloseArm
    BY <2>1, Numbers DEF FileCalls, OpenArm, CloseArm, LseekArm, SeekArm, FstatArm, PlainRead,
       WriteArm, FileArm, Serving
  <2> QED
    BY <1>3, <1>6, <2>2 DEF CloseArm, FileArm
<1>10. ASSUME at = "write" PROVE Disk!Refuse \/ WriteSome(d, TestData)
  <2>1. call.num = SYS_WRITE_FILE /\ call.arg = TestData
    BY <1>1, <1>4, <1>10 DEF Call
  <2>2. WriteArm
    BY <2>1, Numbers DEF FileCalls, OpenArm, CloseArm, LseekArm, SeekArm, FstatArm, PlainRead,
       WriteArm, FileArm, Serving
  <2> QED
    BY <1>6, <2>1, <2>2 DEF WriteArm, FileArm, Arg
<1>11. CASE at \in {"read", "reread"}
  <2>1. content[open[d].file] \in Seq(CellValues) /\ content[open[d].file] = Text
    BY <1>3, TypesOfFiles, FileTyped DEF Text
  <2>2. BufSize \in Nat
    BY CallsAssumption
  <2> DEFINE bytes == Bytes(content[open[d].file], open[d].position, BufSize)
  <2>3. /\ SameFiles /\ UNCHANGED content /\ reply' = [ret |-> Len(bytes), bytes |-> bytes]
        /\ open'[d].position = open[d].position + Len(bytes)
    BY <1>2, <1>3, <1>7, <1>11, <2>1, <2>2, ReadMoves
  <2>4. reply'.bytes = Bytes(Text, open[d].position, BufSize)
    BY <2>1, <2>3
  <2>5. open'[d].position = open[d].position + Len(reply'.bytes)
    BY <2>1, <2>3, <2>4
  <2>6. at \notin {"lseek", "seek"} /\ at # "close" /\ at # "write"
    BY <1>11
  <2> HIDE DEF bytes
  <2> QED
    BY <1>3, <2>3, <2>4, <2>5, <2>6
<1>12. CASE at \in {"lseek", "seek"}
  <2>1. SameFiles /\ open'[d].position = 0 /\ UNCHANGED content
    BY <1>2, <1>3, <1>8, <1>12, SeekMoves
  <2> QED
    BY <1>12, <2>1
<1>13. CASE at = "close"
  <2>1. open' = [open EXCEPT ![d] = Closed] /\ UNCHANGED content
    BY <1>9, <1>13 DEF Disk!Close
  <2>2. \A e \in FdNumbers \ {d} : open[e] = Closed
    BY <1>2 DEF OnlyOpen
  <2>3. AllClosed'
    BY <1>2, <2>1, <2>2 DEF AllClosed, Descriptors
  <2> QED
    BY <1>13, <2>1, <2>3
<1>14. CASE at = "write"
  <2>1. CASE Disk!Refuse
    <3>1. SameFiles /\ reply'.ret = -1 /\ UNCHANGED content
      BY <1>2, <2>1 DEF Disk!Refuse, Failed, SameFiles, Descriptors
    <3> QED
      BY <1>14, <3>1
  <2>2. CASE WriteSome(d, TestData)
    <3>1. /\ SameFiles
          /\ \E n \in 1 .. Len(TestData) :
               /\ Disk!Overwritten(content[TestFile], content'[TestFile],
                                   open[d].position, TestData, n)
               /\ reply'.ret = n
      BY <1>3, <2>2, TypesOfFiles, WriteTyped, SMTT(30)
    <3>2. \A g \in {Path, TestFile} \ {open[d].file} : content'[g] = content[g]
      BY <2>2 DEF WriteSome, Disk!Write
    <3>3. content'[Path] = content[Path]
      BY <1>3, <3>2, FileNames
    <3> QED
      BY <1>14, <3>1, <3>3 DEF Text
  <2> QED
    BY <1>10, <1>14, <2>1, <2>2
<1> QED
  BY <1>11, <1>12, <1>13, <1>14 DEF Testing

LEMMA FileArms ==
  ASSUME at # "loading", CallsInv, FilesInv, ContentsInv, FileCalls
  PROVE  FilesInv' /\ ContentsInv'
<1> DEFINE d == got["open"].ret
<1>1. /\ frames # <<>> /\ UNCHANGED <<at, got, made>> /\ ~ HasAnswer /\ HasAnswer'
      /\ (at = "app" /\ made # 0) \/ at \in Testing
      /\ at = "write" => WriteArm
      /\ FileTypes /\ FileTypes'
  <2>1. at = "write" => WriteArm
    <3>1. at = "write" => frames[1].call.num = SYS_WRITE_FILE
      BY FileArmsAsked, ScriptCalls DEF Testing
    <3> QED
      BY <3>1, Numbers DEF FileCalls, OpenArm, CloseArm, LseekArm, SeekArm, FstatArm, PlainRead,
         WriteArm, FileArm, Serving
  <2> QED
    BY <2>1, FileArmsAsked, FileArmsTyped, TypesOfFiles
<1>2. CASE at = "app" /\ made # 0
  BY <1>1, <1>2, AppFiles
<1>3. CASE at \in Testing
  <2>1. OnlyOpen(d, TestFile)
    BY <1>1, <1>3 DEF FilesInv
  <2>2. /\ at \in {"read", "reread"} =>
             /\ SameFiles /\ UNCHANGED content /\ open[d].position \in Nat
             /\ reply'.bytes = Bytes(Text, open[d].position, BufSize)
             /\ open'[d].position = open[d].position + Len(reply'.bytes)
        /\ at \in {"lseek", "seek"} =>
             SameFiles /\ UNCHANGED content /\ open'[d].position = 0
        /\ at = "close" => AllClosed' /\ UNCHANGED content
        /\ at = "write" =>
             /\ SameFiles /\ content'[Path] = content[Path]
             /\ \/ reply'.ret = -1 /\ UNCHANGED content
                \/ \E n \in 1 .. Len(TestData) :
                     /\ Disk!Overwritten(Text, Text', open[d].position, TestData, n)
                     /\ reply'.ret = n
    BY <1>3, TestArms
  <2>3. SameFiles => OnlyOpen(d, TestFile)'
    BY <1>1, <2>1 DEF SameFiles, OnlyOpen
  <2>4. FilesInv'
    <3>1. at \notin Booting \ Testing /\ at \notin {"app", "end"}
      BY <1>3 DEF Testing
    <3>2. IF at = "close" THEN AllClosed' ELSE OnlyOpen(d, TestFile)'
      BY <1>3, <2>2, <2>3 DEF Testing
    <3> HIDE DEF d
    <3>3. IF at' = "close" THEN AllClosed' ELSE OnlyOpen(got["open"].ret, TestFile)'
      BY <1>1, <3>2 DEF d
    <3> QED
      BY <1>1, <3>1, <3>3 DEF FilesInv, FileTypes
  <2>5. content'[Path] = content[Path] /\ (Untouched' <=> Untouched)
    BY <1>1, <1>3, <2>2 DEF Testing, Untouched
  <2>6. \A n : Expected(n)' = Expected(n)
    BY <1>1 DEF Expected, Start
  <2>7. SelfTestReadsBack'
    BY <1>1 DEF ContentsInv, SelfTestReadsBack
  <2>8. Place' = open'[d].position /\ Place = open[d].position
    BY <1>1 DEF Place
  <2>9. Text \in Seq(CellValues)
    BY <1>1 DEF FileTypes
  <2>10. UNCHANGED content => Text' = Text /\ Start(Text)' = Start(Text)
    BY DEF Text, Start
  <2>11. at = "read" => reply'.bytes = Start(Text)' /\ Place' = Len(Start(Text)')
    <3>1. SUFFICES ASSUME at = "read" PROVE reply'.bytes = Start(Text) /\ Place' = Len(Start(Text))
      BY <2>2, <2>10
    <3>2. open[d].position = 0
      BY <1>1, <2>8, <3>1 DEF ContentsInv
    <3>3. reply'.bytes = Start(Text)
      BY <2>2, <2>9, <3>1, <3>2, StartReads
    <3>4. Len(Start(Text)) \in Nat
      BY <2>9, StartOf
    <3> QED
      BY <2>2, <2>8, <3>1, <3>2, <3>3, <3>4
  <2>12. at = "reread" => reply'.bytes = Expected(got["write"].ret)
    <3>1. SUFFICES ASSUME at = "reread" PROVE reply'.bytes = Expected(got["write"].ret)
      OBVIOUS
    <3>2. open[d].position = 0 /\ Start(Text) = Expected(got["write"].ret)
      BY <1>1, <2>8, <3>1 DEF ContentsInv
    <3> QED
      BY <2>2, <2>9, <3>1, <3>2, StartReads
  <2>13. at = "write" =>
           frames'[1].gave \in -1 .. Len(TestData) /\ Start(Text)' = Expected(frames'[1].gave)
    <3>1. SUFFICES ASSUME at = "write"
                   PROVE frames'[1].gave \in -1 .. Len(TestData)
                         /\ Start(Text)' = Expected(frames'[1].gave)
      OBVIOUS
    <3>2. got["read"].bytes = Start(Text) /\ open[d].position = Len(Start(Text))
      BY <1>1, <2>8, <3>1 DEF ContentsInv
    <3>3. frames'[1].gave = reply'.ret
      BY <1>1, <3>1, FileArmsAsked
    <3>4. Len(TestData) \in Nat
      BY CallsAssumption
    <3>5. CASE reply'.ret = -1 /\ UNCHANGED content
      <4>1. Start(Text) = Expected(-1)
        BY <2>9, <3>2, RefusedWrite DEF Expected
      <4> QED
        BY <2>10, <3>3, <3>4, <3>5, <4>1
    <3>6. CASE \E n \in 1 .. Len(TestData) :
                 /\ Disk!Overwritten(Text, Text', open[d].position, TestData, n)
                 /\ reply'.ret = n
      <4>1. PICK n \in 1 .. Len(TestData) :
                 /\ Disk!Overwritten(Text, Text', Len(Start(Text)), TestData, n)
                 /\ reply'.ret = n
        BY <3>2, <3>6
      <4>2. Text' \in Seq(CellValues)
        BY <1>1 DEF FileTypes
      <4>3. Start(Text') = Expected(n)
        BY <2>9, <3>2, <4>1, <4>2, WriteExtends DEF Expected
      <4>4. Start(Text)' = Start(Text')
        BY DEF Start
      <4> QED
        BY <3>3, <3>4, <4>1, <4>3, <4>4
    <3> QED
      BY <2>2, <3>1, <3>5, <3>6
  <2>14. at \in {"lseek", "seek"} =>
           /\ Place' = 0 /\ Start(Text)' = Start(Text)
    BY <2>2, <2>8, <2>10
  <2>15. at \in {"lseek", "seek", "reread"} =>
           Start(Text)' = Expected(got["write"].ret)
    BY <2>2, <2>10 DEF ContentsInv
  <2>16. Expected(got["write"].ret)' = Expected(got["write"].ret)
    BY <1>1 DEF Expected, Start
  <2>17. Expected(frames[1].gave)' = Expected(frames'[1].gave)
    BY <1>1 DEF Expected, Start
  <2> QED
    BY <1>1, <2>4, <2>5, <2>7, <2>11, <2>12, <2>13, <2>14, <2>15, <2>16, <2>17
       DEF ContentsInv
<1> QED
  BY <1>1, <1>2, <1>3

LEMMA KernelReturnsFiles ==
  ASSUME CallsInv, MemoryInv, FilesInv, ContentsInv, ReturnToKernel
  PROVE  FilesInv' /\ ContentsInv'
<1>1. /\ at \in DOMAIN Script /\ at' = Afterwards[at] /\ HasAnswer /\ ~ HasAnswer'
      /\ DOMAIN got = Steps /\ DOMAIN got' = Steps
      /\ \A s \in Steps \ {at} : got'[s] = got[s]
      /\ UNCHANGED <<content, open, reply, made>>
  BY KernelReturns DEF ReturnToKernel, store, MemoryInv, Taken
<1>2. /\ at \in {"read", "reread"} => got'[at].bytes = reply.bytes
      /\ at = "write" => got'[at].ret = frames[1].gave
  <2>1. /\ frames # <<>> /\ frames[1].stage = "done" /\ at \in Steps
        /\ got' = [got EXCEPT ![at] =
                     [ret |-> IF ByPointer THEN word ELSE SYSCALL_RET,
                      bytes |-> IF frames[1].call.num = SYS_READ_FILE THEN reply.bytes
                                ELSE <<>>]]
    BY DEF ReturnToKernel, Iret, Answer
  <2>2. at \in {"read", "write", "reread"} => frames[1].call = Script[at]
    BY <2>1, Asked DEF Testing
  <2>3. /\ at \in {"read", "reread"} => frames[1].call.num = SYS_READ_FILE
        /\ at = "write" => frames[1].call.num = SYS_WRITE_FILE
    BY <2>2, ScriptCalls
  <2>4. at = "write" => ~ ByPointer /\ frames[1].gave = SYSCALL_RET
    BY <2>1, <2>3, Numbers DEF ByPointer, CallsInv, Answers
  <2> QED
    BY <1>1, <2>1, <2>3, <2>4
<1>3. /\ at \in {"mget", "read", "write", "lseek", "seek", "reread", "close", "mmap", "munmap",
                "remap", "container"}
      /\ at = "mget" => at' = "open"
      /\ at = "read" => at' = "write"
      /\ at = "write" => at' = "lseek"
      /\ at = "lseek" => at' = "seek"
      /\ at = "seek" => at' = "reread"
      /\ at = "reread" => at' = "close"
      /\ at = "close" => at' = "mmap"
      /\ at = "mmap" => at' = "munmap"
      /\ at = "munmap" => at' = "remap"
      /\ at = "remap" => at' = "container"
      /\ at = "container" => at' = "load"
  <2>1. at \in Testing \cup MemorySteps \cup {"munmap"}
    BY <1>1, ScriptSteps
  <2> QED
    BY <1>1, <2>1 DEF Afterwards, Testing, MemorySteps
<1>4. /\ at \in Testing => IF at = "close" THEN AllClosed ELSE OnlyOpen(got["open"].ret, TestFile)
      /\ at \notin Testing => AllClosed
      /\ got'["open"] = got["open"] /\ "open" \in Steps /\ at # "open"
  BY <1>1, ScriptSteps DEF FilesInv, Booting
<1>5. FilesInv'
  <2>1. FileTypes'
    BY <1>1, TypesOfFiles DEF FileTypes, Descriptors, Text
  <2>2. AllClosed' <=> AllClosed
    BY <1>1 DEF AllClosed
  <2>3. OnlyOpen(got["open"].ret, TestFile)' <=> OnlyOpen(got["open"].ret, TestFile)
    BY <1>1, <1>4 DEF OnlyOpen
  <2>4. at' \in Testing => at \in Testing /\ at # "close"
    <3>1. at = "mget" => at' = "open"
      BY <1>3
    <3> QED
      BY <1>3 DEF Testing
  <2>5. at' \in Booting \ Testing => at \notin Testing \/ at = "close"
    BY <1>3 DEF Testing
  <2>6. at' \notin {"app", "end"}
    BY <1>3
  <2> QED
    BY <1>1, <1>4, <2>1, <2>2, <2>3, <2>4, <2>5, <2>6 DEF FilesInv, FileTypes
<1>6. /\ Place' = Place /\ Start(Text)' = Start(Text) /\ Untouched' = Untouched
      /\ content[Path] \in Programs
  <2>1. at \in Steps /\ at' \in Steps \cup {"load"}
    BY <1>1, <1>3, ScriptSteps DEF Testing, MemorySteps
  <2>2. Untouched /\ Untouched'
    BY <2>1 DEF Untouched, Booting
  <2> QED
    BY <1>1, <1>4, <2>2 DEF Place, Start, Text, ContentsInv
<1>7. ASSUME at \notin {"read"}
      PROVE  \A n : Expected(n)' = Expected(n)
  BY <1>1, <1>7, ScriptSteps DEF Expected, Start, Testing
<1>8. SelfTestReadsBack'
  <2>1. CASE at = "reread"
    <3>1. got'["reread"].bytes = Expected(got["write"].ret)
      BY <1>1, <1>2, <2>1 DEF ContentsInv
    <3>2. got'["write"] = got["write"] /\ got'["read"] = got["read"]
      BY <1>1, <2>1, ScriptSteps DEF Testing
    <3> QED
      BY <3>1, <3>2 DEF SelfTestReadsBack, Expected, Start
  <2>2. CASE at # "reread" /\ at' \in Tested
    <3>1. at \in Tested /\ at \notin {"read", "write", "reread", "open"}
      BY <1>3, <2>2, ScriptSteps DEF Tested, Testing, MemorySteps
    <3>2. got'["write"] = got["write"] /\ got'["read"] = got["read"]
          /\ got'["reread"] = got["reread"]
      BY <1>1, <3>1, ScriptSteps DEF Testing
    <3> QED
      BY <1>4, <3>1, <3>2 DEF SelfTestReadsBack, ContentsInv
  <2>3. CASE at' \notin Tested
    BY <2>3 DEF SelfTestReadsBack
  <2> QED
    BY <2>1, <2>2, <2>3
<1>9. CASE at = "read"
  <2>1. at' = "write" /\ got'["read"].bytes = Start(Text)' /\ Place' = Len(Start(Text)')
    BY <1>1, <1>2, <1>3, <1>6, <1>9 DEF ContentsInv
  <2> QED
    BY <1>1, <1>5, <1>6, <1>8, <2>1 DEF ContentsInv
<1>10. CASE at = "write"
  <2>1. /\ at' = "lseek" /\ got'["write"].ret = frames[1].gave
        /\ Start(Text) = Expected(frames[1].gave)
    BY <1>1, <1>2, <1>3, <1>10 DEF ContentsInv
  <2>2. Expected(got["write"].ret)' = Expected(frames[1].gave)
    BY <1>1, <1>10, <2>1, ScriptSteps DEF Expected, Start, Testing
  <2> QED
    BY <1>1, <1>5, <1>6, <1>8, <2>1, <2>2 DEF ContentsInv
<1>11. CASE at \in {"lseek", "seek"}
  <2>1. /\ at' \in {"seek", "reread"} /\ got'["write"] = got["write"]
        /\ got'["read"] = got["read"] /\ Place = 0
    BY <1>1, <1>3, <1>11, ScriptSteps DEF ContentsInv, Testing
  <2>2. Expected(got["write"].ret)' = Expected(got["write"].ret)
    BY <2>1 DEF Expected, Start
  <2> QED
    BY <1>1, <1>5, <1>6, <1>8, <1>11, <2>1, <2>2 DEF ContentsInv
<1>12. CASE at \notin {"read", "write", "lseek", "seek"}
  <2>1. at' \notin {"read", "write", "lseek", "seek", "reread"}
    BY <1>3, <1>12
  <2> QED
    BY <1>1, <1>5, <1>6, <1>8, <2>1 DEF ContentsInv
<1> QED
  BY <1>9, <1>10, <1>11, <1>12

LEMMA OpensTest ==
  ASSUME CallsInv, MemoryInv, FilesInv, ContentsInv, OpenTest
  PROVE  FilesInv' /\ ContentsInv'
<1>1. /\ at = "open" /\ frames' = frames /\ frames = <<>> /\ UNCHANGED made
      /\ AllClosed /\ content[Path] \in Programs
      /\ DOMAIN got = Steps /\ got' = [got EXCEPT !["open"] = [ret |-> reply'.ret, bytes |-> <<>>]]
      /\ "open" \in Steps /\ at \notin Testing
  <2>1. at = "open" /\ "open" \in Booting \ Testing /\ at \notin DOMAIN Script /\ at # "app"
    BY ScriptSteps DEF OpenTest, Booting, Testing
  <2> QED
    BY <2>1, ScriptSteps
       DEF OpenTest, CallsInv, Callers, MemoryInv, Taken, FilesInv, ContentsInv, Untouched
<1>2. ~ HasAnswer' /\ got'["open"].ret = reply'.ret
  BY <1>1 DEF HasAnswer
<1>3. CASE Disk!Open(TestFile) /\ at' = "read"
  <2>1. PICK d \in FdNumbers :
          /\ open' = [open EXCEPT ![d] = [file |-> TestFile, position |-> 0]]
          /\ reply' = Disk!Returned(d) /\ UNCHANGED content
    BY <1>3 DEF Disk!Open
  <2> DEFINE e == [file |-> TestFile, position |-> 0]
  <2>2. /\ e \in [file : {Path, TestFile}, position : Nat] /\ e # Closed
        /\ e.file = TestFile /\ e.position = 0
    BY CallsAssumption
  <2>3. reply'.ret = d
    BY <2>1 DEF Disk!Returned
  <2>4. open \in [FdNumbers -> [file : {Path, TestFile}, position : Nat] \cup {Closed}]
    BY DEF FilesInv, Descriptors
  <2> HIDE DEF e
  <2>5. /\ Descriptors' /\ open'[d] = e /\ \A c \in FdNumbers \ {d} : open'[c] = Closed
    BY <1>1, <2>1, <2>2, <2>4 DEF Descriptors, AllClosed, e
  <2>6. OnlyOpen(got["open"].ret, TestFile)' /\ Place' = 0
    BY <1>2, <2>2, <2>3, <2>5 DEF OnlyOpen, Place
  <2>7. FilesInv'
    BY <1>2, <1>3, <2>1, <2>5, <2>6 DEF FilesInv, Text, Booting, Testing
  <2>8. at' \notin Tested
    BY <1>3 DEF Tested
  <2> QED
    BY <1>1, <1>2, <1>3, <2>1, <2>6, <2>7, <2>8 DEF ContentsInv, SelfTestReadsBack
<1>4. CASE Disk!Refuse /\ at' = "mmap"
  <2>1. /\ UNCHANGED <<content, open>> /\ ~ (got'["open"].ret > 0)
    BY <1>2, <1>4 DEF Disk!Refuse, Failed
  <2>2. FilesInv'
    BY <1>1, <1>4, <2>1 DEF FilesInv, Descriptors, AllClosed, Text, Testing
  <2> QED
    BY <1>1, <1>4, <2>1, <2>2 DEF ContentsInv, SelfTestReadsBack
<1> QED
  BY <1>3, <1>4 DEF OpenTest

(* Steps between calls.                                                    *)
LEMMA BootMovesFiles ==
  ASSUME CallsInv, FilesInv, ContentsInv, File,
         BootCalls \/ AppMakesCall \/ CallLoadElf \/ LoadReturns \/ ReturnToApp \/ AppReturns
  PROVE  FilesInv' /\ ContentsInv'
<1>1. CASE BootCalls
  <2>1. /\ frames = <<>> /\ UNCHANGED <<content, open, reply, got, at, made>>
        /\ \E call : Int80(call)
    BY <1>1 DEF BootCalls, store
  <2>2. frames' # <<>> /\ frames'[1].stage = "new"
    BY <2>1 DEF Int80
  <2>3. ~ HasAnswer /\ ~ HasAnswer'
    BY <2>1, <2>2 DEF HasAnswer
  <2> QED
    BY <2>1, <2>3, QuietFiles
<1>2. CASE CallLoadElf \/ LoadReturns \/ ReturnToApp \/ AppReturns \/ AppMakesCall
  <2>1. /\ UNCHANGED <<content, open, got>>
        /\ at' \in {"loading", "app", "spin", "end"}
    BY <1>2 DEF CallLoadElf, LoadReturns, ReturnToApp, AppReturns, AppMakesCall, LoadElf, store
  <2>2. /\ Untouched' => Untouched
        /\ at' \in {"app", "end"} /\ made' = 0 => AllClosed
    <3>1. CASE CallLoadElf \/ LoadReturns \/ AppReturns
      <4>1. /\ UNCHANGED made
            /\ \/ at = "load" /\ at' = "loading"
               \/ at = "loading" /\ pc = "idle"
               \/ at = "app" /\ at' = "end"
        BY <3>1 DEF CallLoadElf, LoadReturns, AppReturns
      <4>2. {"app", "end"} \cap Booting = {} /\ "load" \in Booting
        BY ScriptSteps DEF Booting
      <4>3. ASSUME at = "loading", pc = "idle" PROVE lpc = "idle"
        <5>1. ~ HasAnswer
          BY <4>3, NotAsking DEF HasAnswer
        <5> QED
          BY <4>3, <5>1 DEF lpc, Pending
      <4> QED
        BY <4>1, <4>2, <4>3 DEF Untouched, File, FilesInv
    <3>2. CASE ReturnToApp \/ AppMakesCall
      <4>1. made' # 0 /\ at' # "loading" /\ at' \in {"app", "spin"}
        <5>1. CASE AppMakesCall
          BY <5>1 DEF AppMakesCall, CallsInv, Callers
        <5>2. CASE ReturnToApp
          <6>1. frames # <<>> /\ at = "app" /\ UNCHANGED made /\ at' \in {"app", "spin"}
            BY <5>2 DEF ReturnToApp, Iret
          <6> QED
            BY <6>1, Asked
        <5> QED
          BY <3>2, <5>1, <5>2
      <4>2. at' \notin Booting
        BY <4>1, ScriptSteps DEF Booting
      <4> QED
        BY <4>1, <4>2 DEF Untouched
    <3> QED
      BY <1>2, <3>1, <3>2
  <2>3. at' \notin Booting \cup Testing \cup Tested
    BY <2>1, ScriptSteps DEF Booting, Testing, Tested
  <2>4. FilesInv'
    BY <2>1, <2>2, <2>3 DEF FilesInv, Descriptors, Text, AllClosed
  <2> QED
    BY <2>1, <2>2, <2>3, <2>4 DEF ContentsInv, SelfTestReadsBack
<1> QED
  BY <1>1, <1>2

LEMMA LoadingFiles ==
  ASSUME FilesInv, ContentsInv, at = "loading", UNCHANGED <<at, got, made>>,
         UNCHANGED content, Descriptors'
  PROVE  FilesInv' /\ ContentsInv'
<1>1. UNCHANGED <<at, got, made>> /\ at' \notin Booting \cup Testing \cup Tested
      /\ at' \notin {"app", "end"}
  BY ScriptSteps DEF Booting, Testing, Tested
<1>2. FilesInv'
  BY <1>1 DEF FilesInv, Text
<1> QED
  BY <1>1, <1>2 DEF ContentsInv, SelfTestReadsBack, Untouched

-----------------------------------------------------------------------------
(* The loader.  Pages and cells first.                                     *)
LEMMA DivBounds ==
  ASSUME NEW c \in Nat, NEW p \in Nat \ {0}
  PROVE  c \div p \in Nat /\ (c \div p) * p <= c /\ c < (c \div p) * p + p
  OBVIOUS

LEMMA InsideRun ==
  ASSUME NEW p \in Nat \ {0}, NEW q \in Nat, NEW n \in Nat, NEW c \in Nat,
         q * p <= c, c < q * p + n * p
  PROVE  c \div p \in q .. (q + n - 1)
<1> DEFINE d == c \div p
<1>1. d \in Nat /\ d * p <= c /\ c < d * p + p
  BY DivBounds
<1> HIDE DEF d
<1>2. q <= d
  <2> SUFFICES ASSUME d + 1 <= q PROVE FALSE
    BY <1>1
  <2>1. (d + 1) * p <= q * p
    BY <1>1
  <2> QED
    BY <2>1, <1>1
<1>3. d < q + n
  <2> SUFFICES ASSUME q + n <= d PROVE FALSE
    BY <1>1
  <2>1. (q + n) * p <= d * p
    BY <1>1
  <2> QED
    BY <2>1, <1>1
<1> QED
  BY <1>1, <1>2, <1>3 DEF d

LEMMA EnoughPages ==
  ASSUME NEW n \in Nat
  PROVE  /\ Pages(n) \in Nat /\ n <= Pages(n) * PageSize
         /\ n > 0 => Pages(n) > 0
<1> DEFINE d == (n + PageSize - 1) \div PageSize
<1>1. PageSize \in Nat \ {0} /\ n + PageSize - 1 \in Nat
  BY MemoryAssumption
<1>2. /\ d \in Nat /\ d * PageSize <= n + PageSize - 1
      /\ n + PageSize - 1 < d * PageSize + PageSize
  BY <1>1, DivBounds
<1> QED
  BY <1>1, <1>2 DEF Pages

LEMMA CellsAre ==
  /\ \A c : c \in Cells <=> c \in Nat /\ c < PageSize * Cardinality(Sectors)
  /\ PageSize \in Nat \ {0} /\ Cardinality(Sectors) \in Nat
<1>1. PageSize \in Nat \ {0} /\ Cardinality(Sectors) \in Nat
  BY MemoryAssumption, Beyond
<1>2. PageSize * Cardinality(Sectors) \in Nat
  BY <1>1
<1> QED
  BY <1>1, <1>2 DEF Cells

(* A cell of a run that was given out is on one of its pages.              *)
LEMMA OnItsPage ==
  ASSUME NEW q \in Sectors, NEW n \in Nat, NEW c \in Nat, c < n
  PROVE  /\ Address(q) + c \in Nat
         /\ (Address(q) + c) \div PageSize \in Ram!Span(q, Pages(n))
<1>1. q \in Nat /\ PageSize \in Nat \ {0} /\ Address(q) = q * PageSize /\ q * PageSize \in Nat
  BY Beyond, CellsAre DEF Address
<1>2. Pages(n) \in Nat /\ n <= Pages(n) * PageSize /\ Pages(n) * PageSize \in Nat
  BY <1>1, EnoughPages
<1> DEFINE a == q * PageSize
           m == Pages(n)
           k == a + c
<1>3. a \in Nat /\ k \in Nat /\ a <= k /\ k < a + m * PageSize
  BY <1>1, <1>2
<1> HIDE DEF m, k
<1>4. k \div PageSize \in q .. (q + m - 1)
  BY <1>1, <1>2, <1>3, InsideRun DEF m
<1> QED
  BY <1>1, <1>3, <1>4 DEF k, m, Ram!Span

LEMMA BeyondCells ==
  ASSUME NEW c \in Nat
  PROVE  Address(Nowhere) + c \notin Cells
<1>1. /\ PageSize \in Nat \ {0} /\ Cardinality(Sectors) \in Nat
      /\ Nowhere \in Nat /\ Nowhere >= Cardinality(Sectors)
  BY Beyond, CellsAre
<1>2. Nowhere * PageSize >= PageSize * Cardinality(Sectors)
  BY <1>1
<1>3. Address(Nowhere) + c >= PageSize * Cardinality(Sectors)
  BY <1>1, <1>2 DEF Address
<1> QED
  BY <1>1, <1>3, CellsAre

LEMMA BootHasStays == UNCHANGED got => BootHas' = BootHas
  BY DEF BootHas

(* So one that is mapped is on a page of the run.                          *)
LEMMA MappedRun ==
  ASSUME NEW place, NEW n \in Nat, Run(place, n), NEW c \in Nat, c < n, place + c \in Cells
  PROVE  \E r \in held \ BootHas :
           (place + c) \div PageSize \in Ram!Span(r.start, r.pages)
<1>1. PICK q \in Sectors \cup {Nowhere} :
        place = Address(q) /\ (q # Nowhere => Ram!Region(q, Pages(n)) \in held \ BootHas)
  BY DEF Run
<1>2. q \in Sectors /\ Ram!Region(q, Pages(n)) \in held \ BootHas
  BY <1>1, BeyondCells
<1>3. (place + c) \div PageSize \in Ram!Span(q, Pages(n))
  BY <1>1, <1>2, OnItsPage
<1> QED
  BY <1>2, <1>3 DEF Ram!Region

(* The run an allocation gives is apart from those already given.          *)
LEMMA FreshRun ==
  ASSUME RunsApart, NEW n \in Nat, NEW place, Run(place, n),
         NEW m \in Nat, Ram!Allocate(Pages(m)),
         NEW c \in Nat, c < n, place + c \in Cells, NEW d \in Nat, d < m
  PROVE  place + c # Address(result') + d
<1>1. Pages(m) \in Nat
  BY EnoughPages
<1>2. /\ result' \in Sectors \cup {Nowhere}
      /\ result' # Nowhere => Ram!Span(result', Pages(m)) \subseteq free
  BY <1>1, AllocateRuns
<1>3. CASE result' = Nowhere
  BY <1>3, BeyondCells
<1>4. CASE result' # Nowhere
  <2>1. PICK r \in held \ BootHas : (place + c) \div PageSize \in Ram!Span(r.start, r.pages)
    BY MappedRun
  <2>2. (place + c) \div PageSize \notin free
    BY <2>1 DEF RunsApart
  <2>3. (Address(result') + d) \div PageSize \in Ram!Span(result', Pages(m))
    BY <1>2, <1>4, OnItsPage
  <2> QED
    BY <1>2, <1>4, <2>2, <2>3
<1> QED
  BY <1>3, <1>4

LEMMA AllocatedRun ==
  ASSUME RunsApart, BootHas \subseteq held, UNCHANGED got,
         NEW m \in Nat, Ram!Allocate(Pages(m)), NEW place, place = Address(result')
  PROVE  Run(place, m)'
<1>1. Pages(m) \in Nat
  BY EnoughPages
<1>2. /\ result' \in Sectors \cup {Nowhere}
      /\ result' # Nowhere =>
           /\ Ram!Region(result', Pages(m)) \in held'
           /\ Pages(m) > 0 /\ Ram!Span(result', Pages(m)) \subseteq free
  BY <1>1, AllocateRuns
<1>3. BootHas' = BootHas
  BY BootHasStays
<1>4. ASSUME result' # Nowhere PROVE Ram!Region(result', Pages(m)) \notin BootHas
  <2>1. result' \in Nat /\ result' \in Ram!Span(result', Pages(m))
    BY <1>1, <1>2, <1>4, Beyond DEF Ram!Span
  <2>2. ASSUME Ram!Region(result', Pages(m)) \in held PROVE FALSE
    <3>1. Ram!Region(result', Pages(m)).start = result'
          /\ Ram!Region(result', Pages(m)).pages = Pages(m)
      BY DEF Ram!Region
    <3>2. Ram!Span(result', Pages(m)) \cap free = {}
      BY <2>2, <3>1 DEF RunsApart
    <3> QED
      BY <1>2, <1>4, <2>1, <3>2
  <2> QED
    BY <2>2
<1> QED
  BY <1>2, <1>3, <1>4 DEF Run

(* What the header and the program headers of a file say.                  *)
LEMMA HeaderSays ==
  ASSUME HeaderIs, Program \in Programs
  PROVE  /\ Program \in Seq(CellValues)
         /\ lheader.phnum \in Nat /\ lheader.phoff \in Nat
         /\ lheader.phoff + lheader.phnum <= Len(Program)
         /\ \A k \in Table :
              /\ k \in Nat /\ k + 1 \in 1 .. Program[1].phnum /\ k < lheader.phnum
              /\ Segment(k) = Program[lheader.phoff + k + 1]
              /\ Segment(k).load \in BOOLEAN /\ Segment(k).offset \in Nat
              /\ Segment(k).vaddr \in Nat /\ Segment(k).filesz \in Nat
              /\ Segment(k).memsz \in Nat /\ Segment(k).filesz <= Segment(k).memsz
<1>1. /\ Program \in Seq(CellValues) /\ Program # <<>> /\ lheader = Program[1]
      /\ lheader.kind = "header"
      /\ Program[1].phoff + Program[1].phnum <= Len(Program)
      /\ \A k \in 1 .. Program[1].phnum :
              /\ Segments(Program)[k].kind = "phdr"
              /\ Segments(Program)[k].filesz <= Segments(Program)[k].memsz
  BY ProgramAssumption DEF HeaderIs
<1>2. lheader \in CellValues /\ Len(Program) \in Nat
  BY <1>1
<1>3. \A x \in CellValues : x.kind = "header" => x.phoff \in Nat /\ x.phnum \in Nat
  BY DEF CellValues, Stale
<1>4. \A x \in CellValues : x.kind = "phdr" =>
        /\ x.load \in BOOLEAN /\ x.offset \in Nat /\ x.vaddr \in Nat /\ x.filesz \in Nat
        /\ x.memsz \in Nat
  BY DEF CellValues, Stale
<1>5. lheader.phnum \in Nat /\ lheader.phoff \in Nat
  BY <1>1, <1>2, <1>3
<1>6. ASSUME NEW k \in Table
      PROVE  /\ k \in Nat /\ k + 1 \in 1 .. Program[1].phnum /\ k < lheader.phnum
             /\ Segment(k) = Program[lheader.phoff + k + 1]
             /\ Segment(k).load \in BOOLEAN /\ Segment(k).offset \in Nat
             /\ Segment(k).vaddr \in Nat /\ Segment(k).filesz \in Nat
             /\ Segment(k).memsz \in Nat /\ Segment(k).filesz <= Segment(k).memsz
  <2>1. k \in Nat /\ k < lheader.phnum /\ k + 1 \in 1 .. Program[1].phnum
    BY <1>1, <1>5 DEF Table
  <2>2. Segment(k) = Program[lheader.phoff + (k + 1)]
    BY <1>1, <2>1 DEF Segment, Segments
  <2>3. lheader.phoff + (k + 1) \in 1 .. Len(Program) /\ lheader.phoff + (k + 1) = lheader.phoff + k + 1
    <3>1. ASSUME NEW off \in Nat, NEW num \in Nat, NEW len \in Nat, off + num <= len, k < num
          PROVE  off + (k + 1) \in 1 .. len /\ off + (k + 1) = off + k + 1
      BY <2>1, <3>1
    <3> QED
      BY <1>1, <1>2, <1>5, <2>1, <3>1
  <2>4. Segment(k) \in CellValues
    BY <1>1, <2>2, <2>3
  <2>5. Segment(k).kind = "phdr" /\ Segment(k).filesz <= Segment(k).memsz
    BY <1>1, <2>1 DEF Segment
  <2> QED
    BY <1>4, <2>1, <2>2, <2>3, <2>4, <2>5
<1> QED
  BY <1>1, <1>5, <1>6

(* What is kept in a step that moves neither memory's cells nor locals.    *)
LEMMA KeptByStep ==
  ASSUME UNCHANGED <<content, mem, lheader, lphdr_mem, lbase_addr, min_vaddr, max_vaddr>>,
         held \subseteq held', UNCHANGED got
  PROVE  /\ HeaderIs => HeaderIs'
         /\ Run(lphdr_mem, lheader.phnum) => Run(lphdr_mem, lheader.phnum)'
         /\ TableIs => TableIs'
         /\ MeasureIs => MeasureIs'
         /\ Run(lbase_addr, TotalSize) /\ Beside => (Run(lbase_addr, TotalSize) /\ Beside)'
         /\ \A n : CopiedUpTo(n) => CopiedUpTo(n)'
         /\ Program' = Program /\ Table' = Table /\ Image' = Image
         /\ \A k : LPhdr(k)' = LPhdr(k) /\ Segment(k)' = Segment(k)
<1>1. /\ Program' = Program /\ Table' = Table /\ Image' = Image /\ TotalSize' = TotalSize
      /\ \A k : LPhdr(k)' = LPhdr(k) /\ Segment(k)' = Segment(k)
  BY DEF Program, Table, Image, TotalSize, LPhdr, Segment
<1>2. HeaderIs => HeaderIs'
  BY <1>1 DEF HeaderIs
<1>3. /\ Run(lphdr_mem, lheader.phnum) => Run(lphdr_mem, lheader.phnum)'
      /\ Run(lbase_addr, TotalSize) => Run(lbase_addr, TotalSize)'
  BY <1>1, BootHasStays DEF Run
<1>4. TableIs => TableIs'
  BY <1>1 DEF TableIs
<1>5. MeasureIs => MeasureIs'
  BY <1>1 DEF MeasureIs
<1>6. Beside => Beside'
  BY <1>1 DEF Beside
<1>7. \A n : CopiedUpTo(n) => CopiedUpTo(n)'
  BY <1>1 DEF CopiedUpTo, CellIs
<1> QED
  BY <1>1, <1>2, <1>3, <1>4, <1>5, <1>6, <1>7

(* load_elf with each of its calls as one step, the one at which the       *)
(* handler serves it.                                                      *)
FileCall(call) == call /\ UNCHANGED <<free, held>>
NoCall == UNCHANGED <<content, open, free, held>>
LThen(next) == lpc' = next /\ UNCHANGED lloaded

LStoreCells(a, cells, next) ==
  IF Mapped(a, Len(cells))
  THEN mem' = Written(a, cells) /\ LThen(next)
  ELSE UNCHANGED mem /\ LThen("fault")

LReadInto(a, count, next) ==
  /\ FileCall(IF count = 0 THEN Disk!Refuse ELSE Disk!Read(lfd, count))
  /\ LStoreCells(a, reply'.bytes, next)

LStays == UNCHANGED <<mem, lpc, llocals, lloaded>> /\ NoCall

LOpen ==
  /\ lpc = "open" /\ FileCall(Disk!Open(Path)) /\ lfd' = reply'.ret /\ LThen("seek_header")
  /\ UNCHANGED <<mem, lheader, lphdr_mem, min_vaddr, max_vaddr, lbase_addr, li>>
LOpenFails ==
  /\ lpc = "open" /\ FileCall(Disk!Refuse) /\ LThen("idle")
  /\ UNCHANGED <<mem, lheader, lphdr_mem, min_vaddr, max_vaddr, lbase_addr, li>>
LSeekHeader ==
  /\ lpc = "seek_header" /\ FileCall(Disk!SeekTo(lfd, 0)) /\ LThen("read_header")
  /\ UNCHANGED <<mem, llocals>>
LReadHeader ==
  /\ lpc = "read_header" /\ FileCall(Disk!Read(lfd, 1))
  /\ IF reply'.ret = 1 /\ reply'.bytes[1].kind = "header" /\ reply'.bytes[1].elf
     THEN lheader' = reply'.bytes[1] /\ LThen("map_table")
     ELSE UNCHANGED lheader /\ LThen("reject")
  /\ UNCHANGED <<mem, lfd, lphdr_mem, min_vaddr, max_vaddr, lbase_addr, li>>
LReject ==
  /\ lpc = "reject" /\ FileCall(Disk!Close(lfd)) /\ LThen("idle")
  /\ UNCHANGED <<mem, llocals>>
LTableMapped ==
  /\ lpc = "map_table" /\ Ram!Allocate(Pages(lheader.phnum))
  /\ lphdr_mem' = Address(result') /\ LThen("seek_table")
  /\ UNCHANGED <<content, open, mem, lfd, lheader, min_vaddr, max_vaddr, lbase_addr, li>>
LSeekTable ==
  /\ lpc = "seek_table" /\ FileCall(Disk!SeekTo(lfd, lheader.phoff)) /\ LThen("read_table")
  /\ UNCHANGED <<mem, llocals>>
LReadTable ==
  /\ lpc = "read_table" /\ LReadInto(lphdr_mem, lheader.phnum, "measure")
  /\ UNCHANGED llocals
LMeasure ==
  /\ lpc = "measure"
  /\ IF LLoadable = {}
     THEN LThen("reject") /\ UNCHANGED <<min_vaddr, max_vaddr>>
     ELSE /\ \E k \in LLoadable :
               /\ min_vaddr' = LPhdr(k).vaddr
               /\ \A l \in LLoadable : LPhdr(k).vaddr <= LPhdr(l).vaddr
          /\ \E k \in LLoadable :
               /\ max_vaddr' = LPhdr(k).vaddr + LPhdr(k).memsz
               /\ \A l \in LLoadable : LPhdr(l).vaddr + LPhdr(l).memsz
                                         <= LPhdr(k).vaddr + LPhdr(k).memsz
          /\ LThen("map_image")
  /\ NoCall /\ UNCHANGED <<mem, lfd, lheader, lphdr_mem, lbase_addr, li>>
LImageMapped ==
  /\ lpc = "map_image" /\ Ram!Allocate(Pages(TotalSize))
  /\ lbase_addr' = Address(result') /\ LThen("zero")
  /\ UNCHANGED <<content, open, mem, lfd, lheader, lphdr_mem, min_vaddr, max_vaddr, li>>
LZeroImage ==
  /\ lpc = "zero" /\ LStoreCells(lbase_addr, [c \in 1 .. TotalSize |-> Zero], "segment")
  /\ li' = 0
  /\ NoCall /\ UNCHANGED <<lfd, lheader, lphdr_mem, min_vaddr, max_vaddr, lbase_addr>>
LSkipSegment ==
  /\ lpc = "segment" /\ li < lheader.phnum /\ ~ LCopied(li)
  /\ LThen("segment") /\ li' = li + 1
  /\ NoCall /\ UNCHANGED <<mem, lfd, lheader, lphdr_mem, min_vaddr, max_vaddr, lbase_addr>>
LCopySegment ==
  /\ lpc = "segment" /\ li < lheader.phnum /\ LCopied(li) /\ LThen("seek_segment")
  /\ NoCall /\ UNCHANGED <<mem, llocals>>
LSeekSegment ==
  /\ lpc = "seek_segment" /\ FileCall(Disk!SeekTo(lfd, LPhdr(li).offset))
  /\ LThen("read_segment")
  /\ UNCHANGED <<mem, llocals>>
LReadSegment ==
  /\ lpc = "read_segment"
  /\ LReadInto(lbase_addr - min_vaddr + LPhdr(li).vaddr, LPhdr(li).filesz, "segment")
  /\ lpc' # "fault" => li' = li + 1
  /\ UNCHANGED <<lfd, lheader, lphdr_mem, min_vaddr, max_vaddr, lbase_addr>>
LAllCopied ==
  /\ lpc = "segment" /\ li = lheader.phnum /\ LThen("close")
  /\ NoCall /\ UNCHANGED <<mem, llocals>>
LFinish ==
  /\ lpc = "close" /\ FileCall(Disk!Close(lfd)) /\ lpc' = "idle"
  /\ lloaded' = [base_addr |-> lbase_addr, size |-> TotalSize]
  /\ UNCHANGED <<mem, llocals>>

LStep ==
  \/ LStays \/ LOpen \/ LOpenFails \/ LSeekHeader \/ LReadHeader \/ LReject
  \/ LTableMapped \/ LSeekTable \/ LReadTable \/ LMeasure \/ LImageMapped
  \/ LZeroImage \/ LSkipSegment \/ LCopySegment \/ LSeekSegment \/ LReadSegment
  \/ LAllCopied \/ LFinish

Loads ==
  /\ LoadInv /\ BootHas \subseteq held
  /\ RunsApart /\ FileTypes /\ Program \in Programs /\ at = "loading"

LoadsOn ==
  /\ LoadInv' /\ Descriptors' /\ UNCHANGED content
  /\ UNCHANGED <<free, held>> \/ \E k \in Nat : Ram!Allocate(k)

LEMMA FileOpen ==
  ASSUME Loads, lpc \in FdOpen
  PROVE  /\ lfd \in FdNumbers /\ open[lfd] # Closed /\ open[lfd].file = Path
         /\ content[open[lfd].file] = Program /\ Program \in Seq(CellValues)
         /\ open[lfd].position \in Nat /\ Descriptors /\ OnlyOpen(lfd, Path)
<1>1. OnlyOpen(lfd, Path) /\ Descriptors /\ Program \in Seq(CellValues)
  BY DEF Loads, LoadInv, File, FileTypes, Program
<1> QED
  BY <1>1, DescriptorOpen DEF OnlyOpen, Program

LEMMA StaysOpen ==
  ASSUME NEW d, OnlyOpen(d, Path), SameFiles
  PROVE  /\ d \in FdNumbers /\ open'[d] # Closed /\ open'[d].file = Path
         /\ \A e \in FdNumbers \ {d} : open'[e] = Closed
  BY DEF OnlyOpen, SameFiles

LEMMA LoaderSeeks ==
  ASSUME Loads, lpc \in FdOpen, NEW p \in Nat, FileCall(Disk!SeekTo(lfd, p)), UNCHANGED lfd
  PROVE  /\ OnlyOpen(lfd, Path)' /\ open'[lfd].position = p
         /\ Descriptors' /\ UNCHANGED <<content, free, held>>
<1>1. SameFiles /\ open'[lfd].position = p /\ UNCHANGED content /\ UNCHANGED <<free, held>>
  BY FileOpen, SeekMoves DEF FileCall
<1> QED
  BY <1>1, FileOpen, StaysOpen DEF OnlyOpen, SameFiles

LEMMA LoaderReads ==
  ASSUME Loads, lpc \in FdOpen, NEW k \in Nat, FileCall(Disk!Read(lfd, k)), UNCHANGED lfd
  PROVE  LET bytes == Bytes(Program, open[lfd].position, k)
         IN  /\ OnlyOpen(lfd, Path)'
             /\ reply'.ret = Len(bytes) /\ reply'.bytes = bytes
             /\ Descriptors' /\ UNCHANGED <<content, free, held>>
<1>1. UNCHANGED <<free, held>> /\ Disk!Read(lfd, k)
  BY DEF FileCall
<1> DEFINE bytes == Bytes(content[open[lfd].file], open[lfd].position, k)
<1>2. SameFiles /\ UNCHANGED content /\ reply' = [ret |-> Len(bytes), bytes |-> bytes]
  BY <1>1, FileOpen, ReadMoves
<1>3. OnlyOpen(lfd, Path)'
  BY <1>2, FileOpen, StaysOpen DEF OnlyOpen
<1> HIDE DEF bytes
<1>4. reply'.ret = Len(bytes) /\ reply'.bytes = bytes
  BY <1>2
<1> QED
  BY <1>1, <1>2, <1>3, <1>4, FileOpen DEF bytes, SameFiles

LEMMA LoaderCloses ==
  ASSUME Loads, lpc \in FdOpen, FileCall(Disk!Close(lfd))
  PROVE  AllClosed' /\ Descriptors' /\ UNCHANGED <<content, free, held>>
<1>1. open' = [open EXCEPT ![lfd] = Closed] /\ UNCHANGED content /\ UNCHANGED <<free, held>>
  BY DEF FileCall, Disk!Close
<1> QED
  BY <1>1, FileOpen DEF OnlyOpen, AllClosed, Descriptors

(* Nothing moves but load_elf on to its next call, perhaps.               *)
LEMMA StaysSteps ==
  ASSUME Loads, UNCHANGED <<at, got, made>>, LStays
  PROVE  LoadsOn
<1>1. /\ UNCHANGED <<mem, lpc, lfd, lheader, lphdr_mem, min_vaddr, max_vaddr, lbase_addr, li>>
      /\ UNCHANGED <<lloaded, content, open, free, held, at, made, got>>
  BY DEF LStays, NoCall, llocals
<1>2. HeldInv'
  BY <1>1, KeptByStep DEF Loads, LoadInv, HeldInv
<1>3. LImageIsProgram' = LImageIsProgram
  BY <1>1 DEF LImageIsProgram
<1>4. LCopied(li)' = LCopied(li) /\ LPhdr(li)' = LPhdr(li)
  BY <1>1 DEF LCopied, LPhdr
<1>5. lpc \in Looping => CopiedUpTo(li)'
  <2>1. lpc \in Looping => CopiedUpTo(li)
    BY DEF Loads, LoadInv, ImageInv
  <2>2. CopiedUpTo(li) => CopiedUpTo(li)'
    BY <1>1, KeptByStep DEF CopiedUpTo, CellIs
  <2> QED
    BY <2>1, <2>2
<1>6. ImageInv'
  BY <1>1, <1>3, <1>4, <1>5 DEF Loads, LoadInv, ImageInv
<1>7. Progress' /\ File'
  BY <1>1 DEF Loads, LoadInv, Progress, File, AllClosed, OnlyOpen
<1>8. Descriptors'
  BY <1>1 DEF Loads, FileTypes, Descriptors
<1> QED
  BY <1>1, <1>2, <1>6, <1>7, <1>8 DEF LoadsOn, Loads, LoadInv, Cells

(* A file that cannot be opened ends it.                                   *)
LEMMA OpenFailsStep ==
  ASSUME Loads, UNCHANGED <<at, got, made>>, LOpenFails
  PROVE  LoadsOn
<1>1. /\ UNCHANGED <<mem, lloaded, content, open, free, held>> /\ lpc = "open" /\ lpc' = "idle"
  BY DEF LOpenFails, FileCall, LThen, Disk!Refuse
<1>2. /\ AllClosed /\ Descriptors /\ lloaded = None /\ at = "loading" /\ at \notin Booting
  BY <1>1, ScriptSteps DEF Loads, LoadInv, Progress, File, FileTypes, Booting
<1>3. AllClosed' /\ Descriptors'
  BY <1>1, <1>2 DEF AllClosed, Descriptors
<1>4. LImageIsProgram'
  BY <1>1, <1>2 DEF LImageIsProgram
<1>5. /\ lpc' \notin FdOpen \cup HeaderRead \cup TableKept \cup TableRead \cup Measured
      /\ lpc' \notin Imaged \cup Looping \cup Copying
  BY <1>1 DEF FdOpen, HeaderRead, TableKept, TableRead, Measured, Imaged, Looping, Copying
<1>6. Progress' /\ File' /\ HeldInv' /\ ImageInv'
  BY <1>1, <1>2, <1>3, <1>4, <1>5 DEF Progress, File, HeldInv, ImageInv
<1> QED
  BY <1>1, <1>3, <1>6 DEF LoadsOn, Loads, LoadInv, Cells

(* Steps that move neither memory's cells nor locals.                      *)
LEMMA QuietSteps ==
  ASSUME Loads, UNCHANGED <<at, got, made>>,
         LSeekHeader \/ LReject \/ LSeekTable \/ LCopySegment \/ LSeekSegment \/ LAllCopied
  PROVE  LoadsOn
<1>1. /\ UNCHANGED <<mem, llocals, lloaded, at, made, got>> /\ lloaded = None
      /\ lpc # "idle" /\ at = "loading"
  BY DEF Loads, LoadInv, Progress, LThen, LSeekHeader, LReject, LSeekTable, LCopySegment,
     LSeekSegment, LAllCopied
<1>2. /\ LSeekHeader => lpc = "seek_header" /\ lpc' = "read_header"
      /\ LReject => lpc = "reject" /\ lpc' = "idle"
      /\ LSeekTable => lpc = "seek_table" /\ lpc' = "read_table"
      /\ LCopySegment => lpc = "segment" /\ lpc' = "seek_segment"
      /\ LSeekSegment => lpc = "seek_segment" /\ lpc' = "read_segment"
      /\ LAllCopied => lpc = "segment" /\ lpc' = "close"
  BY DEF LThen, LSeekHeader, LReject, LSeekTable, LCopySegment, LSeekSegment, LAllCopied
<1>3. /\ Descriptors' /\ UNCHANGED <<content, free, held>>
      /\ lpc' = "idle" => AllClosed'
      /\ lpc' # "idle" => OnlyOpen(lfd, Path)'
      /\ lpc' = "read_header" => open'[lfd].position = 0
      /\ lpc' = "read_table" => open'[lfd].position = lheader.phoff
      /\ lpc' = "read_segment" => open'[lfd].position = LPhdr(li).offset
  <2>2. CASE LReject
    BY <1>2, <2>2, LoaderCloses DEF LReject, FdOpen
  <2>3. CASE LSeekHeader
    <3>1. lpc \in FdOpen /\ FileCall(Disk!SeekTo(lfd, 0)) /\ UNCHANGED lfd
      BY <1>2, <2>3 DEF LSeekHeader, FdOpen, llocals
    <3> QED
      BY <1>2, <2>3, <3>1, LoaderSeeks
  <2>4. CASE LSeekTable
    <3>1. lpc \in FdOpen /\ lpc \in HeaderRead
          /\ FileCall(Disk!SeekTo(lfd, lheader.phoff)) /\ UNCHANGED lfd
      BY <1>2, <2>4 DEF LSeekTable, FdOpen, HeaderRead, TableKept, llocals
    <3>2. lheader.phoff \in Nat
      BY <3>1, HeaderSays DEF Loads, LoadInv, HeldInv
    <3> QED
      BY <1>2, <2>4, <3>1, <3>2, LoaderSeeks
  <2>5. CASE LSeekSegment
    <3>1. /\ lpc \in FdOpen /\ lpc \in HeaderRead /\ lpc \in TableRead
          /\ lpc \in Copying /\ lpc \in Looping
          /\ FileCall(Disk!SeekTo(lfd, LPhdr(li).offset)) /\ UNCHANGED lfd
      BY <1>2, <2>5 DEF LSeekSegment, FdOpen, HeaderRead, TableKept, TableRead, Measured, Imaged,
         Looping, Copying, llocals
    <3>2. HeaderIs /\ TableIs /\ li \in 0 .. lheader.phnum /\ li < lheader.phnum
      BY <3>1 DEF Loads, LoadInv, HeldInv, ImageInv
    <3>3. lheader.phnum \in Nat /\ li \in Table /\ Program \in Programs
      BY <3>2, HeaderSays DEF Loads, Table
    <3>4. LPhdr(li).offset \in Nat
      BY <3>2, <3>3, HeaderSays DEF TableIs
    <3> QED
      BY <1>2, <2>5, <3>1, <3>4, LoaderSeeks
  <2>6. CASE LCopySegment \/ LAllCopied
    <3>1. UNCHANGED <<content, open, free, held, lfd>> /\ lpc \in FdOpen
      BY <1>2, <2>6 DEF LCopySegment, LAllCopied, NoCall, llocals, FdOpen, HeaderRead,
         TableKept, TableRead, Measured, Imaged, Looping
    <3>2. OnlyOpen(lfd, Path)' /\ Descriptors'
      BY <3>1, FileOpen DEF OnlyOpen, Descriptors
    <3> QED
      BY <1>2, <2>6, <3>1, <3>2
  <2> QED
    BY <2>2, <2>3, <2>4, <2>5, <2>6
<1>4. /\ Progress' /\ File'
  <2>1. /\ lpc' \in {"idle", "read_header", "read_table", "seek_segment", "read_segment", "close"}
        /\ lpc' \in {"idle", "fault", "open"} \cup FdOpen
    BY <1>2 DEF FdOpen, HeaderRead, TableKept, TableRead, Measured, Imaged, Looping, Copying
  <2>2. lpc' \in FdOpen => lpc' # "idle"
    BY DEF FdOpen, HeaderRead, TableKept, TableRead, Measured, Imaged, Looping, Copying
  <2>3. at \notin Booting
    BY <1>1, ScriptSteps DEF Booting
  <2> QED
    BY <1>1, <1>3, <2>1, <2>2, <2>3 DEF Progress, File, llocals
<1>5. HeldInv'
  <2>1. /\ lpc' \in HeaderRead <=> lpc \in HeaderRead
        /\ lpc' \in TableKept <=> lpc \in TableKept
        /\ lpc' \in TableRead <=> lpc \in TableRead
        /\ lpc' \in Measured <=> lpc \in Measured
        /\ lpc' \in Imaged <=> lpc \in Imaged
    BY <1>2 DEF HeaderRead, TableKept, TableRead, Measured, Imaged, Looping, Copying
  <2>2. /\ held \subseteq held' /\ UNCHANGED got
        /\ UNCHANGED <<content, mem, lheader, lphdr_mem, lbase_addr, min_vaddr, max_vaddr>>
    BY <1>1, <1>3 DEF llocals
  <2> QED
    BY <2>1, <2>2, KeptByStep DEF Loads, LoadInv, HeldInv
<1>6. ImageInv'
  <2> DEFINE loops == LCopySegment \/ LSeekSegment \/ LAllCopied
  <2>1. /\ lpc' \in Looping => loops
        /\ lpc' \in Copying => LCopySegment \/ LSeekSegment
        /\ lpc' = "close" => LAllCopied
        /\ loops => lpc \in Looping
        /\ LSeekSegment => lpc \in Copying
    BY <1>2 DEF Looping, Copying
  <2>2. LImageIsProgram'
    BY <1>1 DEF LImageIsProgram
  <2>3. /\ held \subseteq held' /\ UNCHANGED <<li, got>>
        /\ UNCHANGED <<content, mem, lheader, lphdr_mem, lbase_addr, min_vaddr, max_vaddr>>
    BY <1>1, <1>3 DEF llocals
  <2>4. loops => li \in 0 .. lheader.phnum /\ CopiedUpTo(li)
    BY <2>1 DEF Loads, LoadInv, ImageInv
  <2>5. loops => CopiedUpTo(li)'
    BY <2>3, <2>4, KeptByStep DEF CopiedUpTo, CellIs
  <2>6. LCopied(li)' = LCopied(li) /\ LPhdr(li)' = LPhdr(li) /\ UNCHANGED lfd
    BY <1>1, <2>3 DEF LCopied, LPhdr, llocals
  <2>7. LCopySegment \/ LSeekSegment => li < lheader.phnum /\ LCopied(li)
    BY <2>1 DEF LCopySegment, Loads, LoadInv, ImageInv
  <2>8. LAllCopied => li = lheader.phnum
    BY DEF LAllCopied
  <2> HIDE DEF loops
  <2> QED
    BY <1>3, <2>1, <2>2, <2>3, <2>4, <2>5, <2>6, <2>7, <2>8 DEF ImageInv
<1> QED
  BY <1>1, <1>3, <1>4, <1>5, <1>6 DEF LoadsOn, LoadInv, Loads, Cells

(* The classes of the places where the loader is.                          *)
LEMMA PcClasses ==
  /\ Copying \subseteq Looping /\ Looping \subseteq Imaged
  /\ Imaged \subseteq Measured /\ Measured \subseteq TableRead
  /\ TableRead \subseteq TableKept /\ TableKept \subseteq HeaderRead
  /\ HeaderRead \subseteq FdOpen
  /\ {"idle", "fault", "open"} \cap FdOpen = {}
  /\ {"seek_header", "read_header", "reject", "map_table", "measure",
      "map_image", "zero", "segment", "seek_segment", "read_segment", "close"} \subseteq FdOpen
  BY DEF FdOpen, HeaderRead, TableKept, TableRead, Measured, Imaged, Looping, Copying

LEMMA WhileLoading ==
  ASSUME Loads, UNCHANGED <<at, got, made>>
  PROVE  /\ at' = "loading" /\ at' \notin Booting
         /\ lloaded = None \/ lpc = "idle"
         /\ made = 0 => LImageIsProgram
         /\ Progress /\ File /\ HeldInv /\ ImageInv /\ DOMAIN mem = Cells
  BY ScriptSteps DEF Loads, LoadInv, Progress, ImageInv, Booting

LEMMA OpenStep ==
  ASSUME Loads, UNCHANGED <<at, got, made>>, LOpen
  PROVE  LoadsOn
<1>1. /\ UNCHANGED <<mem, lloaded>> /\ lpc = "open" /\ lpc' = "seek_header"
      /\ Disk!Open(Path) /\ UNCHANGED <<free, held>> /\ lfd' = reply'.ret
  BY DEF LOpen, FileCall, LThen
<1>2. /\ AllClosed /\ Descriptors /\ lloaded = None /\ at' = "loading" /\ at' \notin Booting
      /\ DOMAIN mem = Cells
  BY <1>1, WhileLoading DEF File, Loads, FileTypes
<1>3. PICK d \in FdNumbers :
        /\ open' = [open EXCEPT ![d] = [file |-> Path, position |-> 0]]
        /\ reply' = Disk!Returned(d) /\ UNCHANGED content
  BY <1>1 DEF Disk!Open
<1>4. lfd' = d
  BY <1>1, <1>3 DEF Disk!Returned
<1> DEFINE e == [file |-> Path, position |-> 0]
<1>5. e \in [file : {Path, TestFile}, position : Nat] /\ e # Closed /\ e.file = Path
  BY CallsAssumption
<1>6. open \in [FdNumbers -> [file : {Path, TestFile}, position : Nat] \cup {Closed}]
  BY <1>2 DEF Descriptors
<1> HIDE DEF e
<1>7. Descriptors' /\ open'[d] = e /\ \A c \in FdNumbers \ {d} : open'[c] = Closed
  BY <1>2, <1>3, <1>5, <1>6 DEF Descriptors, AllClosed, e
<1>8. OnlyOpen(lfd, Path)'
  BY <1>4, <1>5, <1>7 DEF OnlyOpen
<1>9. /\ lpc' \in FdOpen /\ lpc' \notin HeaderRead \cup TableKept \cup TableRead \cup Measured \cup Imaged
      /\ lpc' \notin Looping \cup {"idle", "open", "read_header", "read_table"}
  BY <1>1 DEF FdOpen, HeaderRead, TableKept, TableRead, Measured, Imaged, Looping, Copying
<1>10. LoadInv'
  <2>1. LImageIsProgram'
    BY <1>1, <1>2 DEF LImageIsProgram
  <2> QED
    BY <1>1, <1>2, <1>8, <1>9, <2>1
       DEF LoadInv, Progress, File, HeldInv, ImageInv, Looping, Copying, Cells
<1> QED
  BY <1>1, <1>3, <1>7, <1>10 DEF LoadsOn

(* From here on the descriptor is open and the program not yet loaded.     *)
LEMMA StepTo ==
  ASSUME Loads, UNCHANGED <<at, got, made>>, lpc \in FdOpen, UNCHANGED lloaded,
         lpc' \in FdOpen \cup {"fault"},
         lpc' \notin {"read_header", "read_table", "read_segment"},
         lpc' \in FdOpen => OnlyOpen(lfd, Path)'
  PROVE  Progress' /\ File' /\ LImageIsProgram'
<1>1. lpc # "idle" /\ lpc' # "idle" /\ lpc' # "open"
  BY PcClasses
<1>2. at' = "loading" /\ at' \notin Booting /\ lloaded = None
  BY <1>1, WhileLoading
<1>3. LImageIsProgram'
  BY <1>2 DEF LImageIsProgram
<1> QED
  BY <1>1, <1>2, <1>3 DEF Progress, File

LEMMA ReadHeaderStep ==
  ASSUME Loads, UNCHANGED <<at, got, made>>, LReadHeader
  PROVE  LoadsOn
<1>1. /\ UNCHANGED <<mem, lloaded, lfd>> /\ lpc = "read_header" /\ FileCall(Disk!Read(lfd, 1))
      /\ IF reply'.ret = 1 /\ reply'.bytes[1].kind = "header" /\ reply'.bytes[1].elf
         THEN lheader' = reply'.bytes[1] /\ lpc' = "map_table"
         ELSE UNCHANGED lheader /\ lpc' = "reject"
  BY DEF LReadHeader, LThen
<1>2. lpc \in FdOpen /\ lpc' \in FdOpen
  BY <1>1, PcClasses
<1>3. open[lfd].position = 0 /\ Program \in Seq(CellValues)
  BY <1>1, <1>2, FileOpen DEF Loads, LoadInv, File
<1> DEFINE bytes == Bytes(Program, 0, 1)
<1>4. /\ OnlyOpen(lfd, Path)' /\ reply'.ret = Len(bytes) /\ reply'.bytes = bytes
      /\ Descriptors' /\ UNCHANGED <<content, free, held>>
  BY <1>1, <1>2, <1>3, LoaderReads
<1>5. Len(bytes) = 1 => Program # <<>> /\ bytes[1] = Program[1]
  <2>1. \A c \in 1 .. Len(bytes) : 0 + c <= Len(Program) /\ bytes[c] = Program[0 + c]
    BY <1>3, BytesRead
  <2> HIDE DEF bytes
  <2>2. Len(bytes) = 1 => 1 <= Len(Program) /\ bytes[1] = Program[1]
    BY <2>1
  <2> QED
    BY <1>3, <2>2
<1> HIDE DEF bytes
<1>6. Progress' /\ File' /\ LImageIsProgram'
  BY <1>1, <1>2, <1>4, StepTo
<1>7. lpc' = "map_table" => HeaderIs'
  BY <1>1, <1>4, <1>5 DEF HeaderIs, Program
<1>8. /\ lpc' \in HeaderRead => lpc' = "map_table"
      /\ lpc' \notin TableKept \cup TableRead \cup Measured \cup Imaged
      /\ lpc' \notin Looping
  BY <1>1 DEF HeaderRead, TableKept, TableRead, Measured, Imaged, Looping, Copying
<1>9. LoadInv'
  BY <1>1, <1>6, <1>7, <1>8, WhileLoading DEF LoadInv, HeldInv, ImageInv, Looping, Copying, Cells
<1> QED
  BY <1>4, <1>9 DEF LoadsOn

LEMMA TableMappedStep ==
  ASSUME Loads, UNCHANGED <<at, got, made>>, LTableMapped
  PROVE  LoadsOn
<1>1. /\ UNCHANGED <<mem, lloaded, lfd, lheader, content, open>>
      /\ lpc = "map_table" /\ lpc' = "seek_table"
      /\ Ram!Allocate(Pages(lheader.phnum)) /\ lphdr_mem' = Address(result')
  BY DEF LTableMapped, LThen
<1>2. /\ lpc \in FdOpen /\ lpc' \in FdOpen /\ lpc \in HeaderRead
      /\ lpc' \in TableKept /\ lpc' \notin TableRead \cup Measured \cup Imaged
      /\ lpc' \notin Looping
  BY <1>1 DEF FdOpen, HeaderRead, TableKept, TableRead, Measured, Imaged, Looping, Copying
<1>3. HeaderIs /\ lheader.phnum \in Nat
  BY <1>2, HeaderSays DEF Loads, LoadInv, HeldInv
<1>4. OnlyOpen(lfd, Path)' /\ Descriptors' /\ UNCHANGED content
  BY <1>1, <1>2, FileOpen DEF OnlyOpen, Descriptors
<1>5. Progress' /\ File' /\ LImageIsProgram'
  BY <1>1, <1>2, <1>4, StepTo
<1>6. HeaderIs'
  BY <1>1, <1>3, <1>4 DEF HeaderIs, Program
<1>7. Run(lphdr_mem, lheader.phnum)'
  BY <1>1, <1>3, AllocatedRun DEF Loads, Run
<1>8. LoadInv'
  BY <1>1, <1>2, <1>5, <1>6, <1>7, WhileLoading DEF LoadInv, HeldInv, ImageInv, Looping, Copying, Cells
<1>9. Pages(lheader.phnum) \in Nat
  BY <1>3, EnoughPages
<1> QED
  BY <1>1, <1>4, <1>8, <1>9 DEF LoadsOn

(* The program headers in memory are those of the file.                    *)
LEMMA TableSays ==
  ASSUME Loads, lpc \in TableRead
  PROVE  /\ HeaderIs /\ TableIs /\ lheader.phnum \in Nat
         /\ LLoadable = {k \in Table : Segment(k).load}
         /\ \A k \in Table : LPhdr(k) = Segment(k)
         /\ OnlyOpen(lfd, Path) /\ Run(lphdr_mem, lheader.phnum)
<1>1. lpc \in FdOpen /\ lpc \in HeaderRead /\ lpc \in TableKept
  BY PcClasses
<1>2. /\ HeaderIs /\ TableIs /\ lheader.phnum \in Nat /\ OnlyOpen(lfd, Path)
      /\ Run(lphdr_mem, lheader.phnum)
  BY <1>1, HeaderSays DEF Loads, LoadInv, HeldInv, File
<1>3. LLoadable = {k \in Table : LPhdr(k).load}
  BY DEF LLoadable, Table
<1> QED
  BY <1>2, <1>3 DEF TableIs

LEMMA MeasureStep ==
  ASSUME Loads, UNCHANGED <<at, got, made>>, LMeasure
  PROVE  LoadsOn
<1>1. /\ UNCHANGED <<mem, lloaded, lfd, lheader, lphdr_mem, lbase_addr, content, open, free, held>>
      /\ lpc = "measure" /\ lpc' \in {"reject", "map_image"}
      /\ lpc' = "map_image" =>
           /\ \E k \in LLoadable :
                /\ min_vaddr' = LPhdr(k).vaddr
                /\ \A l \in LLoadable : LPhdr(k).vaddr <= LPhdr(l).vaddr
           /\ \E k \in LLoadable :
                /\ max_vaddr' = LPhdr(k).vaddr + LPhdr(k).memsz
                /\ \A l \in LLoadable : LPhdr(l).vaddr + LPhdr(l).memsz
                                         <= LPhdr(k).vaddr + LPhdr(k).memsz
  BY DEF LMeasure, LThen, NoCall
<1>2. /\ lpc \in TableRead /\ lpc \in FdOpen /\ lpc' \in FdOpen
      /\ lpc' \in HeaderRead => lpc' = "map_image"
      /\ lpc' \in TableKept => lpc' = "map_image"
      /\ lpc' \in TableRead => lpc' = "map_image"
      /\ lpc' \in Measured => lpc' = "map_image"
      /\ lpc' \notin Imaged /\ lpc' \notin Looping
  BY <1>1 DEF FdOpen, HeaderRead, TableKept, TableRead, Measured, Imaged, Looping, Copying
<1>3. /\ HeaderIs /\ TableIs /\ Program \in Programs
      /\ LLoadable = {k \in Table : Segment(k).load}
      /\ \A k \in Table : LPhdr(k) = Segment(k)
      /\ OnlyOpen(lfd, Path) /\ Run(lphdr_mem, lheader.phnum)
  BY <1>2, TableSays DEF Loads
<1>4. OnlyOpen(lfd, Path)' /\ Descriptors' /\ UNCHANGED content
  BY <1>1, <1>2, FileOpen DEF OnlyOpen, Descriptors
<1>5. Progress' /\ File' /\ LImageIsProgram'
  BY <1>1, <1>2, <1>4, StepTo
<1>6. /\ HeaderIs' /\ TableIs' /\ Run(lphdr_mem, lheader.phnum)'
      /\ Table' = Table /\ \A k : Segment(k)' = Segment(k)
  BY <1>1, <1>3, <1>4, BootHasStays
     DEF HeaderIs, Program, TableIs, Run, Table, Segment, LPhdr
<1>7. lpc' = "map_image" => MeasureIs'
  <2>1. SUFFICES ASSUME lpc' = "map_image" PROVE MeasureIs'
    OBVIOUS
  <2>2. \A k \in Table : Segment(k).vaddr \in Nat /\ Segment(k).memsz \in Nat
    BY <1>3, HeaderSays
  <2>3. PICK a \in LLoadable : /\ min_vaddr' = Segment(a).vaddr
                              /\ \A l \in LLoadable : Segment(a).vaddr <= Segment(l).vaddr
    BY <1>1, <1>3, <2>1
  <2>4. PICK b \in LLoadable : /\ max_vaddr' = Segment(b).vaddr + Segment(b).memsz
                              /\ \A l \in LLoadable : Segment(l).vaddr + Segment(l).memsz
                                             <= Segment(b).vaddr + Segment(b).memsz
    BY <1>1, <1>3, <2>1
  <2>5. a \in Table /\ b \in Table
    BY <1>3
  <2>6. /\ min_vaddr' \in Nat /\ max_vaddr' \in Nat
    BY <2>2, <2>3, <2>4, <2>5
  <2>7. \A k \in Table : Segment(k).load =>
          min_vaddr' <= Segment(k).vaddr /\ Segment(k).vaddr + Segment(k).memsz <= max_vaddr'
    BY <1>3, <2>3, <2>4
  <2>8. min_vaddr' <= max_vaddr'
    <3>1. min_vaddr' <= Segment(b).vaddr
      BY <2>3, <2>4
    <3> QED
      BY <2>2, <2>4, <2>5, <2>6, <3>1
  <2> QED
    BY <1>6, <2>6, <2>7, <2>8 DEF MeasureIs
<1>8. LoadInv'
  BY <1>1, <1>2, <1>5, <1>6, <1>7, WhileLoading DEF LoadInv, HeldInv, ImageInv, Looping, Copying, Cells
<1> QED
  BY <1>1, <1>4, <1>8 DEF LoadsOn

LEMMA SizeSays ==
  ASSUME Loads, lpc \in Measured
  PROVE  /\ MeasureIs /\ TotalSize \in Nat /\ max_vaddr = min_vaddr + TotalSize
         /\ \A c : c \in Image <=> c \in Nat /\ c < TotalSize
<1>1. MeasureIs
  BY DEF Loads, LoadInv, HeldInv
<1> QED
  BY <1>1 DEF MeasureIs, TotalSize, Image

LEMMA ImageMappedStep ==
  ASSUME Loads, UNCHANGED <<at, got, made>>, LImageMapped
  PROVE  LoadsOn
<1>1. /\ UNCHANGED <<mem, lloaded, lfd, lheader, lphdr_mem, min_vaddr, max_vaddr, content, open>>
      /\ lpc = "map_image" /\ lpc' = "zero"
      /\ Ram!Allocate(Pages(TotalSize)) /\ lbase_addr' = Address(result')
  BY DEF LImageMapped, LThen
<1>2. /\ lpc \in Measured /\ lpc \in TableRead /\ lpc \in FdOpen /\ lpc' \in FdOpen
      /\ lpc' \notin Looping
  BY <1>1 DEF FdOpen, HeaderRead, TableKept, TableRead, Measured, Imaged, Looping, Copying
<1>3. /\ HeaderIs /\ TableIs /\ MeasureIs /\ TotalSize \in Nat /\ lheader.phnum \in Nat
      /\ Run(lphdr_mem, lheader.phnum)
  BY <1>2, TableSays, SizeSays
<1>4. OnlyOpen(lfd, Path)' /\ Descriptors' /\ UNCHANGED content
  BY <1>1, <1>2, FileOpen DEF OnlyOpen, Descriptors
<1>5. Progress' /\ File' /\ LImageIsProgram'
  BY <1>1, <1>2, <1>4, StepTo
<1>6. Pages(TotalSize) \in Nat
  BY <1>3, EnoughPages
<1>7. held \subseteq held' /\ RunsApart
  BY <1>1, <1>6, AllocateRuns DEF Loads
<1>8. /\ HeaderIs' /\ TableIs' /\ MeasureIs' /\ TotalSize' = TotalSize
      /\ Table' = Table /\ Image' = Image
  BY <1>1, <1>3, <1>4
     DEF HeaderIs, Program, TableIs, MeasureIs, Table, Image, Segment, LPhdr, TotalSize
<1>9. Run(lphdr_mem, lheader.phnum)' /\ Run(lbase_addr, TotalSize)'
  <2>1. Run(lbase_addr, TotalSize)'
    BY <1>1, <1>3, <1>7, <1>8, AllocatedRun DEF Run, Loads
  <2>2. Run(lphdr_mem, lheader.phnum)'
    BY <1>1, <1>3, <1>7, BootHasStays DEF Run
  <2> QED
    BY <2>1, <2>2
<1>10. Beside'
  <2>1. ASSUME NEW k \in Table, NEW c \in Image PROVE lphdr_mem + k # Address(result') + c
    <3>1. /\ k \in Nat /\ k < lheader.phnum /\ c \in Nat /\ c < TotalSize
          /\ lphdr_mem + k \in Cells
      BY <1>2, <1>3, SizeSays DEF Table, TableIs
    <3> QED
      BY <1>1, <1>3, <1>7, <3>1, FreshRun
  <2> QED
    BY <1>1, <1>8, <2>1 DEF Beside
<1>11. LoadInv'
  BY <1>1, <1>2, <1>5, <1>8, <1>9, <1>10, WhileLoading DEF LoadInv, HeldInv, ImageInv, Looping, Copying, Cells
<1> QED
  BY <1>1, <1>4, <1>6, <1>11 DEF LoadsOn

(* The loop over the segments: what one more of them changes of what is    *)
(* expected at an address.                                                 *)
LEMMA CoversAre ==
  ASSUME HeaderIs, Program \in Programs, NEW v
  PROVE  /\ Covering(Program, v) \subseteq Nat
         /\ \A k \in Table :
              k + 1 \in Covering(Program, v) <=>
                /\ Segment(k).load
                /\ v \in Segment(k).vaddr .. (Segment(k).vaddr + Segment(k).filesz - 1)
                /\ Segment(k).offset + v - Segment(k).vaddr < Len(Program)
  BY HeaderSays DEF Covering, Segment

LEMMA CellIsStill ==
  ASSUME HeaderIs, Program \in Programs, NEW k \in Table, NEW v, NEW cell,
         k + 1 \notin Covering(Program, v), CellIs(cell, v, k)
  PROVE  CellIs(cell, v, k + 1)
<1>1. k \in Nat /\ Covering(Program, v) \subseteq Nat
  BY CoversAre, HeaderSays
<1>2. {l \in Covering(Program, v) : l <= k + 1} = {l \in Covering(Program, v) : l <= k}
  <2>1. \A l \in Nat : l <= k + 1 <=> l <= k \/ l = k + 1
    BY <1>1
  <2> QED
    BY <1>1, <2>1
<1> QED
  BY <1>2 DEF CellIs

LEMMA CellIsNow ==
  ASSUME HeaderIs, Program \in Programs, NEW k \in Table, NEW v, NEW cell,
         k + 1 \in Covering(Program, v),
         cell = Program[Segment(k).offset + v - Segment(k).vaddr + 1]
  PROVE  CellIs(cell, v, k + 1)
<1>1. k \in Nat /\ Covering(Program, v) \subseteq Nat
  BY CoversAre, HeaderSays
<1> DEFINE over == {l \in Covering(Program, v) : l <= k + 1}
<1>2. k + 1 \in over /\ \A l \in over : l <= k + 1
  BY <1>1
<1> HIDE DEF over
<1>3. \E m \in over :
             /\ \A l \in over : l <= m
             /\ cell = Program[Segments(Program)[m].offset + v
                                 - Segments(Program)[m].vaddr + 1]
  BY <1>2 DEF Segment
<1> QED
  BY <1>2, <1>3 DEF CellIs, over

(* What the loader knows in its loop.                                      *)
LEMMA InLoop ==
  ASSUME Loads, UNCHANGED <<at, got, made>>, lpc \in Imaged
  PROVE  /\ HeaderIs /\ TableIs /\ MeasureIs /\ Beside /\ Program \in Programs
         /\ Run(lbase_addr, TotalSize) /\ Run(lphdr_mem, lheader.phnum)
         /\ OnlyOpen(lfd, Path) /\ lpc \in FdOpen /\ lloaded = None
         /\ lheader.phnum \in Nat /\ TotalSize \in Nat
         /\ lpc # "zero" => li \in 0 .. lheader.phnum /\ CopiedUpTo(li)
         /\ lpc # "zero" /\ li < lheader.phnum => li \in Table /\ LPhdr(li) = Segment(li)
<1>1. lpc \in Imaged /\ lpc \in Measured /\ lpc \in TableRead /\ lpc \in FdOpen
  BY PcClasses DEF Imaged
<1>2. /\ HeaderIs /\ TableIs /\ MeasureIs /\ Beside /\ Program \in Programs
      /\ Run(lbase_addr, TotalSize) /\ Run(lphdr_mem, lheader.phnum)
      /\ OnlyOpen(lfd, Path) /\ lheader.phnum \in Nat /\ TotalSize \in Nat
      /\ \A k \in Table : LPhdr(k) = Segment(k)
  BY <1>1, TableSays, SizeSays DEF Loads, LoadInv, HeldInv
<1>3. lpc # "zero" => li \in 0 .. lheader.phnum /\ CopiedUpTo(li)
  BY DEF Loads, LoadInv, ImageInv, Imaged
<1>4. lloaded = None
  BY <1>1, PcClasses, WhileLoading
<1>5. lpc # "zero" /\ li < lheader.phnum => li \in Table
  BY <1>2, <1>3 DEF Table
<1> QED
  BY <1>1, <1>2, <1>3, <1>4, <1>5

LEMMA SkipStep ==
  ASSUME Loads, UNCHANGED <<at, got, made>>, LSkipSegment
  PROVE  LoadsOn
<1>1. /\ UNCHANGED <<mem, lloaded, lfd, lheader, lphdr_mem, lbase_addr, min_vaddr, max_vaddr, lpc>>
      /\ UNCHANGED <<content, open, free, held>>
      /\ lpc = "segment" /\ li < lheader.phnum /\ ~ LCopied(li) /\ li' = li + 1
  BY DEF LSkipSegment, LThen, NoCall
<1>2. /\ HeaderIs /\ TableIs /\ MeasureIs /\ Beside /\ Program \in Programs
      /\ Run(lbase_addr, TotalSize) /\ Run(lphdr_mem, lheader.phnum)
      /\ OnlyOpen(lfd, Path) /\ lpc \in FdOpen /\ lheader.phnum \in Nat
      /\ li \in Table /\ LPhdr(li) = Segment(li) /\ li \in 0 .. lheader.phnum /\ CopiedUpTo(li)
  BY <1>1, InLoop DEF Imaged, Looping
<1>3. OnlyOpen(lfd, Path)' /\ Descriptors' /\ UNCHANGED content
  BY <1>1, <1>2, FileOpen DEF OnlyOpen, Descriptors
<1>4. Progress' /\ File' /\ LImageIsProgram'
  BY <1>1, <1>2, <1>3, StepTo
<1>5. CopiedUpTo(li + 1)
  <2>1. ASSUME NEW v PROVE li + 1 \notin Covering(Program, v)
    <3>1. ~ (Segment(li).load /\ Segment(li).filesz > 0)
      BY <1>1, <1>2 DEF LCopied
    <3>2. Segment(li).filesz \in Nat /\ Segment(li).vaddr \in Nat
      BY <1>2, HeaderSays
    <3>3. ~ (Segment(li).filesz > 0) =>
            v \notin Segment(li).vaddr .. (Segment(li).vaddr + Segment(li).filesz - 1)
      BY <3>2
    <3> QED
      BY <1>2, <3>1, <3>3, CoversAre
  <2> QED
    BY <1>2, <2>1, CellIsStill DEF CopiedUpTo
<1>6. /\ HeaderIs' /\ Run(lphdr_mem, lheader.phnum)' /\ TableIs' /\ MeasureIs'
      /\ Run(lbase_addr, TotalSize)' /\ Beside' /\ CopiedUpTo(li)'
  <2>1. held \subseteq held'
    BY <1>1
  <2>2. CopiedUpTo(li')
    BY <1>1, <1>5
  <2>3. CopiedUpTo(li)'
    BY <1>1, <1>3, <2>2 DEF CopiedUpTo, Image, TotalSize, CellIs, Program
  <2> QED
    BY <1>1, <1>2, <1>3, <2>1, <2>3, KeptByStep
<1>7. li' \in 0 .. lheader'.phnum
  BY <1>1, <1>2
<1>8. LoadInv'
  BY <1>1, <1>4, <1>6, <1>7, WhileLoading DEF LoadInv, HeldInv, ImageInv, Looping, Copying, Cells
<1> QED
  BY <1>1, <1>3, <1>8 DEF LoadsOn

LEMMA FinishStep ==
  ASSUME Loads, UNCHANGED <<at, got, made>>, LFinish
  PROVE  LoadsOn
<1>1. /\ UNCHANGED <<mem, lfd, lheader, lphdr_mem, lbase_addr, min_vaddr, max_vaddr, li>>
      /\ lpc = "close" /\ li = lheader.phnum /\ lpc' = "idle" /\ FileCall(Disk!Close(lfd))
      /\ lloaded' = [base_addr |-> lbase_addr, size |-> TotalSize]
  BY DEF LFinish, llocals, Loads, LoadInv, ImageInv
<1>2. HeaderIs /\ Program \in Programs /\ lpc \in FdOpen /\ lheader.phnum \in Nat /\ CopiedUpTo(li)
  BY <1>1, InLoop DEF Imaged, Looping
<1>3. AllClosed' /\ Descriptors' /\ UNCHANGED <<content, free, held>>
  BY <1>1, <1>2, LoaderCloses
<1>4. LImageIsProgram'
  <2>1. lloaded'.size = TotalSize /\ lloaded'.base_addr = lbase_addr
    BY <1>1
  <2>2. ASSUME NEW c \in Image
        PROVE  LET v == min_vaddr + c
                   over == Covering(Program, v)
                   cell == mem[lbase_addr + c]
               IN IF over = {} THEN cell = Zero
                  ELSE \E k \in over :
                         /\ \A l \in over : l <= k
                         /\ cell = Program[Segments(Program)[k].offset + v
                                             - Segments(Program)[k].vaddr + 1]
    <3>1. CellIs(mem[lbase_addr + c], min_vaddr + c, lheader.phnum)
      BY <1>1, <1>2 DEF CopiedUpTo
    <3>2. {k \in Covering(Program, min_vaddr + c) : k <= lheader.phnum}
            = Covering(Program, min_vaddr + c)
      BY <1>2 DEF Covering, HeaderIs
    <3> QED
      BY <3>1, <3>2 DEF CellIs
  <2>3. Program' = Program
    BY <1>3 DEF Program
  <2> QED
    BY <1>1, <1>3, <2>1, <2>2 DEF LImageIsProgram, Image, Program
<1>5. lpc' \notin FdOpen \cup HeaderRead \cup TableKept \cup TableRead \cup Measured \cup Imaged
      /\ lpc' \notin Looping \cup {"read_header", "read_table"}
  BY <1>1, PcClasses
<1>6. LoadInv'
  BY <1>1, <1>3, <1>4, <1>5, WhileLoading DEF LoadInv, Progress, File, HeldInv, ImageInv, Looping, Copying, Cells
<1> QED
  BY <1>3, <1>6 DEF LoadsOn

(* Stores to memory.                                                       *)
LEMMA StoreSays ==
  ASSUME NEW a, NEW cells, NEW next, LStoreCells(a, cells, next), DOMAIN mem = Cells
  PROVE  /\ UNCHANGED lloaded
         /\ \/ UNCHANGED mem /\ lpc' = "fault"
            \/ /\ lpc' = next /\ DOMAIN mem' = Cells
               /\ Len(cells) = 0 \/ (a \in Cells /\ a + Len(cells) - 1 \in Cells)
               /\ \A c \in Cells :
                    mem'[c] = IF c >= a /\ c < a + Len(cells) THEN cells[c - a + 1] ELSE mem[c]
  BY DEF LStoreCells, Mapped, Written, LThen

LEMMA Between ==
  ASSUME NEW a \in Cells, NEW n \in Nat, a + n - 1 \in Cells, NEW c \in Nat, c < n
  PROVE  a + c \in Cells
<1>1. a \in Nat /\ PageSize * Cardinality(Sectors) \in Nat
  BY CellsAre
<1>2. a + n - 1 < PageSize * Cardinality(Sectors)
  BY CellsAre
<1>3. a + c \in Nat /\ a + c <= a + n - 1 /\ a + n - 1 \in Int
  BY <1>1
<1>4. a + c < PageSize * Cardinality(Sectors)
  <2> DEFINE size == PageSize * Cardinality(Sectors)
             last == a + n - 1
             this == a + c
  <2>1. size \in Nat /\ last \in Int /\ this \in Nat /\ last < size /\ this <= last
    BY <1>1, <1>2, <1>3
  <2> HIDE DEF size, last, this
  <2>2. this < size
    BY <2>1
  <2> QED
    BY <2>2 DEF size, this
<1> QED
  BY <1>3, <1>4, CellsAre

(* A cell that changes is on a page of a run that was given out.           *)
OwnStep ==
  \A c \in Cells :
    mem'[c] # mem[c] =>
      \E r \in held \ BootHas : c \div PageSize \in r.start .. (r.start + r.pages - 1)

LEMMA OwnStore ==
  ASSUME NEW place \in Int, NEW n \in Nat, Run(place, n), NEW off \in Nat, NEW count \in Nat,
         off + count <= n,
         \A c \in Cells : mem'[c] # mem[c] => c >= place + off /\ c < place + off + count
  PROVE  OwnStep
<1> SUFFICES ASSUME NEW c \in Cells, mem'[c] # mem[c]
             PROVE  \E r \in held \ BootHas : c \div PageSize \in Ram!Span(r.start, r.pages)
  BY DEF OwnStep, Ram!Span
<1>1. c \in Nat /\ c >= place + off /\ c < place + off + count
  BY CellsAre
<1>2. c - place \in Nat /\ c - place < n /\ place + (c - place) = c
  BY <1>1
<1> QED
  BY <1>2, MappedRun

LEMMA RunPlace == ASSUME NEW place, NEW n, Run(place, n) PROVE place \in Nat
  BY Beyond, CellsAre DEF Run, Address

(* A store that faults ends it all.                                        *)
LEMMA Faults ==
  ASSUME Loads, UNCHANGED <<at, got, made>>, lpc \in FdOpen, UNCHANGED <<mem, lloaded, content>>, lpc' = "fault",
         Descriptors', UNCHANGED <<free, held>>
  PROVE  LoadsOn /\ OwnStep
<1>1. lpc' \notin FdOpen
  BY PcClasses
<1>2. Progress' /\ File' /\ LImageIsProgram'
  BY <1>1, StepTo
<1>3. lpc' \notin HeaderRead \cup TableKept \cup TableRead \cup Measured \cup Imaged
      /\ lpc' \notin Looping
  BY <1>1, PcClasses
<1>4. LoadInv'
  BY <1>2, <1>3, WhileLoading DEF LoadInv, HeldInv, ImageInv, Looping, Copying, Cells
<1> QED
  BY <1>4 DEF LoadsOn, OwnStep

LEMMA ReadTableStep ==
  ASSUME Loads, UNCHANGED <<at, got, made>>, LReadTable
  PROVE  LoadsOn /\ OwnStep
<1>1. /\ UNCHANGED <<lfd, lheader, lphdr_mem, lbase_addr, min_vaddr, max_vaddr, li>>
      /\ lpc = "read_table" /\ LReadInto(lphdr_mem, lheader.phnum, "measure")
  BY DEF LReadTable, llocals
<1>2. lpc \in FdOpen /\ lpc \in HeaderRead /\ lpc \in TableKept
  BY <1>1 DEF FdOpen, HeaderRead, TableKept
<1>3. /\ HeaderIs /\ Run(lphdr_mem, lheader.phnum) /\ OnlyOpen(lfd, Path) /\ Descriptors
      /\ open[lfd].position = lheader.phoff /\ Program \in Programs /\ DOMAIN mem = Cells
  BY <1>1, <1>2 DEF Loads, LoadInv, HeldInv, File, FileTypes
<1>4. /\ lheader.phnum \in Nat /\ lheader.phoff \in Nat /\ Program \in Seq(CellValues)
      /\ lheader.phoff + lheader.phnum <= Len(Program)
  BY <1>3, HeaderSays
<1>5. ASSUME lpc' = "measure", UNCHANGED <<content, free, held, lloaded>>, OnlyOpen(lfd, Path)',
             TableIs', DOMAIN mem' = Cells
      PROVE  LoadInv'
  <2>1. /\ lpc' \in FdOpen /\ lpc' \notin Measured \cup Imaged
        /\ lpc' \notin Looping \cup {"read_header", "read_table"}
    BY <1>5, PcClasses DEF Measured, Imaged, Looping, Copying
  <2>2. Progress' /\ File' /\ LImageIsProgram'
    BY <1>2, <1>5, <2>1, StepTo
  <2>3. HeaderIs' /\ Run(lphdr_mem, lheader.phnum)'
    BY <1>1, <1>3, <1>5, BootHasStays DEF HeaderIs, Program, Run
  <2> QED
    BY <1>5, <2>1, <2>2, <2>3 DEF LoadInv, HeldInv, ImageInv, Looping, Copying, Cells
<1>6. CASE lheader.phnum = 0
  <2>1. UNCHANGED <<content, open, free, held>> /\ reply' = Failed
        /\ LStoreCells(lphdr_mem, reply'.bytes, "measure")
    BY <1>1, <1>6 DEF LReadInto, FileCall, Disk!Refuse
  <2>2. reply'.bytes = <<>> /\ Len(reply'.bytes) = 0
    BY <2>1 DEF Failed
  <2>3. Mapped(lphdr_mem, Len(reply'.bytes))
    BY <2>2 DEF Mapped
  <2>4. mem' = Written(lphdr_mem, <<>>) /\ lpc' = "measure" /\ UNCHANGED lloaded
    BY <2>1, <2>2, <2>3 DEF LStoreCells, LThen
  <2>5. lphdr_mem \in Nat
    BY <1>3, RunPlace
  <2>6. DOMAIN mem' = Cells /\ \A c \in Cells : mem'[c] = mem[c]
    BY <2>4, <2>5, CellsAre DEF Written
  <2>7. OnlyOpen(lfd, Path)' /\ Descriptors' /\ TableIs'
    BY <1>1, <1>3, <1>6, <2>1 DEF OnlyOpen, Descriptors, TableIs, Table
  <2> QED
    BY <1>5, <2>1, <2>4, <2>6, <2>7 DEF LoadsOn, OwnStep
<1>7. CASE lheader.phnum # 0
  <2> DEFINE bytes == Bytes(Program, lheader.phoff, lheader.phnum)
  <2>1. FileCall(Disk!Read(lfd, lheader.phnum)) /\ LStoreCells(lphdr_mem, reply'.bytes, "measure")
    BY <1>1, <1>7 DEF LReadInto
  <2>2. /\ OnlyOpen(lfd, Path)' /\ reply'.bytes = bytes
        /\ Descriptors' /\ UNCHANGED <<content, free, held>>
    BY <1>1, <1>2, <1>3, <1>4, <2>1, LoaderReads
  <2>3. /\ Len(bytes) = lheader.phnum
        /\ \A c \in 1 .. lheader.phnum : bytes[c] = Program[lheader.phoff + c]
    <3>1. /\ Len(bytes) \in Nat /\ Len(bytes) <= lheader.phnum
          /\ \A c \in 1 .. Len(bytes) : bytes[c] = Program[lheader.phoff + c]
          /\ \A c \in 1 .. lheader.phnum :
               lheader.phoff + c <= Len(Program) => c <= Len(bytes)
      BY <1>4, BytesRead
    <3>2. lheader.phnum \in 1 .. lheader.phnum
      BY <1>4, <1>7
    <3> HIDE DEF bytes
    <3>3. lheader.phnum <= Len(bytes)
      BY <1>4, <3>1, <3>2
    <3>4. Len(bytes) = lheader.phnum
      BY <1>4, <3>1, <3>3
    <3> QED
      BY <3>1, <3>4
  <2> HIDE DEF bytes
  <2>4. /\ UNCHANGED lloaded
        /\ \/ UNCHANGED mem /\ lpc' = "fault"
           \/ /\ lpc' = "measure" /\ DOMAIN mem' = Cells
              /\ lphdr_mem \in Cells /\ lphdr_mem + lheader.phnum - 1 \in Cells
              /\ \A c \in Cells :
                   mem'[c] = IF c >= lphdr_mem /\ c < lphdr_mem + lheader.phnum
                             THEN bytes[c - lphdr_mem + 1] ELSE mem[c]
    BY <1>3, <1>7, <2>1, <2>2, <2>3, StoreSays
  <2>5. CASE UNCHANGED mem /\ lpc' = "fault"
    BY <1>2, <2>2, <2>4, <2>5, Faults
  <2>6. CASE /\ lpc' = "measure" /\ DOMAIN mem' = Cells
             /\ lphdr_mem \in Cells /\ lphdr_mem + lheader.phnum - 1 \in Cells
             /\ \A c \in Cells :
                  mem'[c] = IF c >= lphdr_mem /\ c < lphdr_mem + lheader.phnum
                            THEN bytes[c - lphdr_mem + 1] ELSE mem[c]
    <3>1. ASSUME NEW k \in Table
          PROVE  lphdr_mem + k \in Cells /\ mem'[lphdr_mem + k] = Segment(k)
      <4>1. k \in Nat /\ k < lheader.phnum /\ Segment(k) = Program[lheader.phoff + k + 1]
        BY <1>3, HeaderSays
      <4>2. lphdr_mem + k \in Cells /\ lphdr_mem \in Nat
        BY <1>4, <2>6, <4>1, Between, CellsAre
      <4>3. /\ lphdr_mem + k >= lphdr_mem /\ lphdr_mem + k < lphdr_mem + lheader.phnum
            /\ (lphdr_mem + k) - lphdr_mem + 1 = k + 1 /\ k + 1 \in 1 .. lheader.phnum
            /\ lheader.phoff + (k + 1) = lheader.phoff + k + 1
        BY <1>4, <4>1, <4>2, SMTT(30)
      <4>4. mem'[lphdr_mem + k] = bytes[k + 1]
        BY <2>6, <4>2, <4>3
      <4> QED
        BY <2>3, <4>1, <4>2, <4>3, <4>4
    <3>2. TableIs'
      BY <1>1, <2>2, <3>1 DEF TableIs, Table, LPhdr, Segment, Program
    <3>3. LoadInv'
      BY <1>5, <2>2, <2>4, <2>6, <3>2
    <3>4. OwnStep
      <4>1. lphdr_mem \in Int /\ 0 + lheader.phnum <= lheader.phnum /\ lphdr_mem + 0 = lphdr_mem
        BY <1>4, <2>6, CellsAre
      <4>2. \A c \in Cells : mem'[c] # mem[c] =>
              c >= lphdr_mem + 0 /\ c < lphdr_mem + 0 + lheader.phnum
        BY <2>6, <4>1
      <4> QED
        BY <1>3, <1>4, <4>1, <4>2, OwnStore
    <3> QED
      BY <2>2, <3>3, <3>4 DEF LoadsOn
  <2> QED
    BY <2>4, <2>5, <2>6
<1> QED
  BY <1>6, <1>7

LEMMA ZeroStep ==
  ASSUME Loads, UNCHANGED <<at, got, made>>, LZeroImage
  PROVE  LoadsOn /\ OwnStep
<1> DEFINE zeros == [c \in 1 .. TotalSize |-> Zero]
<1>1. /\ UNCHANGED <<lfd, lheader, lphdr_mem, lbase_addr, min_vaddr, max_vaddr, content, open, free, held>>
      /\ lpc = "zero" /\ LStoreCells(lbase_addr, zeros, "segment") /\ li' = 0
  BY DEF LZeroImage, NoCall
<1>2. /\ HeaderIs /\ TableIs /\ MeasureIs /\ Beside /\ Program \in Programs
      /\ Run(lbase_addr, TotalSize) /\ Run(lphdr_mem, lheader.phnum)
      /\ OnlyOpen(lfd, Path) /\ lpc \in FdOpen /\ lheader.phnum \in Nat /\ TotalSize \in Nat
      /\ DOMAIN mem = Cells
  BY <1>1, InLoop, WhileLoading DEF Imaged
<1>3. OnlyOpen(lfd, Path)' /\ Descriptors' /\ UNCHANGED <<content, free, held>>
  BY <1>1, <1>2, FileOpen DEF OnlyOpen, Descriptors
<1>4. Len(zeros) = TotalSize /\ \A c \in 1 .. TotalSize : zeros[c] = Zero
  <2>1. zeros \in [1 .. TotalSize -> {Zero}]
    OBVIOUS
  <2> HIDE DEF zeros
  <2>2. zeros \in Seq({Zero}) /\ DOMAIN zeros = 1 .. TotalSize
    BY <1>2, <2>1, SeqDef
  <2> QED
    BY <1>2, <2>1, <2>2
<1> HIDE DEF zeros
<1>5. /\ UNCHANGED lloaded
      /\ \/ UNCHANGED mem /\ lpc' = "fault"
         \/ /\ lpc' = "segment" /\ DOMAIN mem' = Cells
            /\ TotalSize = 0 \/ (lbase_addr \in Cells /\ lbase_addr + TotalSize - 1 \in Cells)
            /\ \A c \in Cells :
                 mem'[c] = IF c >= lbase_addr /\ c < lbase_addr + TotalSize
                           THEN zeros[c - lbase_addr + 1] ELSE mem[c]
  BY <1>1, <1>2, <1>4, StoreSays
<1>6. CASE UNCHANGED mem /\ lpc' = "fault"
  BY <1>2, <1>3, <1>5, <1>6, Faults
<1>7. CASE /\ lpc' = "segment" /\ DOMAIN mem' = Cells
           /\ TotalSize = 0 \/ (lbase_addr \in Cells /\ lbase_addr + TotalSize - 1 \in Cells)
           /\ \A c \in Cells :
                mem'[c] = IF c >= lbase_addr /\ c < lbase_addr + TotalSize
                          THEN zeros[c - lbase_addr + 1] ELSE mem[c]
  <2>1. lbase_addr \in Nat
    BY <1>2, RunPlace
  <2>2. ASSUME NEW c \in Image
        PROVE  lbase_addr + c \in Cells /\ mem'[lbase_addr + c] = Zero
    <3>1. c \in Nat /\ c < TotalSize
      BY <1>2 DEF Image
    <3>2. lbase_addr + c \in Cells
      BY <1>2, <1>7, <3>1, Between
    <3>3. /\ lbase_addr + c >= lbase_addr /\ lbase_addr + c < lbase_addr + TotalSize
          /\ (lbase_addr + c) - lbase_addr + 1 \in 1 .. TotalSize
      BY <1>2, <2>1, <3>1
    <3> QED
      BY <1>4, <1>7, <3>2, <3>3
  <2>3. ASSUME NEW k \in Table PROVE mem'[lphdr_mem + k] = mem[lphdr_mem + k]
    <3>1. lphdr_mem + k \in Cells /\ lphdr_mem + k \in Nat
      BY <1>2, CellsAre DEF TableIs
    <3>2. ASSUME lphdr_mem + k >= lbase_addr, lphdr_mem + k < lbase_addr + TotalSize PROVE FALSE
      <4> DEFINE c == (lphdr_mem + k) - lbase_addr
      <4>1. c \in Image /\ lphdr_mem + k = lbase_addr + c
        BY <1>2, <2>1, <3>1, <3>2 DEF Image
      <4> QED
        BY <1>2, <4>1 DEF Beside
    <3> QED
      BY <1>7, <3>1, <3>2
  <2>4. Program' = Program /\ Table' = Table /\ Image' = Image /\ TotalSize' = TotalSize
        /\ \A k : Segment(k)' = Segment(k)
    BY <1>1, <1>3 DEF Program, Table, Image, TotalSize, Segment
  <2>5. /\ HeaderIs' /\ MeasureIs' /\ Beside' /\ Run(lbase_addr, TotalSize)'
        /\ Run(lphdr_mem, lheader.phnum)'
    BY <1>1, <1>2, <1>3, <2>4, BootHasStays DEF HeaderIs, MeasureIs, Beside, Run
  <2>6. TableIs'
    BY <1>1, <1>2, <2>3, <2>4 DEF TableIs, LPhdr
  <2>7. CopiedUpTo(li)'
    <3>1. \A v : {k \in Covering(Program, v) : k <= 0} = {}
      BY <1>2 DEF Covering, HeaderIs
    <3>2. \A v : CellIs(Zero, v, 0)
      BY <3>1 DEF CellIs
    <3>3. \A cell, v : CellIs(cell, v, li)' <=> CellIs(cell, v, 0)
      BY <1>1, <2>4 DEF CellIs
    <3> QED
      BY <1>1, <2>2, <2>4, <3>2, <3>3 DEF CopiedUpTo
  <2>8. /\ lpc' \in FdOpen /\ lpc' \notin {"read_header", "read_table", "read_segment"}
    BY <1>7, PcClasses
  <2>9. Progress' /\ File' /\ LImageIsProgram'
    BY <1>2, <1>3, <1>5, <2>8, StepTo
  <2>10. LoadInv'
    BY <1>1, <1>2, <1>7, <2>5, <2>6, <2>7, <2>8, <2>9, WhileLoading
       DEF LoadInv, HeldInv, ImageInv, Looping, Copying, Cells
  <2>11. OwnStep
    <3>1. /\ lbase_addr \in Int /\ 0 + TotalSize <= TotalSize
          /\ \A c \in Cells : mem'[c] # mem[c] =>
               c >= lbase_addr + 0 /\ c < lbase_addr + 0 + TotalSize
      BY <1>2, <1>7, <2>1
    <3> QED
      BY <1>2, <3>1, OwnStore
  <2> QED
    BY <1>3, <2>10, <2>11 DEF LoadsOn
<1> QED
  BY <1>5, <1>6, <1>7

(* The place of a segment's byte in the image, and its number there.       *)
LEMMA Shifted ==
  ASSUME NEW low \in Nat, NEW vaddr \in Nat, NEW off \in Nat, off = vaddr - low,
         NEW c \in Nat, NEW place \in Nat, NEW base \in Nat
  PROVE  LET v == low + c
             j == c - off + 1
         IN  /\ j = v - vaddr + 1 /\ place + j = place + v - vaddr + 1
             /\ place + v - vaddr + 1 = (place + v - vaddr) + 1 /\ place + v - vaddr \in Int
             /\ j \in Int /\ (base + c) - (base + off) + 1 = j
             /\ \A n \in Nat : v \in vaddr .. (vaddr + n - 1) <=> off <= c /\ c < off + n
             /\ \A n \in Nat : off <= c /\ c < off + n <=> j \in 1 .. n
             /\ \A n \in Nat : off <= c /\ c < off + n <=>
                   base + c >= base + off /\ base + c < base + off + n
  OBVIOUS

LEMMA ReadSegmentStep ==
  ASSUME Loads, UNCHANGED <<at, got, made>>, LReadSegment
  PROVE  LoadsOn /\ OwnStep
<1> DEFINE s == Segment(li)
           off == s.vaddr - min_vaddr
           bytes == Bytes(Program, s.offset, s.filesz)
           n == Len(bytes)
           at1 == lbase_addr - min_vaddr + s.vaddr
<1>1. /\ UNCHANGED <<lfd, lheader, lphdr_mem, lbase_addr, min_vaddr, max_vaddr>>
      /\ lpc = "read_segment" /\ (lpc' # "fault" => li' = li + 1)
      /\ LReadInto(lbase_addr - min_vaddr + LPhdr(li).vaddr, LPhdr(li).filesz, "segment")
  BY DEF LReadSegment
<1>2. /\ HeaderIs /\ TableIs /\ MeasureIs /\ Beside /\ Program \in Programs
      /\ Run(lbase_addr, TotalSize) /\ Run(lphdr_mem, lheader.phnum)
      /\ OnlyOpen(lfd, Path) /\ lpc \in FdOpen /\ lheader.phnum \in Nat /\ TotalSize \in Nat
      /\ DOMAIN mem = Cells /\ li \in 0 .. lheader.phnum /\ CopiedUpTo(li)
      /\ li < lheader.phnum => li \in Table /\ LPhdr(li) = s
  BY <1>1, InLoop, WhileLoading DEF Imaged, Looping, Copying
<1>3. li < lheader.phnum /\ LCopied(li) /\ open[lfd].position = LPhdr(li).offset
  BY <1>1 DEF Loads, LoadInv, ImageInv, Copying
<1>4. /\ li \in Table /\ LPhdr(li) = s /\ s.load /\ s.filesz > 0 /\ open[lfd].position = s.offset
      /\ s.offset \in Nat /\ s.vaddr \in Nat /\ s.filesz \in Nat /\ s.memsz \in Nat
      /\ s.filesz <= s.memsz /\ Program \in Seq(CellValues)
      /\ \A k \in Table : k < lheader.phnum
  <2>1. li \in Table /\ LPhdr(li) = s
    BY <1>2, <1>3
  <2> QED
    BY <1>2, <1>3, <2>1, HeaderSays DEF LCopied
<1>5. FileCall(Disk!Read(lfd, s.filesz)) /\ LStoreCells(at1, reply'.bytes, "segment")
  BY <1>1, <1>4 DEF LReadInto
<1>6. /\ OnlyOpen(lfd, Path)' /\ reply'.bytes = bytes
      /\ Descriptors' /\ UNCHANGED <<content, free, held>>
  BY <1>1, <1>2, <1>4, <1>5, LoaderReads
<1>7. /\ n \in Nat /\ n <= s.filesz
      /\ \A c \in 1 .. n : s.offset + c <= Len(Program) /\ bytes[c] = Program[s.offset + c]
      /\ \A c \in 1 .. s.filesz : s.offset + c <= Len(Program) => c <= n
  BY <1>4, BytesRead
<1>8. /\ off \in Nat /\ lbase_addr \in Nat /\ at1 = lbase_addr + off /\ min_vaddr \in Nat
      /\ off + s.filesz <= TotalSize
  <2>1. /\ min_vaddr \in Nat /\ max_vaddr \in Nat /\ min_vaddr <= s.vaddr
        /\ s.vaddr + s.memsz <= max_vaddr
    BY <1>2, <1>4 DEF MeasureIs
  <2>2. lbase_addr \in Nat
    BY <1>2, RunPlace
  <2> HIDE DEF s
  <2> QED
    BY <1>4, <2>1, <2>2, SMTT(30) DEF TotalSize
<1>9. /\ UNCHANGED lloaded
      /\ \/ UNCHANGED mem /\ lpc' = "fault"
         \/ /\ lpc' = "segment" /\ DOMAIN mem' = Cells
            /\ \A c \in Cells :
                 mem'[c] = IF c >= at1 /\ c < at1 + n THEN bytes[c - at1 + 1] ELSE mem[c]
  BY <1>2, <1>5, <1>6, StoreSays
<1>10. CASE UNCHANGED mem /\ lpc' = "fault"
  BY <1>2, <1>6, <1>9, <1>10, Faults
<1>11. CASE /\ lpc' = "segment" /\ DOMAIN mem' = Cells
            /\ \A c \in Cells :
                 mem'[c] = IF c >= at1 /\ c < at1 + n THEN bytes[c - at1 + 1] ELSE mem[c]
  <2>1. Program' = Program /\ Table' = Table /\ Image' = Image /\ TotalSize' = TotalSize
        /\ \A k : Segment(k)' = Segments(Program)[k + 1] /\ Segment(k) = Segments(Program)[k + 1]
    BY <1>1, <1>6 DEF Program, Table, Image, TotalSize, Segment
  <2>2. \A c \in Cells : mem'[c] # mem[c] => c >= lbase_addr + off /\ c < lbase_addr + off + n
    <3> HIDE DEF s, off, bytes, n, at1
    <3> QED
      BY <1>8, <1>11
  <2>3. OwnStep
    <3>1. off + n <= TotalSize /\ lbase_addr \in Int
      <4> HIDE DEF s, off, bytes, n, at1
      <4>1. s.filesz \in Nat
        BY <1>4
      <4> QED
        BY <1>2, <1>7, <1>8, <4>1
    <3> HIDE DEF s, off, bytes, n, at1
    <3> QED
      BY <1>2, <1>7, <1>8, <2>2, <3>1, OwnStore
  <2>4. ASSUME NEW k \in Table PROVE mem'[lphdr_mem + k] = mem[lphdr_mem + k]
    <3>1. lphdr_mem + k \in Cells /\ lphdr_mem + k \in Nat
      BY <1>2, CellsAre DEF TableIs
    <3>2. ASSUME lphdr_mem + k >= lbase_addr + off, lphdr_mem + k < lbase_addr + off + n PROVE FALSE
      <4> DEFINE c == (lphdr_mem + k) - lbase_addr
      <4>1. c \in Image /\ lphdr_mem + k = lbase_addr + c
        <5>1. s.filesz \in Nat
          BY <1>4
        <5> HIDE DEF s, off, bytes, n, at1
        <5> QED
          BY <1>2, <1>7, <1>8, <3>1, <3>2, <5>1, SMTT(30) DEF Image
      <4> QED
        BY <1>2, <4>1 DEF Beside
    <3> HIDE DEF s, off, bytes, n, at1
    <3> QED
      BY <2>2, <3>1, <3>2
  <2>5. /\ HeaderIs' /\ MeasureIs' /\ Beside' /\ Run(lbase_addr, TotalSize)'
        /\ Run(lphdr_mem, lheader.phnum)'
    BY <1>1, <1>2, <1>6, <2>1, BootHasStays DEF HeaderIs, MeasureIs, Beside, Run
  <2>6. TableIs'
    BY <1>1, <1>2, <2>1, <2>4 DEF TableIs, LPhdr
  <2>7. ASSUME NEW c \in Image
        PROVE  /\ lbase_addr + c \in Cells
               /\ CellIs(mem'[lbase_addr + c], min_vaddr + c, li + 1)
    <3> DEFINE v == min_vaddr + c
    <3>1. c \in Nat /\ c < TotalSize /\ lbase_addr + c \in Cells
          /\ CellIs(mem[lbase_addr + c], v, li)
      BY <1>2 DEF CopiedUpTo, Image
    <3>2. CASE off <= c /\ c < off + n
      <4> DEFINE j == c - off + 1
      <4>1. /\ j \in 1 .. n /\ lbase_addr + c >= at1 /\ lbase_addr + c < at1 + n
            /\ (lbase_addr + c) - at1 + 1 = j
            /\ v - s.vaddr + 1 = j /\ v \in s.vaddr .. (s.vaddr + s.filesz - 1)
            /\ s.offset + j = s.offset + v - s.vaddr + 1
            /\ s.offset + v - s.vaddr \in Int /\ s.offset + j \in Int
        <5>1. /\ s.offset \in Nat /\ s.vaddr \in Nat /\ s.filesz \in Nat
              /\ off = s.vaddr - min_vaddr
          BY <1>4
        <5> DEFINE w == s.vaddr
                   p == s.offset
                   z == s.filesz
        <5> HIDE DEF w, p, z, off, bytes, n, at1
        <5>2. /\ p \in Nat /\ w \in Nat /\ off = w - min_vaddr /\ off \in Nat /\ c \in Nat
              /\ lbase_addr \in Nat /\ min_vaddr \in Nat /\ n \in Nat
          BY <1>7, <1>8, <3>1, <5>1 DEF w, p
        <5>3. /\ j = v - w + 1 /\ p + j = p + v - w + 1
              /\ p + v - w + 1 = (p + v - w) + 1 /\ p + v - w \in Int
              /\ j \in Int /\ (lbase_addr + c) - (lbase_addr + off) + 1 = j
              /\ v \in w .. (w + n - 1) /\ j \in 1 .. n
              /\ lbase_addr + c >= lbase_addr + off /\ lbase_addr + c < lbase_addr + off + n
          BY <3>2, <5>2, Shifted
        <5>4. v \in w .. (w + z - 1)
          <6>1. z \in Nat /\ n <= z
            BY <1>7, <5>1 DEF z
          <6>2. off <= c /\ c < off + z
            BY <3>2, <5>2, <6>1
          <6> QED
            BY <5>2, <6>1, <6>2, Shifted
        <5>5. p + j \in Int
          BY <5>2, <5>3
        <5> QED
          BY <1>8, <5>3, <5>4, <5>5 DEF w, p, z
      <4>2. mem'[lbase_addr + c] = bytes[j]
        <5> HIDE DEF s, off, bytes, n, at1, j
        <5> QED
          BY <1>11, <3>1, <4>1
      <4>3. bytes[j] = Program[s.offset + v - s.vaddr + 1] /\ s.offset + j <= Len(Program)
        <5> HIDE DEF s, off, bytes, n, at1, j
        <5> QED
          BY <1>7, <4>1
      <4>4. s.offset + v - s.vaddr < Len(Program)
        <5>1. Len(Program) \in Nat
          BY <1>4
        <5> HIDE DEF s, off, bytes, n, at1, j, v
        <5> QED
          BY <4>1, <4>3, <5>1
      <4>5. li + 1 \in Covering(Program, v)
        BY <1>2, <1>4, <4>1, <4>4, CoversAre
      <4> QED
        BY <1>2, <1>4, <3>1, <4>2, <4>3, <4>5, CellIsNow
    <3>3. CASE ~ (off <= c /\ c < off + n)
      <4>1. mem'[lbase_addr + c] = mem[lbase_addr + c]
        <5> HIDE DEF s, off, bytes, n, at1
        <5> QED
          BY <1>7, <1>8, <2>2, <3>1, <3>3
      <4>2. ASSUME v \in s.vaddr .. (s.vaddr + s.filesz - 1),
                   s.offset + v - s.vaddr < Len(Program)
            PROVE  FALSE
        <5> DEFINE j == v - s.vaddr + 1
        <5>1. /\ s.offset \in Nat /\ s.vaddr \in Nat /\ s.filesz \in Nat
              /\ off = s.vaddr - min_vaddr /\ Len(Program) \in Nat
          BY <1>4
        <5> HIDE DEF s, off, bytes, n, at1
        <5>2. /\ j \in 1 .. s.filesz /\ s.offset + j = (s.offset + v - s.vaddr) + 1
              /\ s.offset + v - s.vaddr \in Int
              /\ j = c - off + 1
          <6> DEFINE w == s.vaddr
                     p == s.offset
                     z == s.filesz
          <6> HIDE DEF w, p, z
          <6>1. /\ p \in Nat /\ w \in Nat /\ z \in Nat /\ off = w - min_vaddr /\ off \in Nat
                /\ c \in Nat /\ lbase_addr \in Nat /\ min_vaddr \in Nat
                /\ v \in w .. (w + z - 1)
            BY <1>8, <3>1, <4>2, <5>1 DEF w, p, z
          <6>2. /\ c - off + 1 = v - w + 1 /\ p + (c - off + 1) = p + v - w + 1
                /\ p + v - w + 1 = (p + v - w) + 1 /\ p + v - w \in Int
                /\ off <= c /\ c < off + z
            BY <6>1, Shifted
          <6>3. c - off + 1 \in 1 .. z
            BY <6>1, <6>2
          <6> QED
            BY <6>2, <6>3 DEF w, p, z
        <5>3. s.offset + j <= Len(Program)
          BY <4>2, <5>1, <5>2
        <5>4. j <= n
          BY <1>7, <5>2, <5>3
        <5>5. j \in 1 .. n
          BY <1>7, <5>2, <5>4
        <5>6. off <= c /\ c < off + n
          BY <1>7, <1>8, <3>1, <5>2, <5>5
        <5> QED
          BY <3>3, <5>6
      <4>3. li + 1 \notin Covering(Program, v)
        BY <1>2, <1>4, <4>2, CoversAre
      <4> QED
        BY <1>2, <1>4, <3>1, <4>1, <4>3, CellIsStill
    <3> QED
      BY <3>1, <3>2, <3>3
  <2>8. CopiedUpTo(li)'
    <3>1. \A cell, v : CellIs(cell, v, li)' <=> CellIs(cell, v, li + 1)
      BY <1>1, <1>11, <2>1 DEF CellIs
    <3> QED
      BY <1>1, <1>11, <2>1, <2>7, <3>1 DEF CopiedUpTo
  <2>9. li' \in 0 .. lheader'.phnum
    BY <1>1, <1>2, <1>3, <1>11
  <2>10. /\ lpc' \in FdOpen /\ lpc' \notin {"read_header", "read_table", "read_segment"}
    BY <1>11, PcClasses
  <2>11. Progress' /\ File' /\ LImageIsProgram'
    BY <1>2, <1>6, <1>9, <2>10, StepTo
  <2>12. LoadInv'
    BY <1>11, <2>5, <2>6, <2>8, <2>9, <2>10, <2>11
       DEF LoadInv, HeldInv, ImageInv, Looping, Copying, Cells
  <2> QED
    BY <1>6, <2>3, <2>12 DEF LoadsOn
<1> QED
  BY <1>9, <1>10, <1>11

LEMMA LoaderStep ==
  ASSUME Loads, UNCHANGED <<at, got, made>>, LStep
  PROVE  LoadsOn /\ OwnStep
<1>1. CASE \/ LStays \/ LOpen \/ LOpenFails \/ LSeekHeader \/ LReadHeader \/ LReject
           \/ LTableMapped \/ LSeekTable \/ LMeasure \/ LImageMapped \/ LSkipSegment
           \/ LCopySegment \/ LSeekSegment \/ LAllCopied \/ LFinish
  <2>1. UNCHANGED mem
    BY <1>1 DEF LStays, LOpen, LOpenFails, LSeekHeader, LReadHeader, LReject, LTableMapped,
       LSeekTable, LMeasure, LImageMapped, LSkipSegment, LCopySegment, LSeekSegment,
       LAllCopied, LFinish
  <2>2. LoadsOn
    BY <1>1, StaysSteps, QuietSteps, OpenStep, OpenFailsStep, ReadHeaderStep, TableMappedStep,
       MeasureStep, ImageMappedStep, SkipStep, FinishStep
  <2> QED
    BY <2>1, <2>2 DEF OwnStep
<1>2. CASE LReadTable \/ LZeroImage \/ LReadSegment
  BY <1>2, ReadTableStep, ZeroStep, ReadSegmentStep
<1> QED
  BY <1>1, <1>2 DEF LStep

-----------------------------------------------------------------------------
(* The calls of load_elf, one by one.                                      *)
LEMMA PlainLocals ==
  /\ ~ Pending =>
       /\ lpc = pc /\ lfd = fd /\ lheader = header /\ lphdr_mem = phdr_mem
       /\ lbase_addr = base_addr /\ li = i /\ lloaded = loaded
  /\ ~ Pending' =>
       /\ lpc' = pc' /\ lfd' = fd' /\ lheader' = header' /\ lphdr_mem' = phdr_mem'
       /\ lbase_addr' = base_addr' /\ li' = i' /\ lloaded' = loaded'
  BY DEF lpc, lfd, lheader, lphdr_mem, lbase_addr, li, lloaded

LEMMA SameLocals ==
  ASSUME UNCHANGED <<at, pc, locals, loaded>>, HasAnswer' <=> HasAnswer,
         Pending => UNCHANGED word,
         Pending /\ pc \notin {"map_table", "map_image"} => UNCHANGED <<reply, SYSCALL_RET>>
  PROVE  UNCHANGED <<lpc, llocals, lloaded>>
<1>1. /\ UNCHANGED <<fd, header, phdr_mem, min_vaddr, max_vaddr, base_addr, i, pc, loaded, at>>
      /\ TotalSize' = TotalSize
  BY DEF locals, TotalSize
<1>2. Pending' <=> Pending
  BY <1>1 DEF Pending
<1>3. CASE ~ Pending
  BY <1>1, <1>2, <1>3, PlainLocals DEF llocals
<1>4. CASE Pending /\ pc \in {"map_table", "map_image"}
  <2>1. AfterCall'[pc] = AfterCall[pc]
    BY <1>4 DEF AfterCall
  <2> QED
    BY <1>1, <1>2, <1>4, <2>1
       DEF llocals, lpc, lfd, lheader, lphdr_mem, lbase_addr, li, lloaded, Address
<1>5. CASE Pending /\ pc \notin {"map_table", "map_image"}
  <2>1. HeaderRight' <=> HeaderRight
    BY <1>5 DEF HeaderRight
  <2>2. AfterCall' = AfterCall
    BY <1>5, <2>1 DEF AfterCall
  <2> QED
    BY <1>1, <1>2, <1>5, <2>1, <2>2
       DEF llocals, lpc, lfd, lheader, lphdr_mem, lbase_addr, li, lloaded
<1> QED
  BY <1>3, <1>4, <1>5

(* What changes of load_elf's locals when the answer to a call is there.   *)
LEMMA Answering ==
  ASSUME at = "loading", ~ HasAnswer, HasAnswer', UNCHANGED <<at, pc, locals, loaded>>
  PROVE  /\ lpc = pc /\ lpc' = AfterCall'[pc]
         /\ UNCHANGED <<min_vaddr, max_vaddr>>
         /\ lfd' = IF pc = "open" THEN SYSCALL_RET' ELSE lfd
         /\ lheader' = IF pc = "read_header" /\ HeaderRight' THEN reply'.bytes[1] ELSE lheader
         /\ lphdr_mem' = IF pc = "map_table" THEN Address(word') ELSE lphdr_mem
         /\ lbase_addr' = IF pc = "map_image" THEN Address(word') ELSE lbase_addr
         /\ li' = IF pc = "read_segment" THEN li + 1 ELSE li
         /\ lloaded' = IF pc = "close" THEN [base_addr |-> lbase_addr, size |-> TotalSize]
                       ELSE lloaded
<1>1. /\ UNCHANGED <<fd, header, phdr_mem, min_vaddr, max_vaddr, base_addr, i, pc, loaded>>
      /\ TotalSize' = TotalSize
  BY DEF locals, TotalSize
<1>2. ~ Pending /\ Pending'
  BY DEF Pending
<1>3. \A n : Address(n)' = Address(n)
  BY DEF Address
<1> QED
  BY <1>1, <1>2, <1>3, PlainLocals
     DEF lpc, lfd, lheader, lphdr_mem, lbase_addr, li, lloaded, Address

LEMMA RequestIs ==
  /\ pc = "open" => Request.arg = {Path}
  /\ pc = "seek_header" => Request.fd = fd /\ Request.arg = 0
  /\ pc = "read_header" => Request.fd = fd /\ Request.arg = 1 /\ Request.to = {}
  /\ pc = "map_table" => Request.arg = Pages(header.phnum)
  /\ pc = "seek_table" => Request.fd = fd /\ Request.arg = header.phoff
  /\ pc = "read_table" =>
       Request.fd = fd /\ Request.arg = header.phnum /\ Request.to = {phdr_mem}
  /\ pc = "map_image" => Request.arg = Pages(TotalSize)
  /\ pc = "seek_segment" => Request.fd = fd /\ Request.arg = Phdr(i).offset
  /\ pc = "read_segment" =>
       /\ Request.fd = fd /\ Request.arg = Phdr(i).filesz
       /\ Request.to = {base_addr - min_vaddr + Phdr(i).vaddr}
  /\ pc \in {"reject", "close"} => Request.fd = fd
  BY DEF Request, Call, CallInto

LEMMA StubNumbers ==
  ASSUME NEW s \in DOMAIN Stubs
  PROVE  /\ Stubs[s] \in {SYS_OPEN, SYS_CLOSE, SYS_SEEK, SYS_READ_FILE, SYS_MMAP}
         /\ Stubs[s] = SYS_OPEN => s = "open"
         /\ Stubs[s] = SYS_CLOSE => s \in {"reject", "close"}
         /\ Stubs[s] = SYS_SEEK => s \in {"seek_header", "seek_table", "seek_segment"}
         /\ Stubs[s] = SYS_READ_FILE => s \in {"read_header", "read_table", "read_segment"}
         /\ Stubs[s] = SYS_MMAP => s \in {"map_table", "map_image"}
  BY Numbers DEF Stubs

(* The handler takes up a call of load_elf.                                *)
LEMMA LoaderServed ==
  ASSUME CallsInv, at = "loading", frames # <<>>, frames[1].stage = "new",
         frames[1].call.num # SYS_MGET
  PROVE  /\ ~ HasAnswer /\ pc \in DOMAIN Stubs /\ frames[1].call = Request
         /\ frames[1].call.num = Stubs[pc]
<1>1. Outer = frames[1] /\ ~ HasAnswer
  BY TopCall DEF CallsInv, HasAnswer
<1>2. LoaderAsked
  BY ScriptSteps DEF CallsInv, Callers
<1> QED
  BY <1>1, <1>2 DEF LoaderAsked

LEMMA LoaderAnswered ==
  ASSUME CallsInv, at = "loading", frames # <<>>, frames[1].stage = "new",
         frames[1].call.num # SYS_MGET, NEW value, Answered(value)
  PROVE  /\ ~ HasAnswer /\ HasAnswer' /\ UNCHANGED <<at, got, made, pc, locals, loaded, mem>>
         /\ SYSCALL_RET' = value
         /\ pc \in DOMAIN Stubs /\ frames[1].call = Request /\ frames[1].call.num = Stubs[pc]
<1>1. frames' # <<>> /\ frames'[1].stage = "done"
  BY ServedDone DEF Answered, CallsInv
<1> QED
  BY <1>1, LoaderServed DEF Answered, loading, HasAnswer

LEMMA LoaderArm ==
  ASSUME CallsInv, at = "loading",
         \/ AnswersInRax \/ AnswersNull \/ OpenArm \/ CloseArm \/ LseekArm \/ SeekArm
         \/ FstatArm \/ ReadArm \/ WriteArm \/ MunmapArm
  PROVE  OpenArm \/ CloseArm \/ SeekArm \/ ReadArm
<1>1. /\ frames # <<>> /\ frames[1].stage = "new"
      /\ frames[1].call.num \in {SYS_WRITE_AT, SYS_EXEC, SYS_EXIT, SYS_YIELD, SYS_OPEN, SYS_CLOSE,
              SYS_LSEEK, SYS_SEEK, SYS_FSTAT, SYS_READ_FILE, SYS_WRITE_FILE, SYS_MUNMAP}
  BY DEF AnswersInRax, AnswersNull, OpenArm, CloseArm, LseekArm, SeekArm, FstatArm, ReadArm,
     WriteArm, MunmapArm, FileArm, MemoryArm, Serving
<1>2. frames[1].call.num \in {SYS_OPEN, SYS_CLOSE, SYS_SEEK, SYS_READ_FILE, SYS_MMAP}
  BY <1>1, LoaderServed, StubNumbers, Numbers
<1> QED
  BY <1>2, Numbers DEF AnswersInRax, AnswersNull, LseekArm, FstatArm, WriteArm, MunmapArm,
     FileArm, MemoryArm, Serving

LEMMA LoaderOpenArm ==
  ASSUME CallsInv, at = "loading", OpenArm
  PROVE  LOpen \/ LOpenFails
<1>1. /\ frames # <<>> /\ frames[1].stage = "new" /\ frames[1].call.num = SYS_OPEN
      /\ Answered(reply'.ret) /\ UNCHANGED memory
      /\ (\E f \in Arg : Disk!Open(f)) \/ Disk!Refuse
  BY DEF OpenArm, FileArm, Serving
<1>2. /\ ~ HasAnswer /\ HasAnswer' /\ UNCHANGED <<at, got, made, pc, locals, loaded, mem>>
      /\ SYSCALL_RET' = reply'.ret /\ pc = "open" /\ Arg = {Path}
  BY <1>1, LoaderAnswered, StubNumbers, RequestIs, Numbers DEF Arg
<1>3. /\ lpc = "open" /\ lpc' = AfterCall'["open"] /\ lfd' = SYSCALL_RET'
      /\ UNCHANGED <<lheader, lphdr_mem, min_vaddr, max_vaddr, lbase_addr, li, lloaded>>
  BY <1>2, Answering
<1>4. AfterCall'["open"] = IF SYSCALL_RET' < 0 THEN "idle" ELSE "seek_header"
  BY DEF AfterCall
<1>5. CASE Disk!Open(Path)
  <2>1. reply'.ret \in FdNumbers
    BY <1>5 DEF Disk!Open, Disk!Returned
  <2>2. reply'.ret \in Nat
    BY <2>1, CallsAssumption
  <2>3. \A n \in Nat : ~ (n < 0)
    OBVIOUS
  <2>4. lpc' = "seek_header"
    BY <1>2, <1>3, <1>4, <2>2, <2>3
  <2> QED
    BY <1>1, <1>2, <1>3, <1>5, <2>4 DEF LOpen, FileCall, LThen, memory
<1>6. CASE Disk!Refuse
  <2>1. reply'.ret = -1
    BY <1>6 DEF Disk!Refuse, Failed
  <2>2. lpc' = "idle"
    BY <1>2, <1>3, <1>4, <2>1
  <2> QED
    BY <1>1, <1>2, <1>3, <1>6, <2>2 DEF LOpenFails, FileCall, LThen, memory
<1> QED
  BY <1>1, <1>2, <1>5, <1>6

LEMMA LoaderSeekArm ==
  ASSUME CallsInv, Loads, SeekArm
  PROVE  LSeekHeader \/ LSeekTable \/ LSeekSegment
<1>1. /\ frames # <<>> /\ frames[1].stage = "new" /\ frames[1].call.num = SYS_SEEK
      /\ Answered(reply'.ret) /\ UNCHANGED memory /\ at = "loading"
      /\ IF IsOpen THEN Disk!SeekTo(Fd, Arg) ELSE Disk!Refuse
  BY DEF SeekArm, FileArm, Serving, Loads
<1>2. /\ ~ HasAnswer /\ HasAnswer' /\ UNCHANGED <<at, got, made, pc, locals, loaded, mem>>
      /\ pc \in {"seek_header", "seek_table", "seek_segment"}
      /\ Fd = Request.fd /\ Arg = Request.arg
  BY <1>1, LoaderAnswered, StubNumbers, Numbers DEF Arg, Fd
<1>3. /\ ~ Pending /\ lpc = pc /\ lpc' = AfterCall'[pc]
      /\ UNCHANGED <<llocals, lloaded>>
      /\ lfd = fd /\ lheader = header /\ li = i /\ lphdr_mem = phdr_mem
  BY <1>1, <1>2, Answering, PlainLocals DEF llocals, Pending
<1>4. lpc \in FdOpen
  BY <1>2, <1>3 DEF FdOpen, HeaderRead, TableKept, TableRead, Measured, Imaged, Looping, Copying
<1>5. Fd = lfd /\ IsOpen
  BY <1>2, <1>3, <1>4, RequestIs, FileOpen DEF IsOpen
<1>6. /\ pc = "seek_header" => Arg = 0 /\ lpc' = "read_header"
      /\ pc = "seek_table" => Arg = lheader.phoff /\ lpc' = "read_table"
      /\ pc = "seek_segment" => Arg = LPhdr(li).offset /\ lpc' = "read_segment"
  BY <1>2, <1>3, RequestIs DEF AfterCall, LPhdr, Phdr
<1>7. FileCall(Disk!SeekTo(lfd, Arg)) /\ UNCHANGED mem
  BY <1>1, <1>2, <1>5 DEF FileCall, memory
<1> QED
  BY <1>2, <1>3, <1>6, <1>7 DEF LSeekHeader, LSeekTable, LSeekSegment, LThen

LEMMA LoaderCloseArm ==
  ASSUME CallsInv, Loads, CloseArm
  PROVE  LReject \/ LFinish
<1>1. /\ frames # <<>> /\ frames[1].stage = "new" /\ frames[1].call.num = SYS_CLOSE
      /\ (\E value : Answered(value)) /\ UNCHANGED memory /\ at = "loading"
      /\ IF Fd \in FdNumbers THEN Disk!Close(Fd) ELSE Disk!Refuse
  BY DEF CloseArm, FileArm, Serving, Loads
<1>2. /\ ~ HasAnswer /\ HasAnswer' /\ UNCHANGED <<at, got, made, pc, locals, loaded, mem>>
      /\ pc \in {"reject", "close"} /\ Fd = Request.fd
  BY <1>1, LoaderAnswered, StubNumbers, Numbers DEF Fd
<1>3. /\ ~ Pending /\ lpc = pc /\ lpc' = AfterCall'[pc]
      /\ UNCHANGED llocals /\ lfd = fd
      /\ lloaded' = IF pc = "close" THEN [base_addr |-> lbase_addr, size |-> TotalSize]
                    ELSE lloaded
  BY <1>1, <1>2, Answering, PlainLocals DEF llocals, Pending
<1>4. lpc \in FdOpen
  BY <1>2, <1>3, PcClasses
<1>5. Fd = lfd /\ Fd \in FdNumbers
  BY <1>2, <1>3, <1>4, RequestIs, FileOpen
<1>6. lpc' = "idle"
  BY <1>2, <1>3 DEF AfterCall
<1>7. FileCall(Disk!Close(lfd)) /\ UNCHANGED mem
  BY <1>1, <1>2, <1>5 DEF FileCall, memory
<1> QED
  BY <1>2, <1>3, <1>6, <1>7 DEF LReject, LFinish, LThen

(* Steps that bring the answer no nearer to load_elf.                      *)
LEMMA LoaderWaits ==
  ASSUME at = "loading", UNCHANGED <<store, free, held, at, pc, locals, loaded, mem>>,
         HasAnswer' <=> HasAnswer, Pending => UNCHANGED word,
         Pending /\ pc \notin {"map_table", "map_image"} => UNCHANGED SYSCALL_RET
  PROVE  LStays
<1>1. UNCHANGED <<lpc, llocals, lloaded>>
  BY SameLocals DEF store
<1> QED
  BY <1>1 DEF LStays, NoCall, store

(* A read: of the header into a local, of the table and of a segment into  *)
(* memory.                                                                 *)
LEMMA LoaderReadArm ==
  ASSUME CallsInv, Loads, ReadArm
  PROVE  LReadHeader \/ LReadTable \/ LReadSegment
<1>1. /\ frames # <<>> /\ frames[1].stage = "new" /\ frames[1].call.num = SYS_READ_FILE
      /\ UNCHANGED memory /\ at = "loading" /\ UNCHANGED <<at, locals>>
      /\ IF IsOpen /\ Arg > 0 THEN Disk!Read(Fd, Arg) ELSE Disk!Refuse
      /\ \/ To = {} /\ UNCHANGED mem /\ Then(pc)
         \/ \E address \in To : StoreCells(address, reply'.bytes, pc)
      /\ pc' = "fault" => frames' = [frames EXCEPT ![1].stage = "fault"]
      /\ pc' # "fault" => Served(reply'.ret) /\ SYSCALL_RET' = reply'.ret
  BY DEF ReadArm, Serving, Loads
<1>2. /\ ~ HasAnswer /\ Arg = Request.arg /\ Fd = Request.fd /\ To = Request.to
      /\ pc \in {"read_header", "read_table", "read_segment"}
  BY <1>1, LoaderServed, StubNumbers, Numbers DEF Arg, Fd, To
<1>3. /\ ~ Pending /\ lpc = pc /\ lfd = fd /\ lheader = header /\ li = i
      /\ lphdr_mem = phdr_mem /\ lbase_addr = base_addr /\ lloaded = loaded
  BY <1>2, PlainLocals DEF Pending
<1>4. lpc \in FdOpen
  BY <1>2, <1>3 DEF FdOpen, HeaderRead, TableKept, TableRead, Measured, Imaged, Looping, Copying
<1>5. Fd = lfd /\ IsOpen
  BY <1>2, <1>3, <1>4, RequestIs, FileOpen DEF IsOpen
<1>6. /\ UNCHANGED loaded /\ pc' \in {pc, "fault"}
      /\ \/ To = {} /\ UNCHANGED mem /\ pc' = pc
         \/ \E address \in To :
              IF Mapped(address, Len(reply'.bytes))
              THEN mem' = Written(address, reply'.bytes) /\ pc' = pc
              ELSE UNCHANGED mem /\ pc' = "fault"
  BY <1>1 DEF StoreCells, Then
<1>7. ASSUME pc' # "fault"
      PROVE  /\ SYSCALL_RET' = reply'.ret /\ lpc' = AfterCall'[pc]
             /\ UNCHANGED <<lfd, lphdr_mem, min_vaddr, max_vaddr, lbase_addr, lloaded>>
             /\ lheader' = IF pc = "read_header" /\ HeaderRight' THEN reply'.bytes[1] ELSE lheader
             /\ li' = IF pc = "read_segment" THEN li + 1 ELSE li
  <2>1. UNCHANGED <<at, pc, locals, loaded>> /\ SYSCALL_RET' = reply'.ret
    BY <1>1, <1>6, <1>7
  <2>2. HasAnswer'
    BY <1>1, <1>7, ServedDone DEF HasAnswer, CallsInv
  <2> QED
    BY <1>1, <1>2, <2>1, <2>2, Answering
<1>8. ASSUME pc' = "fault"
      PROVE  lpc' = "fault" /\ UNCHANGED <<llocals, lloaded>>
  <2>1. frames' # <<>> /\ frames'[1].stage = "fault"
    <3> DEFINE f == [call |-> frames[1].call, stage |-> "fault", gave |-> frames[1].gave]
    <3>1. ASSUME NEW e, IsFrame(e), NEW g, g = [e EXCEPT !.stage = "fault"]
          PROVE  g = [call |-> e.call, stage |-> "fault", gave |-> e.gave]
      BY <3>1 DEF IsFrame
    <3>2. frames' = [frames EXCEPT ![1] = f]
      BY <1>1, <1>8, <3>1, FirstFrame DEF CallsInv
    <3>3. IsFrame(f) /\ f.call = frames[1].call /\ f.stage = "fault"
      BY DEF IsFrame
    <3> HIDE DEF f
    <3> QED
      BY <1>1, <3>2, <3>3, Restaged DEF CallsInv
  <2>2. ~ Pending'
    BY <2>1 DEF Pending, HasAnswer
  <2> QED
    BY <1>1, <1>3, <1>6, <1>8, <2>2, PlainLocals DEF llocals, locals
<1>9. CASE pc = "read_header"
  <2>1. Arg = 1 /\ To = {}
    BY <1>2, <1>9, RequestIs
  <2>2. FileCall(Disk!Read(lfd, 1)) /\ UNCHANGED mem /\ pc' = pc
    BY <1>1, <1>5, <1>6, <2>1 DEF FileCall, memory
  <2>3. AfterCall'["read_header"] = IF HeaderRight' THEN "map_table" ELSE "reject"
    BY DEF AfterCall
  <2>4. HeaderRight' <=>
          reply'.ret = 1 /\ reply'.bytes[1].kind = "header" /\ reply'.bytes[1].elf
    BY <1>7, <1>9, <2>2 DEF HeaderRight
  <2> QED
    BY <1>3, <1>7, <1>9, <2>2, <2>3, <2>4 DEF LReadHeader, LThen
<1>10. CASE pc \in {"read_table", "read_segment"}
  <2> DEFINE count == IF pc = "read_table" THEN lheader.phnum ELSE LPhdr(li).filesz
             place == IF pc = "read_table" THEN lphdr_mem
                      ELSE lbase_addr - min_vaddr + LPhdr(li).vaddr
             next == IF pc = "read_table" THEN "measure" ELSE "segment"
  <2>1. Arg = count /\ To = {place}
    BY <1>2, <1>3, <1>10, RequestIs DEF LPhdr, Phdr
  <2>2. count \in Nat
    <3>1. HeaderIs
      BY <1>3, <1>10 DEF Loads, LoadInv, HeldInv, HeaderRead, TableKept, TableRead, Measured,
         Imaged, Looping, Copying
    <3>2. lheader.phnum \in Nat /\ Program \in Programs
      BY <3>1, HeaderSays DEF Loads
    <3>3. CASE pc = "read_segment"
      <4>1. lpc \in TableRead /\ lpc \in Copying /\ lpc \in Looping
        BY <1>3, <3>3 DEF TableRead, Measured, Imaged, Looping, Copying
      <4>2. TableIs /\ li \in 0 .. lheader.phnum /\ li < lheader.phnum
        BY <4>1 DEF Loads, LoadInv, HeldInv, ImageInv
      <4>3. li \in Table
        BY <3>2, <4>2 DEF Table
      <4> QED
        BY <3>1, <3>2, <3>3, <4>2, <4>3, HeaderSays DEF TableIs
    <3> QED
      BY <1>10, <3>2, <3>3
  <2>3. pc' # "fault" => lpc' = next
    BY <1>7, <1>10 DEF AfterCall
  <2> HIDE DEF count, place, next
  <2>4. Arg > 0 <=> count # 0
    BY <2>1, <2>2
  <2>5. FileCall(IF count = 0 THEN Disk!Refuse ELSE Disk!Read(lfd, count))
    BY <1>1, <1>5, <2>1, <2>4 DEF FileCall, memory
  <2>6. LStoreCells(place, reply'.bytes, next)
    <3>1. CASE Mapped(place, Len(reply'.bytes))
      <4>1. mem' = Written(place, reply'.bytes) /\ pc' # "fault"
        BY <1>6, <1>10, <2>1, <3>1
      <4> QED
        BY <1>7, <2>3, <3>1, <4>1 DEF LStoreCells, LThen
    <3>2. CASE ~ Mapped(place, Len(reply'.bytes))
      <4>1. UNCHANGED mem /\ pc' = "fault"
        BY <1>6, <1>10, <2>1, <3>2
      <4> QED
        BY <1>8, <3>2, <4>1 DEF LStoreCells, LThen
    <3> QED
      BY <3>1, <3>2
  <2>7. LReadInto(place, count, next)
    BY <2>5, <2>6 DEF LReadInto
  <2>8. /\ UNCHANGED <<lfd, lheader, lphdr_mem, min_vaddr, max_vaddr, lbase_addr>>
        /\ pc = "read_table" => UNCHANGED li
        /\ pc = "read_segment" /\ pc' # "fault" => li' = li + 1
    BY <1>7, <1>8, <1>10 DEF llocals
  <2>9. pc' = "fault" => lpc' = "fault"
    BY <1>8
  <2> QED
    BY <1>3, <1>10, <2>7, <2>8, <2>9 DEF LReadTable, LReadSegment, count, place, next, llocals
<1> QED
  BY <1>2, <1>9, <1>10

(* Requests for memory.                                                    *)
LEMMA LoaderMemoryArm ==
  ASSUME CallsInv, at = "loading", MgetAnswers
  PROVE  LTableMapped \/ LImageMapped
<1>1. /\ frames # <<>> /\ frames[1].call.num = SYS_MGET /\ frames[1].stage = "asked"
      /\ Ram!Allocate(Arg) /\ word' = result' /\ Served(result')
      /\ UNCHANGED <<at, pc, locals, loaded, mem, content, open>>
  BY DEF MgetAnswers, MemoryArm, Serving, loading, store
<1>2. ~ HasAnswer /\ HasAnswer'
  BY <1>1, ServedDone DEF HasAnswer, CallsInv
<1>3. LoaderAsked
  BY <1>1, ScriptSteps DEF CallsInv, Callers
<1>4. pc # "fault" /\ pc \in DOMAIN Stubs /\ Outer.call = Request /\ Outer.call.num = Stubs[pc]
  BY <1>1, <1>2, <1>3 DEF LoaderAsked
<1>5. Outer.call.num # SYS_MGET
  BY <1>4, StubNumbers, Numbers
<1>6. Arg = Outer.call.arg /\ Outer.call.num = SYS_MMAP
  BY <1>1, <1>5, TopCall DEF CallsInv, Arg, Call
<1>7. pc \in {"map_table", "map_image"} /\ Arg = Request.arg
  BY <1>4, <1>6, StubNumbers
<1>8. /\ lpc = pc /\ lpc' = AfterCall'[pc]
      /\ UNCHANGED <<lfd, lheader, min_vaddr, max_vaddr, li, lloaded>>
      /\ lphdr_mem' = IF pc = "map_table" THEN Address(result') ELSE lphdr_mem
      /\ lbase_addr' = IF pc = "map_image" THEN Address(result') ELSE lbase_addr
  BY <1>1, <1>2, <1>7, Answering
<1>9. lheader = header
  BY <1>2, PlainLocals DEF Pending
<1>10. /\ pc = "map_table" => lpc' = "seek_table" /\ Arg = Pages(lheader.phnum)
       /\ pc = "map_image" => lpc' = "zero" /\ Arg = Pages(TotalSize)
  BY <1>7, <1>8, <1>9, RequestIs DEF AfterCall
<1> QED
  BY <1>1, <1>7, <1>8, <1>10 DEF LTableMapped, LImageMapped, LThen

LEMMA LoaderMemoryWaits ==
  ASSUME CallsInv, at = "loading", MgetAsks \/ MmapCalls \/ MmapAnswers \/ ReturnToHandler
  PROVE  LStays
<1>1. /\ frames # <<>> /\ UNCHANGED <<store, free, held, at, pc, locals, loaded, mem, word>>
  BY DEF MgetAsks, MmapCalls, MmapAnswers, ReturnToHandler, Iret, MemoryArm, Serving,
     memory, Ram!Ask, loading
<1>2. CASE MgetAsks \/ MmapCalls
  <2>1. frames[1].stage = "new"
    BY <1>2 DEF MgetAsks, MmapCalls, MemoryArm, Serving
  <2>2. frames'[1].stage \in {"asked", "new"}
    BY <1>2, AsksNesting, MmapNesting DEF CallsInv
  <2>3. ~ HasAnswer /\ ~ HasAnswer'
    BY <2>1, <2>2 DEF HasAnswer
  <2> QED
    BY <1>1, <2>3, LoaderWaits DEF Pending
<1>3. CASE MmapAnswers \/ ReturnToHandler
  <2>1. frames[1].stage \in {"called", "done"} /\ HasAnswer
    BY <1>1, <1>3 DEF MmapAnswers, MemoryArm, Serving, ReturnToHandler, Iret, HasAnswer
  <2>2. HasAnswer'
    <3>1. CASE MmapAnswers
      BY <1>1, <3>1, ServedDone DEF MmapAnswers, HasAnswer, CallsInv
    <3>2. CASE ReturnToHandler
      BY <3>2, HandlerNesting DEF HasAnswer, CallsInv
    <3> QED
      BY <1>3, <3>1, <3>2
  <2>3. Outer.call.num = SYS_MMAP
    <3>1. CASE MmapAnswers
      <4>1. frames[1].call.num = SYS_MMAP /\ frames[1].stage = "called"
        BY <3>1 DEF MmapAnswers, MemoryArm, Serving
      <4> QED
        BY <1>1, <4>1, TopCall DEF CallsInv
    <3>2. CASE ReturnToHandler
      <4>1. Len(frames) # 1
        <5>1. Len(frames) > 1 /\ Len(frames) \in Nat
          BY <1>1, <3>2, FirstFrame DEF ReturnToHandler, CallsInv
        <5>2. ASSUME NEW n \in Nat, n > 1 PROVE n # 1
          BY <5>2
        <5> QED
          BY <5>1, <5>2
      <4> QED
        BY <1>1, <4>1, TopCall DEF CallsInv
    <3> QED
      BY <1>3, <3>1, <3>2
  <2>4. LoaderAsked
    BY <1>1, ScriptSteps DEF CallsInv, Callers
  <2>5. pc \in DOMAIN Stubs /\ Stubs[pc] = SYS_MMAP
    BY <2>1, <2>3, <2>4 DEF LoaderAsked
  <2>6. pc \in {"map_table", "map_image"}
    BY <2>5, StubNumbers
  <2> QED
    BY <1>1, <2>1, <2>2, <2>6, LoaderWaits
<1> QED
  BY <1>2, <1>3

(* load_elf makes a call, and reads the answer of one.                     *)
LEMMA LoaderRequests ==
  ASSUME CallsInv, LoaderCalls
  PROVE  LStays
<1>1. /\ frames = <<>> /\ (\E call : Int80(call)) /\ at = "loading"
      /\ UNCHANGED <<store, free, held, at, pc, locals, loaded, mem>>
  BY DEF LoaderCalls, memory, loading
<1>2. frames' # <<>> /\ frames'[1].stage = "new"
  BY <1>1 DEF Int80
<1>3. ~ HasAnswer /\ ~ HasAnswer'
  BY <1>1, <1>2 DEF HasAnswer
<1> QED
  BY <1>1, <1>3, LoaderWaits DEF Pending

LEMMA LoaderReturns ==
  ASSUME CallsInv, ReturnToLoader
  PROVE  LStays
<1>1. /\ frames # <<>> /\ Len(frames) = 1 /\ frames[1].stage = "done" /\ at = "loading"
      /\ frames' = Tail(frames) /\ UNCHANGED <<store, free, held, at, mem>>
      /\ Returns(Answer, reply.bytes)
  BY DEF ReturnToLoader, Iret, memory
<1>2. PICK f : frames = <<f>>
  <2>1. ASSUME NEW f, NEW g, frames = <<f, g>> PROVE FALSE
    BY <1>1, <2>1
  <2> QED
    BY <1>1, <2>1 DEF CallsInv, Nesting
<1>3. frames' = <<>> /\ Outer = frames[1]
  BY <1>1, <1>2 DEF Outer
<1>4. Pending /\ HasAnswer /\ ~ Pending'
  BY <1>1, <1>3 DEF Pending, HasAnswer
<1>5. pc # "fault" /\ pc \in DOMAIN Stubs /\ frames[1].call.num = Stubs[pc]
  BY <1>1, <1>3, ScriptSteps DEF CallsInv, Callers, LoaderAsked
<1>6. Answer = IF pc \in {"map_table", "map_image"} THEN word ELSE SYSCALL_RET
  <2>1. Stubs[pc] \in {SYS_MGET, SYS_MMAP} <=> pc \in {"map_table", "map_image"}
    BY <1>5, Numbers DEF Stubs
  <2> QED
    BY <1>5, <2>1 DEF Answer, ByPointer
<1>7. /\ lpc' = pc' /\ lfd' = fd' /\ lheader' = header' /\ lphdr_mem' = phdr_mem'
      /\ lbase_addr' = base_addr' /\ li' = i' /\ lloaded' = loaded'
  BY <1>4, PlainLocals
<1>8. lpc = AfterCall[pc]
  BY <1>4 DEF lpc
<1> DEFINE same == UNCHANGED <<lpc, lfd, lheader, lphdr_mem, min_vaddr, max_vaddr, lbase_addr, li>>
                   /\ UNCHANGED lloaded
<1>9. ASSUME AnswerIgnored PROVE same
  <2>1. /\ pc \in DOMAIN Onward /\ pc' = Onward[pc] /\ UNCHANGED loaded
        /\ UNCHANGED <<fd, header, phdr_mem, min_vaddr, max_vaddr, base_addr, i>>
    BY <1>9 DEF AnswerIgnored, Then, locals
  <2>2. pc \in {"seek_header", "reject", "seek_table", "read_table", "seek_segment"}
    BY <2>1 DEF Onward
  <2>3. Onward[pc] = AfterCall[pc]
    BY <2>2 DEF Onward, AfterCall
  <2> QED
    BY <1>4, <1>7, <1>8, <2>1, <2>2, <2>3
       DEF lfd, lheader, lphdr_mem, lbase_addr, li, lloaded
<1>10. ASSUME Opened(Answer) PROVE same
  <2>1. pc = "open" /\ AfterCall["open"] = IF SYSCALL_RET < 0 THEN "idle" ELSE "seek_header"
    BY <1>10 DEF Opened, AfterCall
  <2> QED
    BY <1>4, <1>6, <1>7, <1>8, <1>10, <2>1
       DEF Opened, Then, lfd, lheader, lphdr_mem, lbase_addr, li, lloaded
<1>11. ASSUME CheckHeader(Answer, reply.bytes) PROVE same
  <2>1. pc = "read_header" /\ AfterCall["read_header"] = IF HeaderRight THEN "map_table" ELSE "reject"
    BY <1>11 DEF CheckHeader, AfterCall
  <2> QED
    BY <1>4, <1>6, <1>7, <1>8, <1>11, <2>1
       DEF CheckHeader, Then, HeaderRight, lfd, lheader, lphdr_mem, lbase_addr, li, lloaded
<1>12. ASSUME TableMapped(Answer) PROVE same
  <2>1. pc = "map_table" /\ AfterCall["map_table"] = "seek_table"
    BY <1>12 DEF TableMapped, AfterCall
  <2> QED
    BY <1>4, <1>6, <1>7, <1>8, <1>12, <2>1
       DEF TableMapped, Then, lfd, lheader, lphdr_mem, lbase_addr, li, lloaded
<1>13. ASSUME ImageMapped(Answer) PROVE same
  <2>1. pc = "map_image" /\ AfterCall["map_image"] = "zero"
    BY <1>13 DEF ImageMapped, AfterCall
  <2> QED
    BY <1>4, <1>6, <1>7, <1>8, <1>13, <2>1
       DEF ImageMapped, Then, lfd, lheader, lphdr_mem, lbase_addr, li, lloaded
<1>14. ASSUME SegmentRead PROVE same
  <2>1. pc = "read_segment" /\ AfterCall["read_segment"] = "segment"
    BY <1>14 DEF SegmentRead, AfterCall
  <2> QED
    BY <1>4, <1>6, <1>7, <1>8, <1>14, <2>1
       DEF SegmentRead, Then, lfd, lheader, lphdr_mem, lbase_addr, li, lloaded
<1>15. ASSUME Finish PROVE same
  <2>1. pc = "close" /\ AfterCall["close"] = "idle"
    BY <1>15 DEF Finish, AfterCall
  <2>2. UNCHANGED <<fd, header, phdr_mem, min_vaddr, max_vaddr, base_addr, i>>
    BY <1>15 DEF Finish, locals
  <2> QED
    BY <1>4, <1>6, <1>7, <1>8, <1>15, <2>1, <2>2
       DEF Finish, lfd, lheader, lphdr_mem, lbase_addr, li, lloaded
<1>16. same
  BY <1>1, <1>9, <1>10, <1>11, <1>12, <1>13, <1>14, <1>15 DEF Returns
<1> QED
  BY <1>1, <1>16 DEF LStays, NoCall, llocals, store

(* load_elf's own steps.                                                   *)
LEMMA LoaderMoves ==
  ASSUME CallsInv, Loading
  PROVE  LMeasure \/ LZeroImage \/ LSkipSegment \/ LCopySegment \/ LAllCopied
<1>1. /\ at = "loading" /\ Step /\ frames = <<>> /\ frames' = <<>>
      /\ UNCHANGED <<content, open, free, held>>
  BY NotAsking DEF Loading, calling, store, memory
<1>2. ~ Pending /\ ~ Pending'
  BY <1>1 DEF Pending, HasAnswer
<1>3. /\ lpc = pc /\ lfd = fd /\ lheader = header /\ lphdr_mem = phdr_mem
      /\ lbase_addr = base_addr /\ li = i /\ lloaded = loaded
      /\ lpc' = pc' /\ lfd' = fd' /\ lheader' = header' /\ lphdr_mem' = phdr_mem'
      /\ lbase_addr' = base_addr' /\ li' = i' /\ lloaded' = loaded'
  BY <1>2, PlainLocals
<1>4. /\ Loadable = LLoadable /\ \A k : Copied(k) = LCopied(k) /\ Phdr(k) = LPhdr(k)
  BY <1>3 DEF Loadable, LLoadable, Copied, LCopied, Phdr, LPhdr
<1>5. /\ \A next : Then(next) <=> LThen(next)
      /\ \A a, cells, next : StoreCells(a, cells, next) <=> LStoreCells(a, cells, next)
  BY <1>3 DEF Then, LThen, StoreCells, LStoreCells
<1>6. UNCHANGED locals => UNCHANGED llocals
  BY <1>3 DEF locals, llocals
<1>7. CASE Measure
  BY <1>1, <1>3, <1>4, <1>5, <1>7 DEF Measure, LMeasure, NoCall
<1>8. CASE ZeroImage
  BY <1>1, <1>3, <1>5, <1>8 DEF ZeroImage, LZeroImage, NoCall
<1>9. CASE SkipSegment
  BY <1>1, <1>3, <1>4, <1>9 DEF SkipSegment, LSkipSegment, LThen, NoCall
<1>10. CASE CopySegment
  BY <1>1, <1>3, <1>4, <1>5, <1>6, <1>10 DEF CopySegment, LCopySegment, NoCall
<1>11. CASE AllCopied
  BY <1>1, <1>3, <1>5, <1>6, <1>11 DEF AllCopied, LAllCopied, NoCall
<1> QED
  BY <1>1, <1>7, <1>8, <1>9, <1>10, <1>11 DEF Step

(* What happens while load_elf is at work is one of its steps.             *)
LEMMA LoaderSteps ==
  ASSUME CallsInv, Loads, Handler \/ LoaderCalls \/ Loading
  PROVE  LStep /\ UNCHANGED <<at, got, made>>
<1>1. at = "loading" /\ at \notin Steps
  BY ScriptSteps DEF Loads
<1>2. CASE Handler
  <2>1. ~ ReturnToKernel /\ ~ ReturnToApp
    BY <1>1 DEF ReturnToKernel, ReturnToApp
  <2>2. UNCHANGED <<at, got, made>>
    BY <1>2, <2>1 DEF Handler, AnswersInRax, AnswersNull, OpenArm, CloseArm, LseekArm, SeekArm,
       FstatArm, ReadArm, WriteArm, MgetAsks, MgetAnswers, MmapCalls, MmapAnswers, MunmapArm,
       ReturnToHandler, ReturnToLoader, FileArm, MemoryArm, Answered
  <2> QED
    BY <1>1, <1>2, <2>1, <2>2, LoaderArm, LoaderOpenArm, LoaderSeekArm, LoaderCloseArm, LoaderReadArm,
       LoaderMemoryArm, LoaderMemoryWaits, LoaderReturns DEF Handler, LStep
<1>3. CASE LoaderCalls
  BY <1>3, LoaderRequests DEF LoaderCalls, LStep
<1>4. CASE Loading
  BY <1>4, LoaderMoves DEF Loading, calling, LStep
<1> QED
  BY <1>2, <1>3, <1>4

(* Steps of others, while the loader is not at work.                       *)
LEMMA NotLoading ==
  ASSUME LoadInv, UNCHANGED loading, ~ Pending, pc = "idle", at' # "loading",
         at' \in Booting => at \in Booting,
         at' = "app" /\ made' = 0 =>
           at \in {"loading", "app"} /\ made = 0 /\ UNCHANGED content
  PROVE  LoadInv'
<1>1. /\ UNCHANGED <<mem, lpc, lloaded, min_vaddr>> /\ DOMAIN mem' = Cells
      /\ lpc = "idle"
  <2>1. ~ Pending'
    BY DEF Pending
  <2> QED
    BY <2>1, PlainLocals DEF loading, locals, LoadInv
<1>2. Progress'
  BY <1>1 DEF LoadInv, Progress
<1>3. lpc' \notin FdOpen \cup HeaderRead \cup TableKept \cup TableRead \cup Measured \cup Imaged
      /\ lpc' \notin Looping \cup Copying
      /\ lpc' \notin {"read_segment", "read_header", "read_table", "close"}
  BY <1>1, PcClasses
<1>4. at' \in {"loading", "app"} /\ made' = 0 => LImageIsProgram'
  BY <1>1 DEF LoadInv, ImageInv, LImageIsProgram
<1> QED
  BY <1>1, <1>2, <1>3, <1>4 DEF LoadInv, File, HeldInv, ImageInv, Cells

LEMMA OthersKeepLoad ==
  ASSUME CallsInv, LoadInv,
         (Handler /\ at # "loading") \/ BootCalls \/ OpenTest \/ LoadReturns \/ AppMakesCall \/ AppReturns
  PROVE  LoadInv' /\ UNCHANGED mem
<1>1. UNCHANGED loading
  <2>1. CASE Handler /\ at # "loading"
    <3>1. ReadArm => UNCHANGED loading
      BY <2>1, ReadsApart DEF PlainRead, FileArm, Answered
    <3>2. ~ ReturnToLoader
      BY <2>1 DEF ReturnToLoader
    <3> QED
      BY <2>1, <3>1, <3>2
         DEF Handler, AnswersInRax, AnswersNull, OpenArm, CloseArm, LseekArm, SeekArm,
         FstatArm, WriteArm, MgetAsks, MgetAnswers, MmapCalls, MmapAnswers, MunmapArm,
         ReturnToHandler, ReturnToKernel, ReturnToApp, FileArm, MemoryArm, Answered
  <2>2. CASE BootCalls \/ OpenTest \/ LoadReturns \/ AppMakesCall \/ AppReturns
    BY <2>2 DEF BootCalls, OpenTest, LoadReturns, AppMakesCall, AppReturns
  <2> QED
    BY <2>1, <2>2
<1>2. UNCHANGED mem
  BY <1>1 DEF loading
<1>3. at # "loading" => pc = "idle" /\ ~ Pending
  BY DEF CallsInv, Callers, Pending
<1>4. CASE Handler /\ at # "loading"
  <2>1. frames # <<>>
    BY <1>4 DEF Handler, AnswersInRax, AnswersNull, OpenArm, CloseArm, LseekArm, SeekArm,
       FstatArm, ReadArm, WriteArm, MgetAsks, MgetAnswers, MmapCalls, MmapAnswers, MunmapArm,
       ReturnToHandler, ReturnToKernel, ReturnToLoader, ReturnToApp, FileArm, MemoryArm,
       Serving, Iret
  <2>2. UNCHANGED made /\ (at' = at \/ ReturnToKernel \/ ReturnToApp)
    BY <1>4 DEF Handler, AnswersInRax, AnswersNull, OpenArm, CloseArm, LseekArm, SeekArm,
       FstatArm, ReadArm, WriteArm, MgetAsks, MgetAnswers, MmapCalls, MmapAnswers, MunmapArm,
       ReturnToHandler, ReturnToKernel, ReturnToLoader, ReturnToApp, FileArm, MemoryArm,
       Answered
  <2>3. at \in Testing \cup MemorySteps \cup {"munmap", "app"} /\ (at = "app" => made # 0)
    BY <1>4, <2>1, Asked
  <2>4. /\ at # "loading" /\ (at # "app" => at \in Booting)
        /\ at \in Steps => at # "app"
    BY <2>3, ScriptSteps DEF Booting, Testing, MemorySteps
  <2>5. at' # "loading"
        /\ (at' \in Booting => at \in Booting)
        /\ (at' = "app" => at = "app")
    <3>1. CASE at' = at
      BY <2>4, <3>1
    <3>2. CASE ReturnToKernel
      <4>1. at \in DOMAIN Script /\ at' = Afterwards[at] /\ at \in Booting
        BY <2>3, <2>4, <3>2, ScriptSteps DEF ReturnToKernel, Steps
      <4>2. at' # "loading" /\ at' # "app"
        BY <4>1 DEF Afterwards, Script
      <4> QED
        BY <4>1, <4>2
    <3>3. CASE ReturnToApp
      <4>1. at = "app" /\ at' \in {"spin", "app"}
        BY <3>3 DEF ReturnToApp
      <4> QED
        BY <4>1, ScriptSteps DEF Booting
    <3> QED
      BY <2>2, <3>1, <3>2, <3>3
  <2> QED
    BY <1>1, <1>2, <1>3, <1>4, <2>2, <2>3, <2>4, <2>5, NotLoading
<1>5. CASE BootCalls \/ OpenTest
  <2>1. /\ at \in DOMAIN Script \cup {"open"}
        /\ at' \in {at, "read", "mmap"}
    BY <1>5 DEF BootCalls, OpenTest
  <2>2. at \in Booting /\ at # "loading" /\ at' # "loading" /\ at' # "app"
    BY <2>1, ScriptSteps DEF Booting
  <2> QED
    BY <1>1, <1>2, <1>3, <2>2, NotLoading
<1>6. CASE LoadReturns
  <2>1. /\ at = "loading" /\ pc = "idle"
        /\ UNCHANGED <<content, made>>
        /\ at' \in {"app", "end"}
    BY <1>6 DEF LoadReturns, store
  <2>2. at' \notin Booting /\ at' # "loading"
    BY <2>1, ScriptSteps DEF Booting, Steps, Afterwards
  <2>3. ~ Pending
    BY <2>1, NotAsking DEF Pending, HasAnswer
  <2> QED
    BY <1>1, <1>2, <2>1, <2>2, <2>3, NotLoading
<1>7. CASE AppMakesCall \/ AppReturns
  <2>1. /\ at = "app"
        /\ at' \in {"app", "end"}
        /\ at' = "app" => made' = made + 1
    BY <1>7 DEF AppMakesCall, AppReturns
  <2>2. at' = "app" => made' # 0
    BY <2>1 DEF CallsInv, Callers
  <2>3. at' \notin Booting /\ at' # "loading"
    BY <2>1, ScriptSteps DEF Booting, Steps, Afterwards
  <2> QED
    BY <1>1, <1>2, <1>3, <2>1, <2>2, <2>3, NotLoading
<1> QED
  BY <1>4, <1>5, <1>6, <1>7

LEMMA LoadStarts ==
  ASSUME CallsInv, FilesInv, LoadInv, CallLoadElf
  PROVE  LoadInv' /\ UNCHANGED mem
<1>1. /\ at = "load" /\ at' = "loading" /\ lpc' = "open" /\ lloaded' = None
      /\ UNCHANGED <<open, mem>>
  <2>1. /\ at = "load" /\ at' = "loading" /\ pc' = "open" /\ loaded' = None
        /\ UNCHANGED <<open, mem, frames>>
    BY DEF CallLoadElf, LoadElf, store
  <2>2. frames = <<>>
    BY <2>1, ScriptSteps DEF CallsInv, Callers
  <2>3. ~ Pending'
    BY <2>1, <2>2 DEF Pending, HasAnswer
  <2> QED
    BY <2>1, <2>3, PlainLocals
<1>2. AllClosed
  BY <1>1 DEF FilesInv, Booting, Testing
<1>3. /\ lpc' \notin FdOpen \cup HeaderRead \cup TableKept \cup TableRead \cup Measured \cup Imaged
      /\ lpc' \notin Looping \cup Copying
      /\ lpc' \notin {"read_segment", "read_header", "read_table", "close"}
  BY <1>1, PcClasses
<1>4. LImageIsProgram'
  BY <1>1 DEF LImageIsProgram
<1> QED
  BY <1>1, <1>2, <1>3, <1>4 DEF LoadInv, Progress, File, HeldInv, ImageInv, AllClosed, Cells

AllInv == CallsInv /\ MemoryInv /\ FilesInv /\ ContentsInv /\ LoadInv

LEMMA HandlerKeeps ==
  ASSUME AllInv, Handler, at # "loading"
  PROVE  MemoryInv' /\ FilesInv' /\ ContentsInv' /\ LoadInv' /\ UNCHANGED mem
<1>0. (ReadArm => PlainRead) /\ ~ ReturnToLoader
  BY ReadsApart DEF AllInv, ReturnToLoader
<1>1. MemoryInv'
  BY <1>0, ArmsKeepMemory, RequestsKeepMemory, MgetMemory, MunmapMemory, KernelReturnsMemory,
     BootMovesMemory DEF AllInv, Handler
<1>2. FilesInv' /\ ContentsInv'
  BY <1>0, QuietArms, FileArms, KernelReturnsFiles, BootMovesFiles
     DEF AllInv, Handler, FileCalls, LoadInv
<1> QED
  BY <1>1, <1>2, OthersKeepLoad DEF AllInv

LEMMA BootKeeps ==
  ASSUME AllInv, BootCalls \/ AppMakesCall \/ OpenTest \/ CallLoadElf \/ LoadReturns \/ AppReturns
  PROVE  MemoryInv' /\ FilesInv' /\ ContentsInv' /\ LoadInv' /\ UNCHANGED mem
<1>1. MemoryInv'
  BY BootMovesMemory DEF AllInv
<1>2. FilesInv' /\ ContentsInv'
  BY OpensTest, BootMovesFiles DEF AllInv, LoadInv
<1>3. LoadInv' /\ UNCHANGED mem
  BY OthersKeepLoad, LoadStarts DEF AllInv
<1> QED
  BY <1>1, <1>2, <1>3

LEMMA LoadingKeeps ==
  ASSUME AllInv, at = "loading", Handler \/ LoaderCalls \/ Loading
  PROVE  MemoryInv' /\ FilesInv' /\ ContentsInv' /\ LoadInv' /\ OwnStep
<1>1. Loads
  <2>1. Untouched /\ Old = {}
    BY DEF Untouched, Old
  <2> QED
    BY <2>1, TypesOfFiles DEF Loads, AllInv, MemoryInv, BootHolds, ContentsInv, Program
<1>2. LStep /\ UNCHANGED <<at, got, made>>
  BY <1>1, LoaderSteps DEF AllInv
<1>3. LoadsOn /\ OwnStep
  BY <1>1, <1>2, LoaderStep
<1>4. MemoryInv'
  BY <1>2, <1>3, LoadingMemory DEF LoadsOn, AllInv
<1>5. FilesInv' /\ ContentsInv'
  BY <1>2, <1>3, LoadingFiles DEF LoadsOn, AllInv
<1> QED
  BY <1>3, <1>4, <1>5 DEF LoadsOn

LEMMA StutterKeeps ==
  ASSUME AllInv, UNCHANGED allVars
  PROVE  MemoryInv' /\ FilesInv' /\ ContentsInv' /\ LoadInv' /\ UNCHANGED mem
<1>1. /\ UNCHANGED <<content, open, reply, free, held, mem, loaded, pc, at, frames, SYSCALL_RET>>
      /\ UNCHANGED <<word, got, made, fd, header, phdr_mem, min_vaddr, max_vaddr, base_addr, i>>
  BY DEF allVars, store, memory, loading, calling, locals
<1>2. HasAnswer' <=> HasAnswer
  BY <1>1 DEF HasAnswer
<1>3. MemoryInv'
  BY <1>1, <1>2, SameMemory DEF AllInv
<1>4. FilesInv' /\ ContentsInv'
  BY <1>1, <1>2, QuietFiles DEF AllInv
<1>5. UNCHANGED <<lpc, lfd, lheader, lphdr_mem, lbase_addr, li, lloaded>>
  BY <1>1, <1>2, SameLocals DEF locals, llocals
<1>6. HeldInv'
  BY <1>1, <1>5, KeptByStep DEF AllInv, LoadInv, HeldInv
<1>7. /\ LImageIsProgram' = LImageIsProgram
      /\ LCopied(li)' = LCopied(li) /\ LPhdr(li)' = LPhdr(li)
  BY <1>1, <1>5 DEF LImageIsProgram, LCopied, LPhdr
<1>8. CopiedUpTo(li) => CopiedUpTo(li)'
  BY <1>1, <1>5, KeptByStep DEF CopiedUpTo, CellIs
<1>9. ImageInv'
  BY <1>1, <1>5, <1>7, <1>8 DEF AllInv, LoadInv, ImageInv
<1>10. Progress' /\ File'
  BY <1>1, <1>5 DEF AllInv, LoadInv, Progress, File, AllClosed, OnlyOpen
<1> QED
  BY <1>1, <1>3, <1>4, <1>6, <1>9, <1>10 DEF AllInv, LoadInv, Cells

LEMMA EveryStep ==
  ASSUME AllInv, [CallsNext]_allVars
  PROVE  AllInv' /\ OwnStep
<1>1. CallsInv'
  BY CallsStep DEF AllInv
<1>2. CASE Handler /\ at # "loading"
  BY <1>1, <1>2, HandlerKeeps DEF AllInv, OwnStep
<1>3. CASE BootCalls \/ AppMakesCall \/ OpenTest \/ CallLoadElf \/ LoadReturns \/ AppReturns
  BY <1>1, <1>3, BootKeeps DEF AllInv, OwnStep
<1>4. CASE at = "loading" /\ (Handler \/ LoaderCalls \/ Loading)
  BY <1>1, <1>4, LoadingKeeps DEF AllInv
<1>5. CASE UNCHANGED allVars
  BY <1>1, <1>5, StutterKeeps DEF AllInv, OwnStep
<1> QED
  BY <1>2, <1>3, <1>4, <1>5 DEF CallsNext, Boot, LoaderCalls, Loading

LEMMA AtFirst == CallsInit => AllInv
<1> SUFFICES ASSUME CallsInit PROVE AllInv
  OBVIOUS
<1>1. CallsInv
  BY DEF CallsInit, LoaderInit, CallsInv, Nesting, Callers, Answers, KernelGetsItsAnswer, Rank
<1>2. /\ at = "mget" /\ frames = <<>> /\ made = 0 /\ ~ HasAnswer
      /\ got = [s \in Steps |-> NoAnswer]
      /\ pc = "idle" /\ loaded = None /\ DOMAIN mem = Cells
      /\ free \subseteq Sectors /\ held = {}
      /\ open = [d \in FdNumbers |-> Closed]
  BY DEF CallsInit, LoaderInit, Ram!Init, HasAnswer
<1>3. at \in Steps /\ at \notin Testing
  BY <1>2 DEF Steps, Afterwards, Testing
<1>4. \A s \in Steps : got[s] = NoAnswer
  BY <1>2
<1>5. MemoryInv
  <2>1. BootHas = {} /\ New = {} /\ Old = {}
    BY <1>2, <1>4, ScriptSteps DEF BootHas, New, Old, Steps, Afterwards
  <2>2. "mmap" \in Steps /\ "remap" \in Steps /\ MemorySteps \subseteq Steps
    BY DEF Steps, Afterwards, MemorySteps
  <2>3. RunsApart
    BY <1>2 DEF RunsApart
  <2>4. Taken
    BY <1>2, <1>4, <2>2 DEF Taken
  <2>5. BootHolds
    BY <1>2, <2>1 DEF BootHolds
  <2>6. MapAgain
    BY <1>2, <1>4, <2>2 DEF MapAgain
  <2> QED
    BY <2>3, <2>4, <2>5, <2>6 DEF MemoryInv
<1>6. PICK p \in Programs, t \in TestContents :
        content = [f \in {Path, TestFile} |-> IF f = Path THEN p ELSE t]
  BY DEF CallsInit
<1>7. content[Path] = p /\ Text = t /\ DOMAIN content = {Path, TestFile}
  BY <1>6, FileNames DEF Text
<1>8. p \in Seq(CellValues) /\ t \in Seq(CellValues)
  BY ProgramAssumption, CallsAssumption
<1>9. FilesInv
  BY <1>2, <1>3, <1>7, <1>8 DEF FilesInv, Descriptors, AllClosed
<1>10. SelfTestReadsBack
  BY <1>2 DEF SelfTestReadsBack, Tested
<1>11. ContentsInv
  BY <1>2, <1>6, <1>7, <1>10 DEF ContentsInv
<1>12. lpc = "idle" /\ lloaded = None /\ at \notin {"loading", "app"}
  BY <1>2, PlainLocals DEF Pending
<1>13. /\ lpc \notin FdOpen \cup HeaderRead \cup TableKept \cup TableRead \cup Measured \cup Imaged
       /\ lpc \notin Looping \cup Copying
       /\ lpc \notin {"read_segment", "read_header", "read_table", "close"}
  BY <1>12, PcClasses
<1>14. LoadInv
  BY <1>2, <1>12, <1>13 DEF LoadInv, Progress, File, HeldInv, ImageInv
<1> QED
  BY <1>1, <1>5, <1>9, <1>11, <1>14 DEF AllInv

LEMMA AllInvariant == CallsSpec => []AllInv
<1>1. AllInv /\ [CallsNext]_allVars => AllInv'
  BY EveryStep
<1> QED
  BY <1>1, AtFirst, PTL DEF CallsSpec

(* Through requests that fail and a munmap of what was never given, what   *)
(* standard_boot was given and has not given back is exactly the memory    *)
(* that is held, the page it gave back is given again, and neither its     *)
(* test of files nor load_elf leaves a descriptor open.                    *)
THEOREM NothingIsLeftBehind == CallsSpec => []BootLeavesNothing
<1>1. ASSUME AllInv PROVE MemoryAccounted
  <2>1. MemoryInv
    BY <1>1 DEF AllInv
  <2>2. ASSUME frames = <<>>
        PROVE  BootHas \subseteq held /\ (at \in Booting => held = BootHas)
    <3>1. New = {} /\ Old = {}
      BY <2>2 DEF New, Old, HasAnswer
    <3> QED
      BY <2>1, <3>1 DEF MemoryInv, BootHolds
  <2>3. got["remap"] # NoAnswer => got["remap"] = got["mmap"]
    BY <2>1 DEF MemoryInv, MapAgain
  <2> QED
    BY <2>2, <2>3 DEF MemoryAccounted, Booting
<1>2. ASSUME AllInv PROVE FilesClosed
  <2>1. FilesInv /\ File
    BY <1>2 DEF AllInv, LoadInv
  <2>2. {"mmap", "munmap", "remap", "container", "load"} \subseteq Booting \ Testing
    BY DEF Booting, Steps, Afterwards, Testing
  <2>3. at = "loading" /\ pc = "idle" => lpc = "idle"
    BY <1>2, NotAsking, PlainLocals DEF AllInv, Pending, HasAnswer
  <2> QED
    BY <2>1, <2>2, <2>3 DEF FilesInv, File, FilesClosed, AllClosed
<1> QED
  BY <1>1, <1>2, AllInvariant, PTL DEF BootLeavesNothing

(* What standard_boot reads back from its test file is what the file held  *)
(* before and behind it what sys_write_file wrote, whatever the file held, *)
(* however long the buffer and however much of the write succeeded.        *)
THEOREM TestReadsWhatItWrote == CallsSpec => []SelfTestReadsBack
<1>1. AllInv => SelfTestReadsBack
  BY DEF AllInv, ContentsInv
<1> QED
  BY <1>1, AllInvariant, PTL

(* A program that load_elf returned is in memory as its file says when the *)
(* container starts it: the segments where their headers place them,       *)
(* relative to the lowest one, later ones over earlier ones, and zeros.    *)
THEOREM LoadedProgramRuns == CallsSpec => []WhatRunsIsTheProgram
<1>1. ASSUME AllInv, at = "app", made = 0 PROVE ImageIsProgram
  <2>1. LImageIsProgram
    BY <1>1 DEF AllInv, LoadInv, ImageInv
  <2>2. lloaded = loaded
    BY <1>1, PlainLocals DEF Pending
  <2> QED
    BY <2>1, <2>2 DEF LImageIsProgram, ImageIsProgram
<1>2. AllInv => WhatRunsIsTheProgram
  BY <1>1 DEF WhatRunsIsTheProgram
<1> QED
  BY <1>2, AllInvariant, PTL

(* A store of load_elf's, and a store of the handler's for one of its      *)
(* reads, hits only pages that one of load_elf's own sys_mmap was given,   *)
(* none of those standard_boot has, or it faults.                          *)
THEOREM LoaderKeepsToItsPages == CallsSpec => OnlyOwnMemory
<1>1. AllInv /\ [CallsNext]_allVars => OwnStep
  BY EveryStep
<1>2. OwnStep <=>
        \A c \in Cells :
          mem'[c] # mem[c] =>
            \E r \in held \ BootHas : c \div PageSize \in r.start .. (r.start + r.pages - 1)
  BY DEF OwnStep
<1>3. AllInv /\ [CallsNext]_allVars =>
        [\A c \in Cells :
           mem'[c] # mem[c] =>
             \E r \in held \ BootHas : c \div PageSize \in r.start .. (r.start + r.pages - 1)]_allVars
  BY <1>1, <1>2
<1> QED
  BY <1>3, AllInvariant, PTL DEF CallsSpec, OnlyOwnMemory
=============================================================================
