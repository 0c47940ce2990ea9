----------------------------- MODULE SystemCalls -----------------------------
(***************************************************************************)
(* "int 0x80" from both sides: the handler (kernel/src/interrupts.rs), the *)
(* kernel's own stubs (boot/mod.rs) and those of an application            *)
(* (app/src/fscc.rs), with standard_boot's tests of files and memory, the  *)
(* program it then loads (ElfLoader) and what that program may call.       *)
(*                                                                         *)
(* The handler is an x86-interrupt function: on return the compiler's code *)
(* restores every register of the caller, rax among them, whatever the     *)
(* handler moved into it.  What is left of a call is SYSCALL_RET and what  *)
(* the call wrote through a pointer.                                       *)
(***************************************************************************)
EXTENDS ElfLoader

CONSTANTS
  TestContents,    \* what TXT.TXT may hold
  TestData,        \* what standard_boot writes to it
  BufSize,         \* cells that a read asks for
  FreeAtFirst,     \* the sets of pages that may be free when it starts
  ContainerPages,
  MaxCalls         \* bound: calls the application makes

TestFile == "TXT.TXT"

ASSUME CallsAssumption ==
  /\ TestData # <<>> /\ BufSize \in Nat \ {0} /\ ContainerPages \in Nat \ {0}
  /\ FreeAtFirst \subseteq SUBSET Sectors /\ MaxCalls \in Nat
  /\ TestContents \subseteq Seq(CellValues) /\ TestData \in Seq(CellValues)
  /\ FdNumbers \subseteq Nat
  /\ Closed \notin [file : {Path, TestFile}, position : Nat]

VARIABLES
  at,          \* where standard_boot is
  frames,      \* the calls being served, the innermost first
  rax,
  SYSCALL_RET,
  word,        \* what the result pointer of the call points to
  got,         \* the answers standard_boot has in its locals
  told,        \* history: the last answer, and what it should have been
  made         \* history: calls of the application

loading == <<mem, pc, locals, loaded>>
calling == <<at, frames, rax, SYSCALL_RET, word, got, told, made>>
allVars == <<store, memory, loading, calling>>

Disk == INSTANCE FileStore
          WITH Files <- {Path, TestFile}, Bytes <- {}, Payloads <- {}, ReadSizes <- {}

NoAnswer == [ret |-> -2, bytes |-> <<>>]   \* no call returns -2
Afterwards ==
  [mget |-> "open", read |-> "write", write |-> "lseek", lseek |-> "seek",
   seek |-> "reread", reread |-> "close", close |-> "mmap", mmap |-> "munmap",
   munmap |-> "remap", remap |-> "container", container |-> "load"]
Steps == DOMAIN Afterwards \cup {"open"}

CallsInit ==
  /\ \E p \in Programs, t \in TestContents :
       content = [f \in {Path, TestFile} |-> IF f = Path THEN p ELSE t]
  /\ free \in FreeAtFirst /\ Ram!Init
  /\ open = [d \in FdNumbers |-> Closed] /\ reply = Failed
  /\ LoaderInit
  /\ at = "mget" /\ frames = <<>> /\ rax = 0 /\ SYSCALL_RET = 0 /\ word = 0
  /\ got = [s \in Steps |-> NoAnswer]
  /\ told = [by |-> "nobody", num |-> 0, gave |-> 0, got |-> 0]
  /\ made = 0

-----------------------------------------------------------------------------
Int80(call) ==
  /\ frames' = <<[call |-> call, stage |-> "new", gave |-> 0]>> \o frames
  /\ rax' = call.num

(* What standard_boot calls, step by step; its first file is opened by a   *)
(* plain function call, and skipped if there is none.                      *)
Script ==
  LET test == got["open"].ret
  IN  [mget |-> Call(SYS_MGET, 0, 1),
       read |-> Call(SYS_READ_FILE, test, BufSize),
       write |-> Call(SYS_WRITE_FILE, test, TestData),
       lseek |-> Call(SYS_LSEEK, test, 0),
       seek |-> Call(SYS_SEEK, test, 0),
       reread |-> Call(SYS_READ_FILE, test, BufSize),
       close |-> Call(SYS_CLOSE, test, 0),
       mmap |-> Call(SYS_MMAP, 0, 1),
       munmap |-> Call(SYS_MUNMAP, 0, Ram!Region(got["mmap"].ret, 1)),
       remap |-> Call(SYS_MMAP, 0, 1),
       container |-> Call(SYS_MMAP, 0, ContainerPages)]

BootCalls ==
  /\ frames = <<>> /\ at \in DOMAIN Script
  /\ Int80(Script[at])
  /\ word' = 0
  /\ UNCHANGED <<store, memory, loading, at, SYSCALL_RET, got, told, made>>

OpenTest ==
  /\ at = "open"
  /\ \/ Disk!Open(TestFile) /\ at' = "read"
     \/ Disk!Refuse /\ at' = "mmap"
  /\ got' = [got EXCEPT !["open"] = [ret |-> reply'.ret, bytes |-> <<>>]]
  /\ UNCHANGED <<memory, loading, frames, rax, SYSCALL_RET, word, told, made>>

(* The application may call what its library has stubs for.  Its sys_open  *)
(* passes a path that no zero byte ends: it may name any file, or none.    *)
AppCalls ==
  LET calls(nums, args) ==
        {Call(n, d, a) : n \in nums, d \in FdNumbers, a \in args}
  IN  calls({SYS_WRITE_AT, SYS_EXIT, SYS_EXEC, SYS_YIELD, SYS_CLOSE, SYS_FSTAT}, {0})
      \cup calls({SYS_OPEN}, {{Path, TestFile}})
      \cup calls({SYS_LSEEK, SYS_SEEK, SYS_READ_FILE, SYS_MGET, SYS_MMAP}, {1})
      \cup calls({SYS_WRITE_FILE}, {TestData})

AppMakesCall ==
  /\ at = "app" /\ frames = <<>> /\ made < MaxCalls
  /\ made' = made + 1
  /\ \E call \in AppCalls : Int80(call)
  /\ word' = 0
  /\ UNCHANGED <<store, memory, loading, at, SYSCALL_RET, got, told>>

-----------------------------------------------------------------------------
(* The handler.                                                            *)
Serving(nums, stage) ==
  frames # <<>> /\ frames[1].call.num \in nums /\ frames[1].stage = stage

Arg == frames[1].call.arg
Fd == frames[1].call.fd
To == frames[1].call.to
IsOpen == Fd \in FdNumbers /\ open[Fd] # Closed

Served(gave) ==
  frames' = [frames EXCEPT ![1].stage = "done", ![1].gave = gave]

(* Most arms leave their answer in SYSCALL_RET.                            *)
Answered(value) ==
  /\ Served(value) /\ SYSCALL_RET' = value
  /\ UNCHANGED <<loading, at, rax, got, told, made>>

(* Drawing, and exec, which the handler does not know: an answer in rax    *)
(* only.                                                                   *)
AnswersInRax ==
  /\ Serving({SYS_WRITE_AT, SYS_EXEC}, "new")
  /\ rax' \in IF frames[1].call.num = SYS_EXEC THEN {-1} ELSE {0, -1}
  /\ Served(rax')
  /\ UNCHANGED <<store, memory, loading, at, SYSCALL_RET, word, got, told, made>>

AnswersNull ==
  /\ Serving({SYS_EXIT, SYS_YIELD}, "new")
  /\ Answered(0)
  /\ UNCHANGED <<store, memory, word>>

FileArm(num, call, value) ==
  /\ Serving({num}, "new")
  /\ call
  /\ Answered(value)
  /\ UNCHANGED <<memory, word>>

(* A slip: nothing is left in SYSCALL_RET.                                 *)
OpenArmSilent ==
  /\ Serving({SYS_OPEN}, "new")
  /\ (\E f \in Arg : Disk!Open(f)) \/ Disk!Refuse
  /\ Served(reply'.ret)
  /\ UNCHANGED <<memory, loading, at, rax, SYSCALL_RET, word, got, told, made>>

OpenArm ==
  FileArm(SYS_OPEN, (\E f \in Arg : Disk!Open(f)) \/ Disk!Refuse, reply'.ret)

CloseArm ==
  FileArm(SYS_CLOSE, IF Fd \in FdNumbers THEN Disk!Close(Fd) ELSE Disk!Refuse,
          IF Fd \in FdNumbers THEN 0 ELSE -1)

LseekArm ==
  FileArm(SYS_LSEEK, IF IsOpen THEN Disk!SeekTo(Fd, Arg) ELSE Disk!Refuse, reply'.ret)

SeekArm ==
  FileArm(SYS_SEEK, IF IsOpen THEN Disk!SeekTo(Fd, Arg) ELSE Disk!Refuse, reply'.ret)

FstatArm ==
  FileArm(SYS_FSTAT, IF IsOpen THEN Disk!Stat(Fd) ELSE Disk!Refuse,
          IF IsOpen THEN 0 ELSE -1)

(* A read of nothing is refused.  The bytes are stored through the         *)
(* caller's pointer; where it leads nowhere, the handler ends in a page    *)
(* fault.                                                                  *)
ReadArm ==
  /\ Serving({SYS_READ_FILE}, "new")
  /\ IF IsOpen /\ Arg > 0 THEN Disk!Read(Fd, Arg) ELSE Disk!Refuse
  /\ \/ To = {} /\ UNCHANGED mem /\ Then(pc)
     \/ \E address \in To : StoreCells(address, reply'.bytes, pc)
  /\ IF pc' = "fault"
     THEN frames' = [frames EXCEPT ![1].stage = "fault"] /\ UNCHANGED SYSCALL_RET
     ELSE Served(reply'.ret) /\ SYSCALL_RET' = reply'.ret
  /\ UNCHANGED <<memory, locals, at, rax, word, got, told, made>>

(* The bytes "old" with "new" at a place, over a gap perhaps.              *)
Overlaid(old, place, new) ==
  [c \in 1 .. Disk!Larger(Len(old), place + Len(new)) |->
     IF c \in (place + 1) .. (place + Len(new)) THEN new[c - place]
     ELSE IF c <= Len(old) THEN old[c] ELSE Stale]

(* As much of the data as the disk has room for.                           *)
WriteSome(d, data) == \E n \in 1 .. Len(data) :
  /\ content' = [content EXCEPT ![open[d].file] =
                   Overlaid(@, open[d].position, SubSeq(data, 1, n))]
  /\ Disk!Write(d, data)

(* A slip: the answer is what should have been written.                    *)
WriteArmAnswersAll ==
  FileArm(SYS_WRITE_FILE, Disk!Refuse \/ (IsOpen /\ WriteSome(Fd, Arg)), Len(Arg))

(* A write fails if the disk fills up in the gap before the position.      *)
WriteArm ==
  FileArm(SYS_WRITE_FILE, Disk!Refuse \/ (IsOpen /\ WriteSome(Fd, Arg)), reply'.ret)

MemoryArm(num, stage) ==
  Serving({num}, stage) /\ UNCHANGED <<store, loading, at, got, told, made>>

MgetAsks ==
  /\ MemoryArm(SYS_MGET, "new")
  /\ Ram!Ask(Arg)
  /\ frames' = [frames EXCEPT ![1].stage = "asked"]
  /\ UNCHANGED <<rax, SYSCALL_RET, word>>

MgetAnswers ==
  /\ MemoryArm(SYS_MGET, "asked")
  /\ Ram!Allocate(Arg)
  /\ word' = result'
  /\ Served(result') /\ SYSCALL_RET' = 0
  /\ UNCHANGED rax

(* SYS_MMAP is an "int 0x80" from within the handler, which passes on the  *)
(* caller's pointer: the answer is to be what the allocator granted.       *)
MmapCalls ==
  /\ MemoryArm(SYS_MMAP, "new")
  /\ LET waiting == [frames EXCEPT ![1].stage = "called"]
         inner == [call |-> Call(SYS_MGET, 0, Arg), stage |-> "new", gave |-> 0]
     IN  frames' = <<inner>> \o waiting
  /\ rax' = SYS_MGET
  /\ UNCHANGED <<memory, SYSCALL_RET, word>>

MmapAnswers ==
  /\ MemoryArm(SYS_MMAP, "called")
  /\ Served(result) /\ SYSCALL_RET' = 0
  /\ UNCHANGED <<memory, rax, word>>

(* A slip: the loop ends before the last page.                             *)
MunmapArmOneShort ==
  /\ MemoryArm(SYS_MUNMAP, "new")
  /\ IF Arg \in held /\ Arg.pages > 1 THEN Ram!Release(Arg) ELSE UNCHANGED memory
  /\ Served(0) /\ SYSCALL_RET' = 0
  /\ UNCHANGED <<rax, word>>

(* What nobody was given, the answer of a request that failed, is beyond   *)
(* the bitmap and ignored.                                                 *)
MunmapArm ==
  /\ MemoryArm(SYS_MUNMAP, "new")
  /\ IF Arg \in held THEN Ram!Release(Arg) ELSE UNCHANGED memory
  /\ Served(0) /\ SYSCALL_RET' = 0
  /\ UNCHANGED <<rax, word>>

-----------------------------------------------------------------------------
(* The way back: rax is what it was at the "int 0x80".                     *)
Iret ==
  /\ frames # <<>> /\ frames[1].stage = "done"
  /\ frames' = Tail(frames)
  /\ rax' = frames[1].call.num

ReturnToHandler ==
  /\ Iret /\ Len(frames) > 1
  /\ UNCHANGED <<store, memory, loading, at, SYSCALL_RET, word, got, told, made>>

ByPointer == frames[1].call.num \in {SYS_MGET, SYS_MMAP}

Told(by, answer) ==
  told' = [by |-> by, num |-> frames[1].call.num, gave |-> frames[1].gave,
           got |-> answer]

(* The kernel's stubs read SYSCALL_RET.                                    *)
Answer == IF ByPointer THEN word ELSE SYSCALL_RET

ReturnToKernel ==
  /\ Iret /\ Len(frames) = 1 /\ at \in Steps
  /\ LET bytes == IF frames[1].call.num = SYS_READ_FILE THEN reply.bytes ELSE <<>>
     IN  got' = [got EXCEPT ![at] = [ret |-> Answer, bytes |-> bytes]]
  /\ Told("kernel", Answer)
  /\ at' = Afterwards[at]
  /\ UNCHANGED <<store, memory, loading, SYSCALL_RET, word, made>>

ReturnToLoader ==
  /\ Iret /\ Len(frames) = 1 /\ at = "loading"
  /\ Returns(Answer, reply.bytes)
  /\ Told("kernel", Answer)
  /\ UNCHANGED <<store, memory, mem, at, SYSCALL_RET, word, got, made>>

(* Those of the application read rax.  After exit and exec they spin.      *)
ReturnToApp ==
  /\ Iret /\ Len(frames) = 1 /\ at = "app"
  /\ Told("app", IF ByPointer THEN word ELSE rax')
  /\ at' = IF rax' \in {SYS_EXIT, SYS_EXEC} THEN "spin" ELSE "app"
  /\ UNCHANGED <<store, memory, loading, SYSCALL_RET, word, got, made>>

-----------------------------------------------------------------------------
(* load_and_run_container.                                                 *)
CallLoadElf ==
  /\ at = "load" /\ at' = "loading"
  /\ LoadElf
  /\ UNCHANGED <<store, memory, frames, rax, SYSCALL_RET, word, got, told, made>>

LoaderCalls ==
  /\ at = "loading" /\ frames = <<>> /\ pc \in Requesting
  /\ Int80(Request)
  /\ word' = 0
  /\ UNCHANGED <<store, memory, loading, at, SYSCALL_RET, got, told, made>>

Loading ==
  /\ at = "loading" /\ Step
  /\ UNCHANGED <<store, memory, calling>>

LoadReturns ==
  /\ at = "loading" /\ pc = "idle"
  /\ at' = IF loaded = None THEN "end" ELSE "app"
  /\ UNCHANGED <<store, memory, loading, frames, rax, SYSCALL_RET, word, got, told, made>>

AppReturns ==
  /\ at = "app" /\ frames = <<>>
  /\ at' = "end"
  /\ UNCHANGED <<store, memory, loading, frames, rax, SYSCALL_RET, word, got, told, made>>

Handler ==
  \/ AnswersInRax \/ AnswersNull
  \/ OpenArm \/ CloseArm \/ LseekArm \/ SeekArm \/ FstatArm \/ ReadArm \/ WriteArm
  \/ MgetAsks \/ MgetAnswers \/ MmapCalls \/ MmapAnswers \/ MunmapArm
  \/ ReturnToHandler \/ ReturnToKernel \/ ReturnToLoader \/ ReturnToApp

Boot ==
  BootCalls \/ OpenTest \/ CallLoadElf \/ LoaderCalls \/ Loading \/ LoadReturns

CallsNext == Handler \/ Boot \/ AppMakesCall \/ AppReturns

(* The processor goes on with the kernel's code; what an application does  *)
(* is its own affair.                                                      *)
CallsSpec == CallsInit /\ [][CallsNext]_allVars /\ WF_allVars(Handler \/ Boot)

-----------------------------------------------------------------------------
(* What a stub of the kernel returns, to standard_boot or to load_elf, is  *)
(* what the file system or the allocator answered to its own call, never   *)
(* what an earlier call or one nested in it left behind.                   *)
KernelGetsItsAnswer == told.by = "kernel" => told.got = told.gave

(* The same of the application's stubs, where they return an answer.       *)
AppGetsItsAnswer ==
  told.by = "app" /\ told.num \notin {SYS_WRITE_AT, SYS_EXIT, SYS_EXEC, SYS_YIELD} =>
    told.got = told.gave

Tested == Steps \ {"mget", "open", "read", "write", "lseek", "seek", "reread"}

(* standard_boot's test of files shows what it should: the second read     *)
(* returns what the first one did and behind it what was written, as far   *)
(* as the write succeeded and the buffer reaches.                          *)
SelfTestReadsBack ==
  at \in Tested /\ got["open"].ret > 0 =>
    LET before == got["read"].bytes
        wrote == SubSeq(TestData, 1, got["write"].ret)
        all == before \o wrote
    IN  got["reread"].bytes = SubSeq(all, 1, Disk!Smaller(BufSize, Len(all)))

(* The runs standard_boot was given and has not given back.                *)
BootHas ==
  LET gives == {s \in {"mget", "mmap", "remap", "container"} :
                  got[s] # NoAnswer /\ got[s].ret # Nowhere}
      back == IF got["munmap"] # NoAnswer THEN {"mmap"} ELSE {}
      size(s) == IF s = "container" THEN ContainerPages ELSE 1
  IN  {Ram!Region(got[s].ret, size(s)) : s \in gives \ back}

(* No page is held twice or forgotten, through requests that fail and a    *)
(* munmap of an address nobody was given; and the page given back is the   *)
(* one given next.                                                         *)
MemoryAccounted ==
  /\ frames = <<>> => /\ BootHas \subseteq held
                      /\ at \in Steps \cup {"load"} => held = BootHas
  /\ got["remap"] # NoAnswer => got["remap"] = got["mmap"]

(* Neither the test of files nor load_elf, whatever it makes of the file,  *)
(* leaves a descriptor open.                                               *)
FilesClosed ==
  /\ \/ at \in {"mmap", "munmap", "remap", "container", "load", "end"}
     \/ at = "loading" /\ pc = "idle"
  /\ made = 0
  => \A d \in FdNumbers : open[d] = Closed

(* What standard_boot was given and did not give back is the memory that   *)
(* is held, and no descriptor is left open.                                *)
BootLeavesNothing == MemoryAccounted /\ FilesClosed

(* load_elf, and the reads it asks the handler for, write only to pages    *)
(* that one of its own sys_mmap was given: all that is held while it runs  *)
(* but for what standard_boot has.                                         *)
OnlyOwnMemory ==
  [][\A c \in Cells :
       mem'[c] # mem[c] =>
         \E r \in held \ BootHas :
           c \div PageSize \in r.start .. (r.start + r.pages - 1)]_allVars

(* What the container's program starts from is the program in the file.    *)
WhatRunsIsTheProgram == at = "app" /\ made = 0 => ImageIsProgram
==============================================================================
