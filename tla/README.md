# Forward OS, verified in TLA+

TLA+ models of the Forward OS kernel (`src/kernel/src`), its boot loader
(`src/bootloader`) and the library of its applications (`src/app`): how memory
is laid out from the firmware to the first application, the physical memory
manager, the FAT32 file system calls, the AHCI disk driver, the E1000 network
driver and the packets built for it, system calls from both sides with the ELF
loader between them, and the boot menu with what it starts, standard boot or
debug shell, under the executor. TLC checks them on small instances; TLAPS
proves, for all values of the constants, the safety properties of the memory
manager, of the start-up, of the disk driver, of the network driver's rings,
of system calls and ELF loader, of boot and shell, that of the IP headers, and
the first ones of the file system.

Run a check with `tlc -config X.cfg M`, a proof with `tlapm M.tla`.
`PROJECT.json` maps every definition to the lines it stands for. Paths below
are relative to `src/kernel/src`, unless they start with `src/`.

## 1. The system

A UEFI boot loader loads the kernel and passes it the memory map. `kmain` sets
up the memory manager, the heap, paging and interrupts, and asks for a boot
mode: *standard boot* runs a fixed sequence of tests and then one application
in a "container"; the *debug shell* is a loop that shows disk sectors and
obeys a few commands. There is one thread. System calls are `int 0x80` from
kernel code and from the application, at the same privilege level; interrupts
are off (`cli` in `kmain`, interrupt gates; the `sti` on the error paths of
`sys_write_file` lasts until the `iret`, and the I/O APIC's entries are masked). What runs
beside the kernel is hardware: the HBA, the network card, the keyboard, and
the power switch.

| Component | State | Operations | Talks to |
|---|---|---|---|
| Boot loader (`src/bootloader/src/main.rs`) | file buffer, stack, memory map | read the file, copy its segments, leave the firmware | the firmware, then `kmain` |
| Start of kmain, paging (`main.rs`, `paging.rs`) | fixed places, page tables | two passes over the map, allocations, init_os_paging | memory manager |
| Memory manager (`ram.rs`, `main.rs`, `interrupts.rs`) | bitmap of pages, base, total | mark_used, mark_free, is_used, allocate_sectors, allocate_aligned; SYS_MGET, SYS_MMAP, SYS_MUNMAP | called by boot, paging, ELF loader, applications |
| File calls (`boot/fd.rs`, `boot/sys_write_file.rs`, `file.rs`) | FD_TABLE; on disk: FAT, clusters, directory | open, close, read, write, lseek, seek, fstat | reads and writes sectors through the disk driver |
| Disk driver (`ahci.rs`, write_sector) | one command slot, one command table, one DMA buffer, port registers | reset_hba, init_port, read_sector, write_sector | the HBA, which works on its own |
| Network driver (`net/e1000.rs`) | RX ring, TX ring, RDT, TDT | new, setup_rx, setup_tx, receive, send | the card, which works on its own |
| Packets (`net/ip.rs`, `udp.rs`, `icmp.rs`) | none | headers, checksums, build_echo_reply, build_udp_packet | a peer on the network |
| System calls (`interrupts.rs`, `boot/mod.rs`) | SYSCALL_RET, registers | dispatch by number; the stubs of kernel and application | file and memory calls |
| Sample application and its library (`src/app/src`) | - | the stubs | system calls |
| ELF loader (`boot/exec.rs`) | none | load_elf, load_and_run_container | file and memory calls |
| Executor and futures (`executor.rs`, `boot/async_utils.rs`) | WOKEN flag; the counters of the futures | block_on, wake; Yield, Delay, Sleep, Keyboard | polled by boot and shell; TSC timer, keyboard |
| Timer (`boot/timer.rs`) | TSC frequency | measure_frequency, wait_ms | PIT, SleepFuture |
| Containers (`boot/container.rs`) | table of containers, next id | create, stop, state, look-ups, ContainerFuture | memory manager, executor |
| Boot, debug shell (`boot/mod.rs`, `main.rs`) | line buffer, current directory, debug LBA | the sequences that call all the others | everything |
| Key ring, PCI, APIC, screen | ring, registers, pixels | set-up and output | - |

What is hard, and where the properties aim (`PROJECT.json` lists every hazard
at its line):

- *Places that nobody reserved.* Image, stack, bitmap and DMA buffer lie at
  fixed addresses; what protects them is where the firmware and the manager
  happen to allocate. Correct if nobody overwrites them while they are needed.
- *Long sequences of legal calls.* First-fit allocation over a bitmap that is
  shorter than the address range; callers that unmap the answer of a failed
  request. Correct if no page is ever held twice and none is lost.
- *A file as a chain of clusters.* Reads and writes at and beyond cluster
  boundaries, seeks past the end, a disk that fills up half way, two
  descriptors for a file, an empty file without a cluster. Correct if chains
  never meet, sizes are backed by clusters and the calls look like a file
  store to programs.
- *Power failures* between any two of the sectors a write touches.
- *Devices that run by themselves.* One command slot that the next call uses
  again, waits that are bounded by a count and not by the device, a reset that
  comes late; rings whose head the card moves while the driver moves the tail.
- *Answers through one variable.* Every system call leaves its answer in
  SYSCALL_RET, calls nest, and registers are restored behind the handler.
- *Sums in two byte orders*, over data of any length, with carries.
- *Waits without end* in boot and shell.

## 2. Modules

| Module | What it is |
|---|---|
| `Startup` | boot loader, first steps of `kmain`, page tables, and who uses memory afterwards |
| `StartupProofs` | its theorems |
| `PageAllocator` | abstract: a first-fit allocator, one step per call |
| `RamManager` | the bitmap code, one step per loop iteration; implements `PageAllocator` |
| `RamManagerProofs` | its theorems |
| `FileStore` | abstract: files are byte sequences, descriptors are places in them |
| `FileSystem` | the FAT32 code, one step per sector written or cluster visited; implements `FileStore` |
| `FileSystemProofs` | its theorems |
| `AhciPort` | reset_hba, init_port and kmain's search for a port, with a controller that the firmware has used before |
| `Ahci` | on top of it: read_sector, write_sector and the HBA behind the port that was found |
| `AhciProofs` | the theorems of both |
| `ElfLoader` | load_elf: its requests to the kernel and what it does with each answer |
| `SystemCalls` | the handler of `int 0x80`, the stubs of kernel and application, and who calls them: standard_boot's tests, the loader and the program |
| `SystemCallsProofs` | the theorems of both |
| `PacketFifo` | abstract: a bounded queue of packets |
| `E1000Receive` | receive() and the card filling the RX ring |
| `E1000Send` | send() and the card emptying the TX ring |
| `E1000` | reset, link and set-up, then both rings under one caller; implements `PacketFifo` |
| `E1000Proofs` | its theorems |
| `Packets` | the bytes of IP headers, echo replies and datagrams, and a peer that checks them |
| `PacketsProofs` | its theorems |
| `Executor` | block_on and the flag WOKEN |
| `TscTimer` | the calibration of the TSC against the PIT |
| `StandardBoot` | standard_boot from the network to the end; composes `Executor` and `TscTimer` |
| `Shell` | the debug shell under `Executor` |
| `Kernel` | the boot menu; composes `StandardBoot` and `Shell` |
| `KernelProofs` | its theorems |
| `MC...` | the instances TLC checks |

Definitions that begin with the comment "A slip" are not part of a
specification: each is a plausible bug in one definition, which one property
at least must catch when it takes that definition's place.

### Startup

A page holds what was last written to it: `mem` says whose it is and, for a
page table, its entries. The firmware gives the highest run that fits
(`FirmwareGives`), the manager the lowest (`ManagerGives`, which is
`allocate_sectors` seen from outside). `pc` follows the boot loader (the
buffer of the file, the image page by page, a stack, the map), `_start`, then
`kmain`: the first pass over the map, the bitmap written at its fixed place,
the second pass, the allocations, and `init_os_paging` with one step per
directory. In the menu any caller may take and give back runs and fill them,
and any sector read fills the DMA page. `"panic"` is a request of `kmain` or
loader that was refused and unwrapped; `"lost"` is the machine after the
firmware's memory or the map was overwritten while it was still needed.

The 512 entries of a directory are one: they differ from the first by the
offset only (`paging.rs`:48). A layout is one memory map with the firmware's own
pages; that descriptors of the map may be of a size the kernel does not expect
is not modelled.

### RamManager

`bitmap` is the set of pages whose bit is 1; `pc`, `n`, `i`, `consecutive`,
`start_idx` and `j` are the locals of the call in progress, `result` its
answer. `held` is a history variable: the runs given out and not yet unmapped.
`Init` is what `kmain` leaves behind. Note that `total_ram` counts
conventional pages only, so with a hole in the map the bitmap ends below the
highest page; `mark_free` drops what is beyond, `is_used` calls it used.

`ScanUsed`, `RunStart`, `ScanFree` and `ScanExhausted` are the iterations of
`allocate_sectors`; `MarkRun` and `ReturnRun` the marking loop and the return;
`Munmap`, `FreeRun` and `MunmapDone` the loop of SYS_MUNMAP. Callers unmap
runs they hold, or the failed request `standard_boot` may unmap without a
check (`FailedRegion`). `AllocateAligned` is one step: it has no caller, so
there is nothing for a finer grain to interleave with. Alignment arguments of
SYS_MGET and SYS_MMAP are dropped by the code, so they are not parameters.

### FileSystem

`fat`, `data` and `dir` are the disk; cluster 0 is what the directory entry
of an empty file names. `fds` is FD_TABLE. The rest are the locals of the
read or write in progress: a call runs alone, but each sector it writes is a
step of its own, as the power may fail between any two. `sys_read_file` is
`ReadNow` (the early returns) or `ReadBegin`, `ReadSeek`*, `ReadCluster`*,
`ReadDone`. `sys_write_file` is `WriteNow` or `WriteBegin`, then `WriteSeek`
or the triple `AllocCluster`, `LinkCluster`, `TerminateChain` until the
cluster of the position is reached (`WriteSeekDone`; `GapDiskFull` if no
cluster is left), then `WriteSector` for every sector of every cluster, with
`NextCluster` or the triple in between (`DiskFull`), and `WriteDone`, which
moves the position and updates the directory entry. `Crash` clears everything
but the disk.

Abstracted: a name is the position of its entry in the root directory (the
only directory `syscall_open` searches); directory sectors are not split into
entries; time is not modelled. A sector read is taken to succeed: the code
ignores the result of `read_sector` everywhere, and `Ahci` shows what that
may mean.

### AhciPort

`port` holds the registers of each port as far as the driver reads or writes
them; `ae` and `hr` are bits of GHC. PxCMD.ST and FRE are switches of the
driver, CR and FR follow them when the controller gets round to it, or never.
A reset sets every register back, whenever it ends. `pc` is the next register
access; `resets` counts the two calls of `reset_hba`. Every wait is its
counted loop: a poll that does not see its bit takes one off `timeout`, and a
wait has ended well only if something is left of it, so that a bit seen with
the last look counts as a time-out, as in the code. `late` (the last reset was
given up and may still end) and `gaveUp` (ports given up while they were being
started, with their switches on) are history.

The command list, the FIS area and the command table are the same memory for
all ports; "list" says whether a port points there. Its zeroing and the
headers are data the search does not depend on.

### Ahci

`Ahci` extends `AhciPort`: a call of `read_sector` or `write_sector` is
possible once the search is over and has selected a port, and the HBA takes
commands while that port is `InService` (AE set, engine running). The HBA
fetches the command table when it sees bit 0 of PxCI, moves the data, clears
the bit; it may report an error and halt, or hang. A reset that `reset_hba`
gave up may still end, even in the middle of a transfer; it clears PxCI and
drops the command (`ResetDropsCommand`), and `read_sector` takes that for
success, so the properties of transfers let through what happens when `late`.

The waits of the driver are counted loops, so how a device compares with them
is a property of the device: `PollingIsEnough` says commands end within the
polls of `read_sector`, `DelayIsEnough` within the fixed delay of
`write_sector`. A device that failed (`Broken`) exhausts any wait.
`write_sector` looks at the wrong register (PxCLB, whose bit 0 is always 0,
for PxCI), so its "wait" is that delay. The register accesses of each function
are steps; the FIS is abstracted to the operation and the sector.

### ElfLoader and SystemCalls

Both use not the detailed models of file calls and memory calls but what these
were shown to implement: `Disk!Read` and the like are actions of `FileStore`,
`Ram!Ask` and `Ram!Allocate` of `PageAllocator`. `content`, `open`, `reply`,
`free`, `held`, `asked` and `result` are theirs.

In `ElfLoader`, `mem` is the memory, in cells: a cell is a header, a program
header, or a byte, so that a program header is whatever the memory holds where
the loader looks for it. `pc` steps through `load_elf`. Where it makes a system
call, `Request` is the number and the arguments its stub puts into registers,
and one of the actions of `Returns` (`Opened`, `CheckHeader`, `TableMapped`,
`ImageMapped`, `SegmentRead`, `AnswerIgnored`, `Finish`) what it does with the
answer; `Step` is everything between its calls. A store to an address
outside the memory ends in `"fault"`, where `page_fault_handler` halts for
good. Addresses count from the first page that may be given out, which lies
beyond 64 MiB, so that none is a null pointer. An entry point is nothing the
loader looks at, and left out. Files with a program header table that is not
whole, and segments longer in the file than in memory, are excluded by
`ProgramAssumption`: `load_elf` checks neither, and nothing can be said of what
it then does.

`SystemCalls` puts `int 0x80` around it. `frames` is the stack of calls being
served, as SYS_MMAP makes a call of its own from inside the handler; each arm
of the handler is an action that does its work and leaves its answer in
`SYSCALL_RET`, behind a pointer (`word`) or in `rax`, and `Iret` restores
`rax`, which is what the compiler's epilogue of an x86-interrupt function
does. A kernel stub then reads SYSCALL_RET, an application's reads `rax`.
`at` is where standard_boot is: first the tests of files and memory (`Script`),
with `got` the answers in its locals, then the loader, then a program that may
make any call its library has a stub for, in any order.

The loader's calls go the same way: `LoaderCalls` pushes its `Request`,
the arm serves it, and `ReturnToLoader` hands it what the stub reads, from
`SYSCALL_RET` or through the pointer. What a read returns is stored by
`ReadArm`, through the caller's pointer; if that leads nowhere the fault is in
the handler, and the call never returns. `told` and `made` are history: of a
call that has come back, what its arm did (`gave`: the answer of the file
system, or the page the allocator granted, also where a call nested in
another asked for it) and what its stub returned (`got`).

Left out: SYS_WRITE and SYS_READ, whose stubs nobody calls, and what the
stubs' `asm!` blocks clobber beyond what they declare; a caller's other
registers are taken to survive.

### E1000, E1000Receive and E1000Send

`E1000Receive` and `E1000Send` are one ring each, `E1000` instantiates both
and puts before them what `new` does: the reset of a card that the firmware
may have left receiving and sending, the wait for the link, the set-up of both
rings in memory that held anything, and the order in which receiver and
transmitter are enabled. `Init` of the rings is what set-up must establish,
and in `E1000` it is no assumption: `ReceiveIsFifo` fails if descriptors are
not zeroed. Afterwards there is one caller, so a call of `receive` and one of
`send` never overlap, while both halves of the card go on. Memory is granted:
`new` does not look at the answers of `sys_mmap`.

Slots, registers RDH/RDT and TDH/TDT, the DD bit of each descriptor and a
buffer per slot. The card's write of a buffer and its write-back of the
descriptor are two steps; `receive` and `send` are one step per access to
shared memory. `receive` hands out a slice of the ring's own buffer, which
the model keeps (`slice`) until the next call. `poll_receive` is `receive`.
Packets are numbered in the order in which they arrive, so that order, loss
and duplication are visible. The type of a register is `Slots`: wrap-around
is the `% COUNT` of the code.

### Packets

The functions keep no state, so a behaviour is one exchange: a peer's `Ping`
and the kernel's `build_echo_reply`, or `SendUdp`. Bytes are those on the
wire. `calc_checksum` adds up the header's words as this little-endian machine
reads them (`NativeSum`) and stores the result as it is, the peer adds in
network order (`NetworkSum`); ICMP and UDP sums are built from bytes. A short
frame reaches the kernel padded (`Padded`), and the reply echoes the padding.
Ethernet addresses are left out.

### Executor, TscTimer and StandardBoot

`Executor` is the loop of `block_on` with its two polls (`round` is "first" or
"second"), the clearing of WOKEN between them and the test of it after them;
what a poll does is left to the module that uses it. In `StandardBoot` there
are two futures. The first is the block around `sleep_ms(1000)`: its first poll
makes the SleepFuture (`SleepFutureNew`), the polls after it are
`SleepPending` or `SleepReady`. The second is the container's: its poll enters
the program and is over only when that returns (`PollContainer`, then
`AppReturns`, or `LoadFails`), so the program may yield, and set WOKEN,
inside a poll.

`TscTimer` has a step per byte read from the PIT; between two of them the
counter may run on. A tick is one count of the PIT, and the TSC counts ticks
too, as only the ratio of the two matters; `frequency` is per 100 ms and
`TargetCount` is the number of ticks that 100 ms have. `Cut` is the cast to
16 bits (to `PitRange` values). The PIT's channel 2 is taken to count, and to
go on counting when the control word 0xB0 is written at every poll, which is
what an emulated PIT does; nothing in the code loads it or opens its gate.

`pc` follows `standard_boot`: find the card, `E1000::new` (whose inside is
`E1000`'s), send the ARP request, listen for the reply, create the container,
calibrate, sleep, wait for a Shift key, run, halt. Packets arrive from before
the request is out; scan codes wait in the keyboard controller from the start
and are taken one by one.

### Shell and Kernel

The shell is one future, and all its steps but `Round` happen inside a poll of
it: show a sector (`ShowSector`, and `WaitCi`, which has no limit), await a key,
obey it. `NoKey` is the poll of KeyboardFuture that returns Pending; nothing
wakes it, as interrupts are off, so it is `block_on` that must poll again
unasked. A key types a whole word, and a word typed with Shift held is another
word, "?"; a line holds `MaxInput` words for 63 characters. `cd` and `ls` look
for a directory whose name begins with the word (`Hits`), a cluster per step
through the chain; the entries of a cluster are constants, as the shell does
not write. Without a disk both index the array of ports with -1, which panics
(`NoFileSystem`). Which sector is shown is data no step depends on; so are the
arrow keys, `set lba` and `clear`. As in `FileSystem`, the reads of the
walk succeed.

`Kernel` is the menu of `kmain`. It, `standard_boot` and the shell take keys
from one controller, so one pressed in the menu may be read by what it starts;
and F1 means boot, any other key that goes down the shell.

## 3. Runs

Deadlock checking is off only where callers have a bounded number of calls and
may then stop, or the system really halts.

| Run | Instance | Shows |
|---|---|---|
| `ram` | `MCRamManager.cfg` | on a memory map with a hole and a reserved page, requests for 0 to more pages than fit: runs stay apart, only managed RAM is handed out, no page is lost, the code implements first fit, every call returns |
| `startup` | `MCStartup.cfg` | on maps of every size, with holes and firmware anywhere: what stands at a fixed place is intact as long as a heap would fit above the limit; what kmain set up stays intact whatever callers do; the page tables map every address to itself |
| `fs` | `MCFileSystem.cfg` | the structure of the disk, two files, one perhaps open twice, a disk that fills up; every call returns, short writes only on a full disk |
| `fs_store` | `MCFileStore.cfg` | one descriptor per file, one file empty, one power failure: the code implements `FileStore`; no cluster is lost at any sector |
| `disk` | `MCAhci.cfg` | whatever is plugged in and however slow the controller, the search ends; the port found runs on the kernel's memory; engines are stopped before pointers change; then transfers, with a device as fast as the waits but possibly failing: a read that succeeds returns what was last written, a read fails only if the device has, or is still busy with its port's reset, or a reset given up ended late; every call returns |
| `disk_late_answer` | `MCAhciLateAnswer.cfg` | *violated*: after a time-out a late completion is taken for that of the next command |
| `program` | `MCSystemCalls.cfg` | from any free pages, for whole, truncated and broken files: every kernel stub, load_elf's too, gets the answer to its own call; the tests of standard_boot show what they should and leave nothing behind; the image is what the file says, load_elf writes only to pages its own requests were granted, a load ends unless memory was refused |
| `app_answer` | `MCSystemCallsApp.cfg` | *violated*: a stub of the application returns the number of its call |
| `nic` | `MCE1000.cfg` | from any state of the card: every interleaving of card and driver, both rings: receiving is a bounded queue and nothing stale is taken for a packet, the slice in the caller's hands is not overwritten, every packet is returned; no buffer is overwritten before it is sent, order is kept, everything accepted goes out if the ring is never filled |
| `packets` | `MCPackets.cfg` | headers, replies and datagrams at the edges of the ones' complement sum are accepted by a peer, and a ping's data comes back |
| `kernel` | `MCKernel.cfg` | menu, then boot or shell: packets, keys and time come at any moment, with and without a network card or disk: no future is polled after its end, the boot ends if each thing it waits for comes once, the shell takes every key, its current directory is one |
| `boot_sleep` | `MCStandardBootSleep.cfg` | *violated*: the measured frequency is too low and the second is too short |

### Bounds, and why they are enough

- `ram`: a handful of pages, the hole and the limit inside. Every way in
  which runs can lie around a free gap occurs with three runs; the theorems
  do not depend on the size.
- `startup`: machines of 1 to 27 pages above the firmware's first one, 5 of
  them fixed places, 7 needed by kmain: too little memory for the loader, for
  kmain, and more than enough all occur, as do bitmaps of one and of two pages. A hole of
  one page anywhere above the limit, a page of the firmware anywhere,
  even on a fixed place. Two directories of 14 pages map them all. The
  theorems do not depend on any of it.
- `fs`, `fs_store`: clusters of two sectors of one byte each (the smallest
  in which a write may cover a sector, a cluster and a boundary), five
  clusters, two writes (`MaxWrites`), positions up to `MaxPosition`. Two
  writes are what it takes for one to meet what another left: a longer chain,
  a stale size, a disk that is full. In `fs` either file can use up the disk;
  in `fs_store` one file has a spare cluster and the other none, so gaps and
  full disks occur too.
- `disk`: two ports, so that one can fail and leave traces for the next, each
  with a disk, an ATAPI drive or nothing and left running or stopped by the
  firmware; waits of one poll. Two sectors, two values, two calls (three in
  `disk_late_answer`, where a call after the confusion shows it): a write and
  the read that shows whether it was lost. The theorems do not depend on it.
- `program`: eight files (segments with gaps, overlaps, zeroed room and in
  descending order, a table before or behind the data, one truncated, five
  without anything to load), three texts for the test of files (empty, short,
  longer than a read), any of four low pages free and none to five above, and
  two calls of the program, as one can disturb the next.
- `nic`: rings of 3 slots, 5 packets each way, so that every index wraps,
  the receive ring gets full and empty again and sending may reach the last
  slot; every value of the registers before the reset.
- `packets`: addresses, ports and bytes of all zeros, all ones and between;
  pings of lengths around 62 and 64, where the reply is cut; 64 datagrams whose
  last byte runs over the sums, so that a checksum of 0 occurs.
- `kernel`: a byte has 2 values, the PIT 4, and 100 ms have 7 ticks, as 119318
  too is between one and two rounds of the counter; it may start anywhere, so
  the subtraction both saturates and does not. 9 ticks pass at most per
  measurement. A sleep is one period of 100 ms (10 in the code); packets are
  every combination of what the test for a reply looks at; a ring of 2 with 2
  packets, and 2 key strokes in menu and boot, put the awaited one first or
  behind another. Keys in the shell are not bounded, so lines follow each other
  without end; lines of two words are what a command and its argument take.
  The disk has a root of two clusters, the first full and with a deleted
  directory and a file that begin like the directory in the second, which is
  itself full and holds another. `boot_sleep` allows 3 packets and keys.

### Fairness

- A system call in progress goes on (`WF(Step)`, ...), and so does the
  kernel's own code (`WF(Handler \/ Boot)` in `SystemCalls`, `WF(BringUp)` and
  `WF(Transfer)` in `Ahci`): nothing else runs on the processor meanwhile.
  Nobody is obliged to make a call, and an application owes nothing.
- Hardware is fair in what it has been asked to do: a HBA that has not failed
  completes its command (`WF(Work)`), the card sends what it owns. `Fail` is
  not fair, and neither are resets, engines and links: `BringUpEnds` rests on
  the counts of the waits.
- `Kernel`: the processor goes on and time passes. Card, network, PIT reading,
  user, program and disk owe nothing. `KeysAreTaken` has as its premise that
  PxCI is clear again and again (`WaitCi` has no limit, so a shell whose disk
  hangs takes no key any more), and `BootEnds` has what the others
  must do, each as weak as it can be: a reply once in the ring, a Shift
  pressed once, whenever.
- `EveryPacketReturned` needs a driver that goes on polling, which is the
  loop of `standard_boot` (`boot/mod.rs`:454).
- `Startup` and `Packets` state safety only and no fairness.

## 4. What is proved

`RamManagerProofs` (no assumption but that the memory map is a finite set of
page numbers): `TypeCorrect`, `RunsStayApart`, `OnlyManaged`, `NoPageLost`,
`ScanComplete` and `ImplementsFirstFit`. `HeldApart` is not inductive: that
the run returned is free for everybody follows from the scan that found it
and the marking loop behind it. `IInv` therefore says what the bitmap means
at every point of the three loops: *Books* (managed pages are free or held,
never both), *ScanRegisters* (the remembered run is the free run that ends at
`i`), *Marking* (the first j pages marked, the others still free) and
*Freeing*. The refinement maps the page-by-page code to an allocator that
takes one step when a call returns.

`StartupProofs` (assumptions: the fixed places lie below the limit, apart from
each other and in the machine, the heap is the largest single request, and the
DMA page is above the limit): `FixedPlacesAreSafe`,
`KernelStaysIntact`, `AddressesMapToThemselves` and `CallersAreUndisturbed`,
every property of the module. `StartupInv` has five parts: *TypesOK*;
*BooksOK* (free pages and the runs of callers are above the limit and apart);
*KernelOK* (what kmain has been given is neither free nor a caller's, and
holds what kmain wrote); *TablesOK* (each table is a page of its own, and
what it refers to is what it should); *BootOK* (until the kernel has taken
over, image, firmware and map are where they were). The last one carries the
argument why nobody needs to reserve anything: the firmware gives the highest
run that fits, and as long as a run of the size of the heap is left above the
limit, so is one for the smaller requests of the loader, which therefore
never go below; what it is true of is the premise of
`FixedPlacesSafe`.

`FileSystemProofs` (assumptions: a disk formatted without shared clusters,
`FormatAssumption`, and the geometry): `TypeCorrect` holds with power
failures; `ChainsStayApart` and `WritesStayWithinCluster` for runs without
them (`MaxCrashes = 0`): after a power failure between two FAT writes a linked cluster
is still marked free, and `ChainsApart` is then really false. `Inv` carries
what a call's locals mean (the descriptor is open, the position lies at or
after `start`, ...), `AppendInv` what is known of the cluster being appended:
free, linked from nowhere, until it is linked; then linked from `cur` only.

`SizesAreBacked` and `NoClusterIsLost` are about whole chains. They assume
that no power failure is followed by a write (`MaxCrashes = 0` or
`WriteAfterCrash = FALSE`, the setting of `fs_store`; otherwise both are
false, see section 5), and that the property holds of the disk as it was
formatted: size and chain of a file come from outside. A chain is a recursive
function; what it is at
each step (`ChainExists`, `ChainSteps`) is proved from the least step at which
it could fail to be so. From `ChainsApart` follow that a chain visits no cluster
twice (`ChainIsSimple`), ends within as many steps as there are clusters
(`ChainEnds`, by counting) and only grows when the FAT does (`ChainGrows`,
`RoomGrows`). *RoomInv* joins to this that the cluster a write has walked to
is the one its position falls in (*WalkInv*), so that the size it is about to
enter is covered, and that a failed power supply ends all writing
(*QuietInv*). `ShortWritesMeanFull` needs none of these assumptions.

`FilesAreKept` is the refinement: `FileSystem` implements `FileStore`. Its
hypotheses are those of `NoClusterIsLost` and two more, each of which is false
of the code without them (section 5): no file is opened again while it is open
(`~ SharedOpens`), and no two files of the formatted disk share a first
cluster. The latter allows one empty file, since every empty file names cluster
0 and `update_dir_entry` takes the first entry that names the cluster; it stays
true, as a write never changes which cluster is the first.
Byte i of a file lies in place i \div ClusterSize of its chain (`ByteAt`,
`PlaceIs`), so writing one sector changes no byte of another chain
(`ChainsDisjoint`) and appending a cluster changes none at all (`BytesGrow`).
`StoreInv` says what the call under way has done by then:

- *FdsOK*: an open descriptor is of one file and knows its length, and no two
  are of the same;
- *ReadsOK*: what a read has copied are the bytes of the chain from the
  position on, and the walk stands where the next one is;
- *WritesOK*: of the disk as it was when the write began, every other file is
  unchanged and so is this one outside of what was to be written; the
  first `written` bytes from the position on are those of the buffer.

Every step that ends a call is a step of the store (`OpenStep`, `ReadDoneStep`,
`WriteDoneStep`, `RefuseStep`, ...), a power failure is its loss of power
(`CrashStep`), whichever sector it strikes, and all others change nothing it
can see (`HiddenStep`), as the mapping shows a file as it was when the write
under way began.

`AhciProofs`, on `AhciPort` (assumptions: a finite set of port numbers, waits
of any length): `TypeCorrect`, `OneUser`, `SelectedRuns` and `EnginesKeepOrder`,
every safety property of the module, for a controller that need not be fair.
None is inductive: that an engine still stands when the pointers are changed
rests on what two earlier waits saw, and that it stays so on nobody having
turned its switch since. `IInv` lists this for every step of `init_port`:
*Stopping* (what the waits for the engines to stop leave behind), *Starting*
(what a port has gone through so far), *NoReset* (no reset can end in between,
unless the last one was given up), *Chosen* and *Owners* (ports with the
kernel's pointers are behind or at the search, and all but the current one
were given up while they started, as the search only goes up).

The same module, on `Ahci` (any sectors, values and number of calls):
`BringUpHolds` says that every step of the composed driver is a step of
`AhciPort` or a stutter, which brings its theorems over; `NoWriteLost` and
`WorkingDiskIsRead` are the two properties of transfers, under the assumptions
`DelayIsEnough` and `PollingIsEnough`, which are theorem hypotheses here and
values in the cfg. `WorkingDiskIsRead` speaks of every place where `read_sector`
returns false: its second wait runs out, or finds an error, only on a device
that failed; its first wait also on a port that shows BSY, as `init_port` goes
on when its own wait for that runs out. No command of an earlier call is what
it waits for, which is what *OneCommand* is needed for. `DiskInv` follows the one command through the slot:
*OneCommand* (PxCI is set from the issuing of a command to its end, and for
good if the device failed), *Contents* (which of the steps leave disk, buffer
and `latest` in agreement, and where a write that is under way is instead),
*Serving* and *Untouched* (no transfer before the search is over).

`PacketsProofs` (assumption `PacketsAssumption`: data of at most 1000 bytes):
`HeaderVerifies`, `HeadersAccepted`, `PingsAnswered` and `DatagramsAccepted`,
every property of the module. That a sum taken in the wrong byte order checks
in the right one is the algebra of ones' complement: swapping the bytes of a
word multiplies it by 256 modulo 65535, folding keeps the residue, so header
and complement add up to a multiple of 65535 in either order, and a fold of it
that is not 0 is 65535. The sums over payloads are folds over a set in an order
nobody knows. `SumsExist`, `SumBounds` and `SumChanges` are claims about all
subsets of the positions, each from a subset of least size that violates it:
the sum adds one byte to that of a smaller subset, the sum of n bytes does not
overflow the 32 bits it is taken in, and storing a checksum where there were
zeros adds just that checksum (`SumWithChecksum`), from which
`ComplementVerifies` has the result that the receiver sees. The invariant
*ExchangeInv* keeps what a ping was until it is answered: what the reply
copies, and where it goes, depends on the padded frame.

`SystemCallsProofs` (assumptions: `CallsAssumption`, `ProgramAssumption` and
`MemoryAssumption`; that is, files hold cells, buffers are not empty, pages are
numbered from 0 and the answer of a failed request lies behind them, and a
header is followed by its table): `StubsGetTheirAnswers`,
`NothingIsLeftBehind`, `TestReadsWhatItWrote`, `LoadedProgramRuns` and
`LoaderKeepsToItsPages`, every safety property of `SystemCalls` and
`ElfLoader` that holds. `AllInv` has five parts, which lean on each other:
*CallsInv* (calls nest two deep at most, and where the answer is between the
handler and the stub); *MemoryInv* (the runs held are apart; what is held is
what standard_boot has in its locals, but for what the call under way has
already changed; and no page below the one given back is free, so that it is
given again); *FilesInv* (which descriptor is open at each step);
*ContentsInv* (the test file starts with what was read and, behind it, what
the write answered that it wrote; the position is where that leads);
*LoadInv* (per step of `load_elf`: the header is the file's, the table in
memory too, table and image are runs it holds, apart from each other and from
what standard_boot has, with room for all segments, and of the image the first
`i` segments have been copied over zeros). A call of the loader takes several
steps, and its locals are stale until the last: LoadInv speaks of them as they
will be once the answer that is there has been read, so that each call changes
it in one step (`LStep`), the one that serves it. A refused request makes the address of table or image one
behind all memory, so that the next store faults instead of hitting a page of
somebody else.

`E1000Proofs` (assumption: rings of two slots or more): `RingIsFifo`, the
refinement of `PacketFifo`, `SliceIsKept` and `SendsWhatItAccepted`, every
safety property of the driver. `Place` and `Dist` count slots round the ring;
`RoundTheRing` says that they are the code's remainders. *RxInv*: a slot
marked filled lies between the driver's place and the card's, and a card that
is filling a slot has not reached the driver's. *TxInv*: as many slots from TDH
on as packets are unsent hold these packets, marked as not done. Their number
may be that of all slots: then TDT is TDH and the card believes the ring
empty, but the mark still keeps `send` from overwriting anything. `Inv` adds
what set-up has done at each of its steps, from any state of the card.

`KernelProofs` (assumption: clusters that entries and FAT name are on the
disk): `NoFuturePolledAgain` and `ShellStaysInDirectories`. *BootInv* ties the
future `block_on` polls to how far boot or shell have come; *WalkInv* says
that a walk over a directory's chain stays in clusters the root leads to, and
that what `find_directory` returns is the first hit in one of them.

Only model-checked: liveness (`EveryCallReturns`, `BringUpEnds`,
`EveryPacketReturned`, `SentUnlessFull`, `LoadEnds`, `BootEnds`,
`KeysAreTaken`). Every invariant, action property and refinement of the
passing runs is proved.
`ENABLED`, which fairness rests on, and recursive operators are beyond the
prover, and so is the library's induction over data, whose theorems take an
operator. A least element of a set of numbers takes its place where a proof
needs it (`LeastNumber` in three of the modules).

## 5. What the checks found

1. `disk_late_answer`: after a CI time-out `read_sector` (`ahci.rs`:304)
   leaves its command running in the only slot. When it completes later, the
   next command is believed complete: a read returns true with other data.
2. `boot_sleep`: `measure_frequency` (`boot/timer.rs`:33) casts 119318 to
   `u16`, which leaves 53782, and subtracts it from the start of the counter
   with `saturating_sub`. It waits 45 ms or less and takes them for 100, so
   `sleep_ms(1000)` ends in less than half a second. The README calls the
   timer precise to microseconds (`src/README.md`:14), the comment on
   `SleepFuture` the sleep exact (`boot/async_utils.rs`:66).
3. `app_answer`: the stubs of the application (`src/app/src/fscc.rs`:87) take
   `rax` for the answer, which the handler's return restores. `open` returns
   3, its own number, whatever the file. `boot/mod.rs`:21 lists the call as ok.

Seen while modelling, and not a claim of the repository:

- *Disk.* `write_sector` (`boot/sys_write_file.rs`:58) polls PxCLB instead of
  PxCI. What stands between a write and the next call is a delay of 10000
  spins, which a comment in the earlier copy calls sufficient for the DMA
  (`src/kernel/boot/sys_write_file.rs`:76); a device that takes longer loses
  the write (`disk` with `DelayIsEnough = FALSE`). The command header of a
  write never has its W bit set. A reset that ends late clears PxCI under a
  read, which then returns true.
- *Files.* After a power failure between linking a cluster and terminating
  it, writing again makes two files share the cluster (`fs_store` therefore
  only reads after a failure, `WriteAfterCrash = FALSE`); two empty files are
  confused by `update_dir_entry`; bytes in a gap are not zeroed; with two
  descriptors for a file an older size may shorten it.
- *Memory.* Where memory has holes between 64 and 256 MiB, heap or page
  tables may lie on the page of the DMA buffer. The container's memory is
  allocated, but the program runs outside it. The first page standard_boot
  asks for is never given back.
- *Calls and loader.* The library's `open` passes a `str` that does not end
  in NUL. `load_elf` does not look at the lengths of its reads, does not
  compare p_filesz with p_memsz, and keeps the pages of the table in every
  case, also when it then rejects the file (`boot/exec.rs`:59 and 74).
- *Network.* With TX_DESC_COUNT - 1 packets unsent `send` (`net/e1000.rs`:197)
  still accepts one, TDT wraps onto TDH and the ring is empty in the card's
  eyes (`nic` only promises `SentUnlessFull`). Ports and length of a UDP
  header go out byte-swapped: `UdpHeader::new` (`net/udp.rs`:14) swaps them
  and `build_udp_packet` (`net/udp.rs`:79) takes `to_be_bytes` of the result. Bytes 63 and 64 of an echo reply are zero, and
  a longer request panics (`net/icmp.rs`:24). standard_boot never makes the
  card a bus master.
- *Futures.* YieldFuture is never ready, DelayFuture counts polls.
- *Shell.* `cd ..` goes to the root from anywhere, `ls ..` shows nothing in a
  directory below the root, as ".." there names cluster 0, `cd` and `ls`
  without a disk panic, and a Shift that was pressed in the menu, or is held
  while the other one is let go, does not count.

## 6. Not modelled, and why

- The FAT's second copy and the overlap of "cluster 0" with its last sectors:
  the model gives cluster 0 bytes of its own. Entries past the last cluster
  of the volume: the code never reads the number of clusters.
- Sector errors as the file system sees them: the code ignores the result of
  `read_sector` everywhere (`boot/fd.rs`:113). `FileSystem` takes reads to
  succeed, which `WorkingDiskIsRead` shows of a disk that works, is done with
  the reset of its port and has no reset under way that the driver gave up.
- The key ring and the APIC: `keyboard_handler` fills the ring, and
  interrupts never get through. A torn read of the PIT may end the calibration
  early or late; `kernel` has it, but no property bounds how far off the
  frequency is.
- Drawing, PCI scanning, wait_ms, stop_container, look-ups by address and the
  futures that nobody awaits.
- In the boot loader, graphics mode and the parsing of the ELF headers.
- The stale copies under `src/kernel/boot` and `src/kernel/net`, which the
  crate does not include.

## 7. What is left

`FileSystem` with the failures of `Ahci`: an ignored read error rewrites a
sector with the bytes of another. A composition of the two would take over
`fs` and `fs_store`, as `disk` and `program` have done with their parts.
