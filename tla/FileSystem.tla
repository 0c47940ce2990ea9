----------------------------- MODULE FileSystem -----------------------------
(***************************************************************************)
(* The FAT32 file system calls: kernel/src/boot/fd.rs (open, read, seek,   *)
(* close, fstat), kernel/src/boot/sys_write_file.rs (write) and the walk   *)
(* of kernel/src/file.rs they share.                                       *)
(*                                                                         *)
(* The disk is a file allocation table, the clusters' bytes and the root   *)
(* directory.  A system call runs alone, but the power may fail between    *)
(* any two sectors it writes, so every write of a sector is a step.        *)
(***************************************************************************)
EXTENDS Integers, Sequences, FiniteSets

CONSTANTS
  LastEntry,         (* the FAT has entries 2 .. LastEntry for clusters    *)
  SectorSize,        (* bytes of a sector, 512 in the code                 *)
  SectorsPerCluster,
  MaxFd,             (* 255 in the code                                    *)
  FdArgs,            (* the descriptors callers pass, bad ones included    *)
  Bytes,
  Payloads,          (* what a caller writes                               *)
  ReadSizes,         (* the buffer sizes callers read into                 *)
  Offsets,           (* offsets passed to lseek and seek                   *)
  MaxPosition,       (* bound: positions sought are at most this           *)
  MaxWrites,         (* bound: calls of write in a behaviour               *)
  SharedOpens,       (* may a file be opened again while it is open?       *)
  MaxCrashes,        (* bound: power failures in a behaviour               *)
  WriteAfterCrash,   (* is the disk written again after a power failure?   *)
  Closed,            (* FD_TABLE[d] is None                                *)
  RootCluster,       (* where the root directory is                        *)
  FormattedFat,      (* the FAT, bytes and root directory found on disk    *)
  FormattedData,
  FormattedDir

Free == 0                  (* FAT entry of a free cluster                *)
EOC  == 268435455          (* 0x0FFFFFFF, end of a chain                 *)
None == EOC

(* A call returns a number and may fill the caller's buffer.               *)
Returned(n) == [ret |-> n, bytes |-> <<>>]
ReadBytes(got) == [ret |-> Len(got), bytes |-> got]
Failed == Returned(-1)

ClusterSize == SectorsPerCluster * SectorSize
Entries == 2 .. LastEntry
Table == {0} \union Entries   (* cluster 0 is what an empty file names   *)
FdTable == 0 .. MaxFd
Names == 1 .. Len(FormattedDir)
Offs == 0 .. (ClusterSize - 1)

ASSUME GeometryAssumption ==
  /\ LastEntry \in Nat /\ LastEntry >= 2 /\ LastEntry < EOC
  /\ SectorSize \in Nat \ {0} /\ SectorsPerCluster \in Nat \ {0}
  /\ MaxFd \in Nat /\ MaxFd >= 3
  /\ SharedOpens \in BOOLEAN /\ WriteAfterCrash \in BOOLEAN
  /\ MaxCrashes \in Nat /\ MaxWrites \in Nat /\ MaxPosition \in Nat
  /\ Offsets \subseteq Int /\ FdArgs \subseteq Nat /\ ReadSizes \subseteq Nat
  /\ Payloads \subseteq Seq(Bytes)
  /\ RootCluster \in Entries

(* An entry of FD_TABLE that is None is told from one that is Some.        *)
ASSUME ClosedAssumption ==
  /\ Closed \notin [cluster : Nat, position : Nat, file_size : Nat]
  /\ Closed \notin [file : Nat, position : Nat]

(* The disk as it was formatted, and files put on it, elsewhere.           *)
ASSUME DiskAssumption ==
  /\ FormattedFat \in [Table -> {Free, EOC} \union Entries]
  /\ FormattedData \in [Table -> [Offs -> Bytes]]
  /\ FormattedDir \in Seq([cluster : Table, size : Nat])

(* No cluster is shared and none in use is marked free.                    *)
ASSUME FormatAssumption ==
  LET heads == {RootCluster} \union {FormattedDir[f].cluster : f \in Names}
      linked == {c \in Table : FormattedFat[c] \in Entries}
  IN /\ \A c, e \in linked : FormattedFat[c] = FormattedFat[e] => c = e
     /\ \A c \in linked : /\ FormattedFat[c] \notin heads
                         /\ FormattedFat[FormattedFat[c]] # Free
     /\ \A h \in heads : FormattedFat[h] # Free

VARIABLES
  fat,       (* the FAT on disk                                            *)
  data,      (* the bytes of each cluster on disk                          *)
  dir,       (* root directory entries, in directory order                 *)
  fds,       (* FD_TABLE                                                   *)
  pc,        (* "idle", or where the call in progress is                   *)
  fd,        (* its descriptor                                             *)
  buf,       (* bytes to write, or bytes read so far                       *)
  want,      (* max_read                                                   *)
  cur,       (* cur_cluster                                                *)
  start,     (* cluster_start, the file offset of cur                      *)
  written,   (* bytes of whole clusters written so far                     *)
  sector,    (* sector of the cluster being written                        *)
  new,       (* cluster chosen by alloc_cluster                            *)
  reply,     (* what the last call returned                                *)
  writes,    (* history: writes begun                                      *)
  crashes,   (* history: power failures                                    *)
  stable     (* history: the files as they were when a write began         *)

disk == <<fat, data, dir>>
locals == <<fd, buf, want, cur, start, written, sector, new>>
vars == <<disk, fds, pc, locals, reply, writes, crashes, stable>>

Smaller(a, b) == IF a < b THEN a ELSE b

next_cluster(c) == IF fat[c] = Free THEN None ELSE fat[c]

(* alloc_cluster: the first free entry of the FAT.                         *)
FirstFree(c) ==
  /\ c \in Entries
  /\ fat[c] = Free
  /\ \A e \in Entries : fat[e] = Free => c <= e

(* The cluster k steps along the chain that starts at c, or None.          *)
ClusterAt(c) ==
  LET at[k \in 0 .. LastEntry] ==
        IF k = 0 THEN c
        ELSE IF at[k - 1] = None THEN None ELSE next_cluster(at[k - 1])
  IN at

Chain(c) == {ClusterAt(c)[k] : k \in 0 .. LastEntry} \ {None}

Capacity(c) ==
  ClusterSize * Cardinality({k \in 0 .. LastEntry : ClusterAt(c)[k] # None})

(* The bytes of file f as the directory and the FAT give them.             *)
Content(f) ==
  LET at == ClusterAt(dir[f].cluster)
  IN [p \in 1 .. dir[f].size |->
        data[at[(p - 1) \div ClusterSize]][(p - 1) % ClusterSize]]

Contents == [f \in Names |-> Content(f)]

NoneFree == \A e \in Entries : fat[e] # Free

IsOpen(d) == d \in FdTable /\ fds[d] # Closed

LocalsEnd ==
  /\ fd' = 0 /\ buf' = <<>> /\ want' = 0 /\ cur' = 0 /\ start' = 0
  /\ written' = 0 /\ sector' = 0 /\ new' = 0

Init ==
  /\ fat = FormattedFat /\ data = FormattedData /\ dir = FormattedDir
  /\ fds = [d \in FdTable |-> Closed]
  /\ pc = "idle"
  /\ fd = 0 /\ buf = <<>> /\ want = 0 /\ cur = 0 /\ start = 0
  /\ written = 0 /\ sector = 0 /\ new = 0
  /\ reply = Failed
  /\ writes = 0 /\ crashes = 0 /\ stable = <<>>

(* A call that is over within the step that makes it.                      *)
Answer(r) ==
  /\ pc = "idle"
  /\ reply' = r
  /\ UNCHANGED <<disk, pc, locals, writes, crashes, stable>>

-----------------------------------------------------------------------------
(* syscall_open of the entry f of the root directory.                      *)
MayOpen(f) ==
  SharedOpens \/ \A d \in FdTable : IsOpen(d) => fds[d].cluster # dir[f].cluster

(* allocate_fd: the lowest descriptor from 3 on that is not open.          *)
allocate_fd(d) ==
  /\ d \in 3 .. MaxFd
  /\ ~ IsOpen(d)
  /\ \A e \in 3 .. MaxFd : ~ IsOpen(e) => d <= e

Open(f) ==
  /\ MayOpen(f)
  /\ \E d \in 3 .. MaxFd :
       /\ allocate_fd(d)
       /\ fds' = [fds EXCEPT ![d] = [cluster |-> dir[f].cluster, position |-> 0,
                                     file_size |-> dir[f].size]]
       /\ Answer(Returned(d))

(* No entry of that name, or no free descriptor. *)
OpenFails ==
  /\ Answer(Failed)
  /\ UNCHANGED fds

Close(d) ==
  IF d \in 3 .. MaxFd
  THEN fds' = [fds EXCEPT ![d] = Closed] /\ Answer(Returned(1))
  ELSE Answer(Failed) /\ UNCHANGED fds

Fstat(d) ==
  /\ IF IsOpen(d) THEN Answer(Returned(fds[d].file_size)) ELSE Answer(Failed)
  /\ UNCHANGED fds

(* sys_lseek: from the start, the position or the end; sys_seek is whence  *)
(* 0.  A place beyond the end is allowed, one before the start is not.     *)
Target(d, offset, whence) ==
  CASE whence = 0 -> offset
    [] whence = 1 -> fds[d].position + offset
    [] whence = 2 -> fds[d].file_size + offset
    [] OTHER      -> -1

Lseek(d, offset, whence) ==
  IF IsOpen(d) /\ Target(d, offset, whence) >= 0
  THEN /\ Target(d, offset, whence) <= MaxPosition
       /\ fds' = [fds EXCEPT ![d].position = Target(d, offset, whence)]
       /\ Answer(Returned(Target(d, offset, whence)))
  ELSE Answer(Failed) /\ UNCHANGED fds

-----------------------------------------------------------------------------
(* sys_read_file: find the cluster of the position, then copy a cluster's  *)
(* part at a time.  It reads the disk only, a step for each cluster.       *)
ReadNow(d, k) ==
  /\ IF ~ IsOpen(d) \/ k = 0 THEN Answer(Failed)
     ELSE /\ fds[d].position >= fds[d].file_size
          /\ Answer(ReadBytes(<<>>))
  /\ UNCHANGED fds

ReadBegin(d, k) ==
  /\ pc = "idle"
  /\ IsOpen(d) /\ k > 0
  /\ fds[d].position < fds[d].file_size
  /\ pc' = "rseek"
  /\ fd' = d
  /\ want' = Smaller(k, fds[d].file_size - fds[d].position)
  /\ cur' = fds[d].cluster
  /\ UNCHANGED <<disk, fds, buf, start, written, sector, new, reply, writes,
                 crashes, stable>>

(* Another cluster lies wholly before the position.                        *)
Before == start + ClusterSize <= fds[fd].position

ReadSeek ==
  /\ pc = "rseek"
  /\ IF Before /\ next_cluster(cur) # None
     THEN /\ cur' = next_cluster(cur)
          /\ start' = start + ClusterSize
          /\ UNCHANGED pc
     ELSE pc' = "rcluster" /\ UNCHANGED <<cur, start>>
  /\ UNCHANGED <<disk, fds, fd, buf, want, written, sector, new, reply, writes,
                 crashes, stable>>

ReadOffset == IF buf = <<>> THEN fds[fd].position - start ELSE 0

(* chunk_size: the subtraction from cluster_size wraps below zero.         *)
ReadChunk ==
  IF ReadOffset <= ClusterSize
  THEN Smaller(want - Len(buf), ClusterSize - ReadOffset)
  ELSE want - Len(buf)

(* read_cluster: size bytes of the cluster, from an offset in it.          *)
read_cluster(from, size) == [o \in 1 .. size |-> data[cur][from + o - 1]]

ReadCluster ==
  /\ pc = "rcluster"
  /\ LET from == ReadOffset % ClusterSize
         size == Smaller(ReadChunk, ClusterSize - from)
         got  == buf \o read_cluster(from, size)
     IN /\ buf' = got
        /\ IF size > 0 /\ Len(got) < want /\ next_cluster(cur) # None
           THEN cur' = next_cluster(cur) /\ UNCHANGED pc
           ELSE pc' = "rdone" /\ UNCHANGED cur
  /\ UNCHANGED <<disk, fds, fd, want, start, written, sector, new, reply, writes,
                 crashes, stable>>

ReadDone ==
  /\ pc = "rdone"
  /\ fds' = [fds EXCEPT ![fd].position = fds[fd].position + Len(buf)]
  /\ reply' = ReadBytes(buf)
  /\ pc' = "idle"
  /\ LocalsEnd
  /\ UNCHANGED <<disk, writes, crashes, stable>>

-----------------------------------------------------------------------------
(* sys_write_file: walk to the cluster of the position, adding clusters    *)
(* when the chain is too short, then write the clusters, then extend the   *)
(* size.                                                                   *)
WriteNow(d, payload) ==
  /\ ~ IsOpen(d) \/ payload = <<>>
  /\ Answer(Failed)
  /\ UNCHANGED fds

(* A slip: the directory learns the new size before the data is written    *)
(* and the chain extended.                                                 *)
WriteBeginSizesFirst(d, payload) ==
  /\ pc = "idle"
  /\ IsOpen(d) /\ payload # <<>>
  /\ writes < MaxWrites /\ (crashes > 0 => WriteAfterCrash)
  /\ fds[d].position + Len(payload) <= MaxPosition
  /\ pc' = "wseek"
  /\ fd' = d /\ buf' = payload
  /\ cur' = fds[d].cluster
  /\ dir' = IF fds[d].position + Len(payload) > fds[d].file_size
             THEN [f \in Names |-> IF dir[f].cluster = fds[d].cluster
                    THEN [dir[f] EXCEPT !.size = fds[d].position + Len(payload)]
                    ELSE dir[f]]
             ELSE dir
  /\ writes' = writes + 1
  /\ stable' = Contents
  /\ UNCHANGED <<fat, data, fds, want, start, written, sector, new, reply,
                 crashes>>

WriteBegin(d, payload) ==
  /\ pc = "idle"
  /\ IsOpen(d) /\ payload # <<>>
  /\ writes < MaxWrites /\ (crashes > 0 => WriteAfterCrash)
  /\ fds[d].position + Len(payload) <= MaxPosition
  /\ pc' = "wseek"
  /\ fd' = d /\ buf' = payload
  /\ cur' = fds[d].cluster
  /\ writes' = writes + 1
  /\ stable' = Contents
  /\ UNCHANGED <<disk, fds, want, start, written, sector, new, reply, crashes>>

(* The chain goes on, or alloc_cluster finds a cluster for it, or the disk *)
(* is full; the call fails if it has not written anything yet.             *)
WriteSeek ==
  /\ pc = "wseek"
  /\ Before
  /\ next_cluster(cur) # None
  /\ cur' = next_cluster(cur)
  /\ start' = start + ClusterSize
  /\ UNCHANGED <<disk, fds, pc, fd, buf, want, written, sector, new, reply,
                 writes, crashes, stable>>

(* A slip: the walk stops one cluster early. *)
WriteSeekDoneEarly ==
  /\ pc = "wseek"
  /\ start + 2 * ClusterSize > fds[fd].position
  /\ pc' = "wsector"
  /\ UNCHANGED <<disk, fds, locals, reply, writes, crashes, stable>>

WriteSeekDone ==
  /\ pc = "wseek"
  /\ ~ Before
  /\ pc' = "wsector"
  /\ UNCHANGED <<disk, fds, locals, reply, writes, crashes, stable>>

AtChainEnd ==
  /\ \/ pc = "wseek" /\ Before
     \/ pc = "wmore"
  /\ next_cluster(cur) = None

(* A slip: the cluster is marked used before it is linked to the chain. *)
AllocClusterMarks ==
  /\ AtChainEnd
  /\ \E c \in Entries : FirstFree(c) /\ new' = c /\ fat' = [fat EXCEPT ![c] = EOC]
  /\ pc' = "wlink"
  /\ UNCHANGED <<data, dir, fds, fd, buf, want, cur, start, written, sector,
                 reply, writes, crashes, stable>>

AllocCluster ==
  /\ AtChainEnd
  /\ \E c \in Entries : FirstFree(c) /\ new' = c
  /\ pc' = "wlink"
  /\ UNCHANGED <<disk, fds, fd, buf, want, cur, start, written, sector, reply,
                 writes, crashes, stable>>

(* set_fat_entry(cur, new), then set_fat_entry(new, end of chain).         *)
LinkCluster ==
  /\ pc = "wlink"
  /\ fat' = [fat EXCEPT ![cur] = new]
  /\ pc' = "wterminate"
  /\ UNCHANGED <<data, dir, fds, locals, reply, writes, crashes, stable>>

(* A slip: the new cluster is not marked as the end of its chain.          *)
TerminateForgotten ==
  /\ pc = "wterminate"
  /\ cur' = new /\ new' = 0
  /\ IF written = 0
     THEN pc' = "wseek" /\ start' = start + ClusterSize
     ELSE pc' = "wsector" /\ UNCHANGED start
  /\ UNCHANGED <<disk, fds, fd, buf, want, written, sector, reply, writes,
                 crashes, stable>>

TerminateChain ==
  /\ pc = "wterminate"
  /\ fat' = [fat EXCEPT ![new] = EOC]
  /\ cur' = new /\ new' = 0
  /\ IF written = 0
     THEN pc' = "wseek" /\ start' = start + ClusterSize
     ELSE pc' = "wsector" /\ UNCHANGED start
  /\ UNCHANGED <<data, dir, fds, fd, buf, want, written, sector, reply, writes,
                 crashes, stable>>

(* A slip: on a full disk the walk tries again instead of failing. *)
GapDiskFullRetries ==
  /\ pc = "wseek"
  /\ AtChainEnd /\ NoneFree
  /\ UNCHANGED vars

GapDiskFull ==
  /\ pc = "wseek"
  /\ AtChainEnd /\ NoneFree
  /\ pc' = "idle"
  /\ reply' = Failed
  /\ stable' = <<>>
  /\ LocalsEnd
  /\ UNCHANGED <<disk, fds, writes, crashes>>

(* A slip: every cluster is written from the offset of the first one.      *)
WriteOffsetKept == fds[fd].position - start

WriteOffset == IF written = 0 THEN fds[fd].position - start ELSE 0

(* write_size of write_cluster. *)
WriteSize == Smaller(Len(buf) - written, ClusterSize - WriteOffset)

(* One sector of write_cluster: read, modify what the payload covers,      *)
(* write back.                                                             *)
InSector(o) == o \div SectorSize = sector

Covered(o) == o >= WriteOffset /\ o < WriteOffset + WriteSize

WriteSector ==
  /\ pc = "wsector"
  /\ data' = [data EXCEPT ![cur] = [o \in Offs |->
                IF InSector(o) /\ Covered(o)
                THEN buf[written + 1 + o - WriteOffset] ELSE data[cur][o]]]
  /\ IF sector + 1 < SectorsPerCluster
     THEN sector' = sector + 1 /\ UNCHANGED <<pc, written>>
     ELSE /\ sector' = 0
          /\ written' = written + WriteSize
          /\ pc' = IF written' < Len(buf) THEN "wmore" ELSE "wdone"
  /\ UNCHANGED <<fat, dir, fds, fd, buf, want, cur, start, new, reply, writes,
                 crashes, stable>>

NextCluster ==
  /\ pc = "wmore"
  /\ next_cluster(cur) # None
  /\ cur' = next_cluster(cur)
  /\ pc' = "wsector"
  /\ UNCHANGED <<disk, fds, fd, buf, want, start, written, sector, new, reply,
                 writes, crashes, stable>>

(* A slip: the write stops at the end of the chain though clusters are free. *)
DiskFullAssumed ==
  /\ pc = "wmore"
  /\ AtChainEnd
  /\ pc' = "wdone"
  /\ UNCHANGED <<disk, fds, locals, reply, writes, crashes, stable>>

DiskFull ==
  /\ pc = "wmore"
  /\ AtChainEnd /\ NoneFree
  /\ pc' = "wdone"
  /\ UNCHANGED <<disk, fds, locals, reply, writes, crashes, stable>>

(* update_dir_entry: the first entry with that first cluster.              *)
WithSize(c, size) ==
  [f \in Names |->
     IF dir[f].cluster = c /\ \A g \in Names : g < f => dir[g].cluster # c
     THEN [dir[f] EXCEPT !.size = size] ELSE dir[f]]

WriteDone ==
  /\ pc = "wdone"
  /\ LET end == fds[fd].position + written
     IN IF end > fds[fd].file_size
        THEN /\ fds' = [fds EXCEPT ![fd].position = end, ![fd].file_size = end]
             /\ dir' = WithSize(fds[fd].cluster, end)
        ELSE /\ fds' = [fds EXCEPT ![fd].position = end]
             /\ UNCHANGED dir
  /\ reply' = Returned(written)
  /\ pc' = "idle"
  /\ stable' = <<>>
  /\ LocalsEnd
  /\ UNCHANGED <<fat, data, writes, crashes>>

-----------------------------------------------------------------------------
(* Power off and on again: the disk is all that is left.                   *)
Crash ==
  /\ crashes < MaxCrashes
  /\ crashes' = crashes + 1
  /\ fds' = [d \in FdTable |-> Closed]
  /\ pc' = "idle"
  /\ stable' = <<>>
  /\ LocalsEnd
  /\ UNCHANGED <<disk, reply, writes>>

Calls ==
  \/ \E f \in Names : Open(f)
  \/ OpenFails
  \/ \E d \in FdArgs : Close(d) \/ Fstat(d)
  \/ \E d \in FdArgs, o \in Offsets, w \in 0 .. 3 : Lseek(d, o, w)
  \/ \E d \in FdArgs, k \in ReadSizes : ReadNow(d, k) \/ ReadBegin(d, k)
  \/ \E d \in FdArgs, p \in Payloads : WriteNow(d, p) \/ WriteBegin(d, p)

Step ==
  \/ ReadSeek \/ ReadCluster \/ ReadDone
  \/ WriteSeek \/ WriteSeekDone \/ AllocCluster \/ LinkCluster
  \/ TerminateChain \/ GapDiskFull \/ WriteSector \/ NextCluster \/ DiskFull
  \/ WriteDone

Next == Calls \/ Step \/ Crash

(* A call in progress goes on: the kernel runs nothing else meanwhile.     *)
Spec == Init /\ [][Next]_vars /\ WF_vars(Step)

-----------------------------------------------------------------------------
Reading == {"rseek", "rcluster", "rdone"}
Writing == {"wseek", "wlink", "wterminate", "wsector", "wmore", "wdone"}

Descriptor == [cluster : Table, position : Nat, file_size : Nat]

(* Every variable has its type. *)
TypeOK ==
  /\ fat \in [Table -> {Free, EOC} \union Entries]
  /\ data \in [Table -> [Offs -> Bytes]]
  /\ dir \in [Names -> [cluster : Table, size : Nat]]
  /\ fds \in [FdTable -> Descriptor \union {Closed}]
  /\ pc \in {"idle"} \union Reading \union Writing
  /\ fd \in FdTable
  /\ buf \in Seq(Bytes)
  /\ want \in Nat /\ start \in Nat /\ written \in Nat
  /\ sector \in 0 .. (SectorsPerCluster - 1)
  /\ cur \in Table /\ new \in Table
  /\ writes \in Nat /\ crashes \in Nat

Heads == {RootCluster} \union {dir[f].cluster : f \in Names}

Linked(c) == fat[c] \in Entries

(* The clusters form chains that never meet: no cluster follows two        *)
(* others, none follows itself into a file's first cluster, and only the   *)
(* one that is just being appended is followed before it is marked used.   *)
ChainsApart ==
  /\ \A c, e \in Table : Linked(c) /\ fat[c] = fat[e] => c = e
  /\ \A c \in Table : Linked(c) => fat[c] \notin Heads
  /\ \A c \in Table :
       Linked(c) /\ fat[fat[c]] = Free => pc = "wterminate" /\ fat[c] = new

(* At any moment the power may fail: every file then still has as many     *)
(* clusters as the directory says it has bytes.                            *)
SizeBacked == \A f \in Names : dir[f].size <= Capacity(dir[f].cluster)

(* Between calls each cluster in use belongs to the root directory or to   *)
(* some file: a write that fails half way leaks none.                      *)
NoClusterLost ==
  pc = "idle" =>
    \A c \in Entries :
      fat[c] # Free => \E h \in Heads : c \in Chain(h)

(* A write never starts past the end of the cluster it has walked to.      *)
WriteWithinCluster ==
  pc = "wsector" => WriteOffset \in 0 .. (ClusterSize - 1) /\ fat[cur] # Free

(* A write is cut short only when no cluster is left.                      *)
ShortOnlyWhenFull ==
  [][pc = "wdone" /\ pc' = "idle" /\ crashes' = crashes
       => reply'.ret = Len(buf) \/ NoneFree]_vars

(* What a descriptor knows of a file: which one, and where.                *)
FileOf(d) == CHOOSE f \in Names : dir[f].cluster = fds[d].cluster

OpenBar ==
  [d \in 3 .. MaxFd |->
     IF fds[d] = Closed THEN Closed
     ELSE [file |-> FileOf(d), position |-> fds[d].position]]

(* While a call writes, programs have not been told anything yet.          *)
ContentBar == IF pc \in Writing THEN stable ELSE Contents

Store == INSTANCE FileStore
           WITH Files <- Names, FdNumbers <- 3 .. MaxFd,
                content <- ContentBar, open <- OpenBar

(* The sector-by-sector code implements the abstract file store: reads     *)
(* return what was written, a write changes one file, in one place, and a  *)
(* power failure at any sector damages only the file being written.        *)
FileStoreSpec == Store!Spec

(* Every call returns. *)
EveryCallReturns == pc # "idle" ~> pc = "idle"
=============================================================================
