-------------------------- MODULE FileSystemProofs --------------------------
(***************************************************************************)
(* FileSystem proved for every geometry of the disk, every well formed     *)
(* initial FAT and every sequence of calls: type correctness, the          *)
(* arithmetic of the loops and that only a full disk cuts a write short,   *)
(* with power failures at any sector; that chains never meet, and that     *)
(* writes stay within clusters in use, without them; that sizes are backed *)
(* by clusters, no cluster is lost and the abstract file store is          *)
(* implemented, with power failures after which nothing more is written.   *)
(*                                                                         *)
(* ChainsApart is not inductive: that LinkCluster may append "new" depends *)
(* on alloc_cluster having found it free two steps before, on the cluster  *)
(* it is appended to being in use and last in its chain, and on no         *)
(* descriptor naming a cluster that is not some file's first.  That the    *)
(* store is implemented rests on what a call has copied so far (ReadsOK,   *)
(* WritesOK): which bytes of the file are the payload's and that every     *)
(* other byte, of this file and of the others, is as the call found it.    *)
(***************************************************************************)
EXTENDS FileSystem, TLAPS, WellFoundedInduction, FiniteSetTheorems, SequenceTheorems

(* A call in progress works on an open descriptor.                         *)
CallInv == pc # "idle" => fds[fd] \in Descriptor

(* The loops' counters: the walk does not overtake the position, the bytes *)
(* read never exceed max_read and those written never exceed the buffer.   *)
LoopInv ==
  /\ pc \in {"rseek", "rcluster", "wseek"} => start <= fds[fd].position
  /\ pc \in {"rseek", "rcluster", "rdone"} => Len(buf) <= want
  /\ pc \in {"rseek", "wseek"} => written = 0
  /\ pc = "rseek" => buf = <<>>
  /\ pc \in Writing => written <= Len(buf)
  /\ pc \in {"wseek", "wsector", "wmore"} => written < Len(buf)
  /\ pc = "wsector" => WriteOffset \in Offs
  /\ pc = "wmore" => written > 0
  /\ pc \in {"wlink", "wterminate"} =>
       /\ written < Len(buf)
       /\ written = 0 => start + ClusterSize <= fds[fd].position
  /\ pc = "idle" => /\ buf = <<>> /\ want = 0 /\ start = 0 /\ written = 0
                    /\ sector = 0
  /\ pc \in {"wseek", "wlink", "wterminate", "wmore"} => sector = 0
  /\ pc \in Reading => written = 0

Inv == TypeOK /\ CallInv /\ LoopInv

-----------------------------------------------------------------------------
LEMMA ClusterSizeType == ClusterSize \in Nat \ {0}
  BY GeometryAssumption DEF ClusterSize

LEMMA TableFacts ==
  /\ Entries \subseteq Nat /\ Table \subseteq Nat
  /\ Free \notin Entries /\ EOC \notin Entries /\ EOC # Free /\ EOC \notin Table
  /\ 0 \in Table /\ Entries \subseteq Table
  BY GeometryAssumption DEF Entries, Table, Free, EOC

LEMMA DescriptorOpen == \A x \in Descriptor : x # Closed
  BY ClosedAssumption, TableFacts DEF Descriptor

(* What next_cluster answers is a cluster, unless it is None.              *)
LEMMA NextClusterType ==
  ASSUME TypeOK, NEW c \in Table, next_cluster(c) # None
  PROVE  next_cluster(c) \in Entries /\ fat[c] = next_cluster(c)
  BY DEF TypeOK, next_cluster, None, Free

LEMMA SmallerType ==
  \A a \in Int, b \in Int : /\ Smaller(a, b) \in Int
                            /\ Smaller(a, b) <= a /\ Smaller(a, b) <= b
                            /\ Smaller(a, b) \in {a, b}
  BY DEF Smaller

LEMMA ModuloBound == \A a \in Nat, b \in Nat \ {0} : a % b \in 0 .. (b - 1)
  OBVIOUS

LEMMA Joined ==
  ASSUME NEW S, NEW s \in Seq(S), NEW t \in Seq(S)
  PROVE  s \o t \in Seq(S) /\ Len(s \o t) = Len(s) + Len(t)
  OBVIOUS

LEMMA DescriptorMoved ==
  ASSUME NEW x \in Descriptor, NEW p \in Nat
  PROVE  [x EXCEPT !.position = p] \in Descriptor
  BY DEF Descriptor

LEMMA InitInv == Init => Inv
<1> SUFFICES ASSUME Init PROVE Inv
  OBVIOUS
<1>1. dir \in [Names -> [cluster : Table, size : Nat]]
  <2>1. ASSUME NEW S, NEW s \in Seq(S) PROVE s \in [1 .. Len(s) -> S]
    OBVIOUS
  <2>2. FormattedDir \in [Names -> [cluster : Table, size : Nat]]
    BY <2>1, DiskAssumption DEF Names
  <2> QED
    BY <2>2 DEF Init
<1>2. 0 \in FdTable /\ 0 \in 0 .. (SectorsPerCluster - 1)
  BY GeometryAssumption DEF FdTable
<1>3. <<>> \in Seq(Bytes)
  OBVIOUS
<1>4. TypeOK
  BY <1>1, <1>2, <1>3, TableFacts, DiskAssumption DEF Init, TypeOK
<1> QED
  BY <1>4 DEF Init, Inv, CallInv, LoopInv, Writing, Reading

-----------------------------------------------------------------------------
(* Steps outside the loops. *)
LEMMA CallsInv ==
  ASSUME Inv, Calls
  PROVE  Inv'
<1> USE GeometryAssumption, TableFacts
<1> DEFINE Same == UNCHANGED <<disk, pc, locals, writes, crashes>>
<1>1. ASSUME Same, pc = "idle", fds' \in [FdTable -> Descriptor \union {Closed}]
      PROVE  Inv'
  BY <1>1 DEF Inv, TypeOK, CallInv, LoopInv, disk, locals, Writing, Reading
<1>2. ASSUME NEW r, Answer(r) PROVE Same /\ pc = "idle"
  BY <1>2 DEF Answer
<1>3. fds \in [FdTable -> Descriptor \union {Closed}]
  BY DEF Inv, TypeOK
<1>4. ASSUME NEW d, fds[d] # Closed, d \in FdTable PROVE fds[d] \in Descriptor
  BY <1>3, <1>4
<1>5. ASSUME NEW f \in Names, Open(f) PROVE Inv'
  <2>1. dir[f].cluster \in Table /\ dir[f].size \in Nat
    BY DEF Inv, TypeOK
  <2>2. PICK d \in 3 .. MaxFd :
          /\ fds' = [fds EXCEPT ![d] = [cluster |-> dir[f].cluster, position |-> 0,
                                        file_size |-> dir[f].size]]
          /\ Answer(Returned(d))
    BY <1>5 DEF Open
  <2>3. fds' \in [FdTable -> Descriptor \union {Closed}]
    BY <1>3, <2>1, <2>2 DEF Descriptor, FdTable
  <2> QED
    BY <1>1, <1>2, <2>2, <2>3
<1>6. ASSUME NEW d \in FdArgs, Close(d) PROVE Inv'
  BY <1>1, <1>2, <1>3, <1>6 DEF Close
<1>7. CASE OpenFails
  BY <1>1, <1>2, <1>3, <1>7 DEF OpenFails
<1>8. ASSUME NEW d \in FdArgs, Fstat(d) PROVE Inv'
  BY <1>1, <1>2, <1>3, <1>8 DEF Fstat
<1>9. ASSUME NEW d \in FdArgs, NEW o \in Offsets, NEW w \in 0 .. 3, Lseek(d, o, w)
      PROVE  Inv'
  <2>1. CASE UNCHANGED fds /\ Answer(Failed)
    BY <1>1, <1>2, <1>3, <2>1
  <2>2. CASE /\ IsOpen(d) /\ Target(d, o, w) >= 0
             /\ fds' = [fds EXCEPT ![d].position = Target(d, o, w)]
             /\ Answer(Returned(Target(d, o, w)))
    <3>1. fds[d] \in Descriptor /\ d \in FdTable
      BY <1>4, <2>2 DEF IsOpen
    <3>2. Target(d, o, w) \in Int
      <4>1. /\ fds[d].position \in Nat /\ fds[d].file_size \in Nat
            /\ o \in Int
        BY <3>1 DEF Descriptor
      <4>2. w = 0 \/ w = 1 \/ w = 2 \/ w = 3
        OBVIOUS
      <4>3. CASE w = 0
        BY <4>1, <4>3 DEF Target
      <4>4. CASE w = 1
        BY <4>1, <4>4, SMTT(30) DEF Target
      <4>5. CASE w = 2
        BY <4>1, <4>5, SMTT(30) DEF Target
      <4>6. CASE w = 3
        BY <4>6 DEF Target
      <4> QED
        BY <4>2, <4>3, <4>4, <4>5, <4>6
    <3>3. [fds[d] EXCEPT !.position = Target(d, o, w)] \in Descriptor
      <4>1. Target(d, o, w) \in Nat
        BY <2>2, <3>2
      <4> HIDE DEF Target
      <4> QED
        BY <3>1, <4>1 DEF Descriptor
    <3>4. fds' \in [FdTable -> Descriptor \union {Closed}]
      BY <1>3, <2>2, <3>1, <3>3
    <3> QED
      BY <1>1, <1>2, <2>2, <3>4
  <2> QED
    BY <1>9, <2>1, <2>2 DEF Lseek
<1>10. ASSUME NEW d \in FdArgs, NEW k \in ReadSizes, ReadNow(d, k) PROVE Inv'
  BY <1>1, <1>2, <1>3, <1>10 DEF ReadNow
<1>11. ASSUME NEW d \in FdArgs, NEW k \in ReadSizes, ReadBegin(d, k) PROVE Inv'
  <2>1. /\ fds[d] \in Descriptor /\ d \in FdTable
        /\ fds[d].position \in Nat /\ fds[d].file_size \in Nat
        /\ fds[d].cluster \in Table
    BY <1>4, <1>11 DEF ReadBegin, IsOpen, Descriptor
  <2>2. want' \in Nat
    <3>1. want' = Smaller(k, fds[d].file_size - fds[d].position)
      BY <1>11 DEF ReadBegin
    <3>2. fds[d].file_size - fds[d].position \in Nat /\ k \in Nat
      <4>1. fds[d].position < fds[d].file_size
        BY <1>11 DEF ReadBegin
      <4> QED
        BY <2>1, <4>1
    <3> QED
      BY <3>1, <3>2 DEF Smaller
  <2>3. Len(buf) = 0
    BY <1>11 DEF ReadBegin, Inv, LoopInv
  <2>4. TypeOK'
    BY <1>11, <2>1, <2>2 DEF ReadBegin, Inv, TypeOK, disk, Reading
  <2> QED
    BY <1>11, <2>1, <2>2, <2>3, <2>4, SMTT(30)
       DEF ReadBegin, Inv, TypeOK, CallInv, LoopInv, Writing, Reading
<1>12. ASSUME NEW d \in FdArgs, NEW p \in Payloads, WriteNow(d, p) PROVE Inv'
  BY <1>1, <1>2, <1>3, <1>12 DEF WriteNow
<1>13. ASSUME NEW d \in FdArgs, NEW p \in Payloads, WriteBegin(d, p) PROVE Inv'
  <2>1. /\ fds[d] \in Descriptor /\ d \in FdTable
        /\ fds[d].position \in Nat /\ fds[d].cluster \in Table
    BY <1>4, <1>13 DEF WriteBegin, IsOpen, Descriptor
  <2>2. p \in Seq(Bytes) /\ p # <<>> /\ Len(p) \in Nat /\ Len(p) > 0
    BY <1>13 DEF WriteBegin
  <2>3. TypeOK'
    BY <1>13, <2>1, <2>2 DEF WriteBegin, Inv, TypeOK, disk, Writing
  <2> QED
    BY <1>13, <2>1, <2>2, <2>3, SMTT(30)
       DEF WriteBegin, Inv, TypeOK, CallInv, LoopInv, Writing, Reading
<1> QED
  BY <1>5, <1>6, <1>7, <1>8, <1>9, <1>10, <1>11, <1>12, <1>13 DEF Calls

(* The loops of sys_read_file. *)
LEMMA ReadInv ==
  ASSUME Inv, ReadSeek \/ ReadCluster \/ ReadDone
  PROVE  Inv'
<1> USE GeometryAssumption, TableFacts, ClusterSizeType
<1> DEFINE pos == fds[fd].position
<1>1. /\ fds[fd] \in Descriptor /\ fd \in FdTable
      /\ pos \in Nat /\ Len(buf) \in Nat
  <2>1. pc # "idle"
    BY DEF ReadSeek, ReadCluster, ReadDone
  <2>2. fds[fd] \in Descriptor /\ fd \in FdTable /\ buf \in Seq(Bytes)
    BY <2>1 DEF Inv, TypeOK, CallInv
  <2>3. pos \in Nat
    BY <2>2 DEF Descriptor
  <2> QED
    BY <2>2, <2>3
<1>2. CASE ReadSeek
  <2>1. CASE /\ Before /\ next_cluster(cur) # None
             /\ cur' = next_cluster(cur) /\ start' = start + ClusterSize
             /\ UNCHANGED pc
    <3>1. cur' \in Table /\ start' \in Nat /\ start' <= pos
      <4>1. cur' \in Table
        BY <2>1, NextClusterType DEF Inv, TypeOK
      <4>2. start \in Nat /\ start + ClusterSize <= pos
        BY <2>1 DEF Inv, TypeOK, Before
      <4> QED
        BY <2>1, <4>1, <4>2
    <3> QED
      BY <1>1, <1>2, <2>1, <3>1 DEF ReadSeek, Inv, TypeOK, CallInv, LoopInv, disk,
                                    Writing, Reading
  <2>2. CASE pc' = "rcluster" /\ UNCHANGED <<cur, start>>
    BY <1>1, <1>2, <2>2 DEF ReadSeek, Inv, TypeOK, CallInv, LoopInv, disk,
                            Writing, Reading
  <2> QED
    BY <1>2, <2>1, <2>2 DEF ReadSeek
<1>3. CASE ReadCluster
  <2> DEFINE from == ReadOffset % ClusterSize
             size == Smaller(ReadChunk, ClusterSize - from)
             got == buf \o [o \in 1 .. size |-> data[cur][from + o - 1]]
  <2>1. ReadOffset \in Nat
    BY <1>1, <1>3, SMTT(30) DEF ReadOffset, ReadCluster, Inv, TypeOK, LoopInv
  <2>2. from \in Offs
    BY <2>1, ModuloBound DEF Offs
  <2>3. Len(buf) <= want /\ want \in Nat /\ cur \in Table
    BY <1>3 DEF ReadCluster, Inv, TypeOK, LoopInv
  <2>4. ReadChunk \in 0 .. (want - Len(buf))
    BY <1>1, <2>1, <2>3 DEF ReadChunk, Smaller
  <2>5. size \in 0 .. (want - Len(buf)) /\ size <= ClusterSize - from
    BY <1>1, <2>2, <2>3, <2>4, SMTT(30) DEF Smaller, Offs
  <2> HIDE DEF size, from
  <2>6. [o \in 1 .. size |-> data[cur][from + o - 1]] \in Seq(Bytes)
    <3>1. ASSUME NEW o \in 1 .. size PROVE data[cur][from + o - 1] \in Bytes
      <4>1. from + o - 1 \in Offs
        BY <2>2, <2>5, <3>1 DEF Offs
      <4> QED
        BY <2>3, <4>1 DEF Inv, TypeOK
    <3> QED
      BY <2>5, <3>1
  <2>7. Len([o \in 1 .. size |-> data[cur][from + o - 1]]) = size
    BY <2>5
  <2>8. got \in Seq(Bytes) /\ Len(got) = Len(buf) + size
    <3> DEFINE part == [o \in 1 .. size |-> data[cur][from + o - 1]]
    <3>1. part \in Seq(Bytes) /\ Len(part) = size /\ buf \in Seq(Bytes)
      BY <2>6, <2>7 DEF Inv, TypeOK
    <3> HIDE DEF part
    <3>2. buf \o part \in Seq(Bytes) /\ Len(buf \o part) = Len(buf) + size
      BY <3>1, Joined
    <3> QED
      BY <3>2 DEF part
  <2> HIDE DEF got
  <2>9. Len(got) <= want
    BY <1>1, <2>3, <2>5, <2>8
  <2>10. /\ buf' = got
         /\ \/ next_cluster(cur) # None /\ cur' = next_cluster(cur) /\ UNCHANGED pc
            \/ pc' = "rdone" /\ UNCHANGED cur
         /\ pc = "rcluster"
    BY <1>3 DEF ReadCluster, read_cluster, got, size, from
  <2>11. cur' \in Table
    BY <2>3, <2>10, NextClusterType DEF Inv
  <2>12. /\ UNCHANGED <<disk, fds, fd, want, start, written, sector, new, reply,
                        writes, crashes, stable>>
    BY <1>3 DEF ReadCluster
  <2>13. TypeOK'
    BY <2>8, <2>10, <2>11, <2>12 DEF Inv, TypeOK, disk, Reading, Writing
  <2> QED
    BY <1>1, <2>9, <2>10, <2>12, <2>13 DEF Inv, CallInv, LoopInv, Reading, Writing
<1>4. CASE ReadDone
  <2>1. fds' \in [FdTable -> Descriptor \union {Closed}]
    <3>1. [fds[fd] EXCEPT !.position = pos + Len(buf)] \in Descriptor
      <4>1. fds[fd].position + Len(buf) \in Nat
        BY <1>1
      <4> HIDE DEF pos
      <4> QED
        BY <1>1, <4>1, DescriptorMoved DEF pos
    <3> QED
      BY <1>1, <1>4, <3>1 DEF ReadDone, Inv, TypeOK
  <2>2. 0 \in FdTable /\ 0 \in 0 .. (SectorsPerCluster - 1) /\ <<>> \in Seq(Bytes)
    BY DEF FdTable
  <2> QED
    BY <1>4, <2>1, <2>2 DEF ReadDone, LocalsEnd, Inv, TypeOK, CallInv, LoopInv,
                            disk, Reading, Writing
<1> QED
  BY <1>2, <1>3, <1>4

(* The loops of sys_write_file. *)
WriteStep ==
  \/ WriteSeek \/ WriteSeekDone \/ AllocCluster \/ LinkCluster
  \/ TerminateChain \/ GapDiskFull \/ WriteSector \/ NextCluster \/ DiskFull
  \/ WriteDone

LEMMA SectorInv ==
  ASSUME Inv, WriteSector
  PROVE  Inv'
<1> USE GeometryAssumption, TableFacts, ClusterSizeType
<1>1. /\ pc = "wsector" /\ cur \in Table /\ buf \in Seq(Bytes)
      /\ Len(buf) \in Nat /\ written \in Nat /\ written < Len(buf)
      /\ WriteOffset \in Offs
      /\ sector \in 0 .. (SectorsPerCluster - 1)
  BY DEF WriteSector, Inv, TypeOK, LoopInv
<1>2. /\ WriteSize \in Nat /\ WriteSize > 0
      /\ written + WriteSize <= Len(buf)
  BY <1>1 DEF WriteSize, Smaller, Offs
<1> HIDE DEF WriteSize, WriteOffset
<1>3. data' \in [Table -> [Offs -> Bytes]]
  <2> DEFINE bytes == [o \in Offs |->
                IF InSector(o) /\ Covered(o)
                THEN buf[written + 1 + o - WriteOffset] ELSE data[cur][o]]
  <2>1. ASSUME NEW o \in Offs PROVE bytes[o] \in Bytes
    <3>1. data[cur][o] \in Bytes
      BY <1>1 DEF Inv, TypeOK
    <3>2. CASE Covered(o)
      <4>1. written + 1 + o - WriteOffset \in 1 .. Len(buf)
        BY <1>1, <1>2, <3>2 DEF Covered, Offs
      <4> QED
        BY <1>1, <3>1, <4>1
    <3> QED
      BY <3>1, <3>2
  <2>2. bytes \in [Offs -> Bytes]
    BY <2>1
  <2>3. data' = [data EXCEPT ![cur] = bytes]
    BY DEF WriteSector
  <2> HIDE DEF bytes
  <2> QED
    BY <1>1, <2>2, <2>3 DEF Inv, TypeOK
<1>4. UNCHANGED <<fat, dir, fds, fd, buf, want, cur, start, new, reply, writes,
                 crashes, stable>>
  BY DEF WriteSector
<1>5. CASE sector + 1 < SectorsPerCluster /\ sector' = sector + 1
             /\ UNCHANGED <<pc, written>>
  <2>1. WriteOffset' = WriteOffset
    BY <1>4, <1>5 DEF WriteOffset
  <2>2. sector' \in 0 .. (SectorsPerCluster - 1)
    BY <1>1, <1>5
  <2>3. TypeOK'
    BY <1>3, <1>4, <1>5, <2>2 DEF Inv, TypeOK
  <2> QED
    BY <1>1, <1>4, <1>5, <2>1, <2>3 DEF Inv, CallInv, LoopInv, Reading, Writing
<1>6. CASE /\ sector' = 0 /\ written' = written + WriteSize
           /\ pc' = IF written' < Len(buf) THEN "wmore" ELSE "wdone"
  <2>1. written' \in Nat /\ written' > 0 /\ written' <= Len(buf)
    BY <1>1, <1>2, <1>6
  <2>2. TypeOK'
    BY <1>3, <1>4, <1>6, <2>1 DEF Inv, TypeOK, Writing
  <2> QED
    BY <1>1, <1>4, <1>6, <2>1, <2>2 DEF Inv, CallInv, LoopInv, Reading, Writing
<1> QED
  BY <1>5, <1>6 DEF WriteSector

LEMMA WriteInv ==
  ASSUME Inv, WriteStep
  PROVE  Inv'
<1> USE GeometryAssumption, TableFacts, ClusterSizeType
<1> DEFINE pos == fds[fd].position
<1>1. /\ fds[fd] \in Descriptor /\ fd \in FdTable /\ buf \in Seq(Bytes)
      /\ pos \in Nat /\ Len(buf) \in Nat /\ start \in Nat
  <2>1. pc # "idle"
    BY DEF WriteStep, WriteSeek, WriteSeekDone, AllocCluster, AtChainEnd,
           LinkCluster, TerminateChain, GapDiskFull, WriteSector, NextCluster,
           DiskFull, WriteDone
  <2>2. fds[fd] \in Descriptor /\ fd \in FdTable /\ buf \in Seq(Bytes)
        /\ start \in Nat
    BY <2>1 DEF Inv, TypeOK, CallInv
  <2>3. pos \in Nat
    BY <2>2 DEF Descriptor
  <2> QED
    BY <2>2, <2>3
<1>2. 0 \in FdTable /\ 0 \in 0 .. (SectorsPerCluster - 1) /\ <<>> \in Seq(Bytes)
  BY DEF FdTable
<1>3. CASE WriteSeek
  <2>1. cur' \in Table /\ start' \in Nat /\ start' <= pos
    <3>1. cur' \in Table
      BY <1>3, NextClusterType DEF WriteSeek, Inv, TypeOK
    <3>2. start' = start + ClusterSize /\ start + ClusterSize <= pos
      BY <1>3 DEF WriteSeek, Before
    <3> QED
      BY <1>1, <3>1, <3>2
  <2> QED
    BY <1>1, <1>3, <2>1 DEF WriteSeek, Inv, TypeOK, CallInv, LoopInv, disk,
                            Reading, Writing
<1>4. CASE WriteSeekDone
  <2>1. written = 0 /\ start <= pos /\ ~ (start + ClusterSize <= pos)
    BY <1>4 DEF WriteSeekDone, Inv, LoopInv, Before
  <2>2. fds[fd].position - start \in Offs
    BY <1>1, <2>1 DEF Offs
  <2>3. WriteOffset' \in Offs
    BY <1>4, <2>1, <2>2 DEF WriteSeekDone, WriteOffset, locals
  <2>4. TypeOK'
    BY <1>4 DEF WriteSeekDone, locals, disk, Inv, TypeOK, Writing
  <2> QED
    BY <1>1, <1>4, <2>3, <2>4 DEF WriteSeekDone, Inv, CallInv, LoopInv, disk, locals,
                            Reading, Writing
<1>5. CASE AllocCluster
  <2>1. new' \in Table
    BY <1>5 DEF AllocCluster
  <2>2. /\ pc \in {"wseek", "wmore"} /\ pc' = "wlink"
        /\ UNCHANGED <<disk, fds, fd, buf, want, cur, start, written, sector,
                       writes, crashes>>
        /\ pc = "wseek" => start + ClusterSize <= pos
    BY <1>5 DEF AllocCluster, AtChainEnd, Before
  <2>3. TypeOK'
    BY <2>1, <2>2 DEF disk, Inv, TypeOK, Writing
  <2> QED
    BY <1>1, <2>2, <2>3 DEF Inv, TypeOK, CallInv, LoopInv, disk, Reading, Writing
<1>6. CASE LinkCluster
  <2>1. new \in Entries \/ new = 0
    BY DEF Inv, TypeOK, Table
  <2>2. fat' \in [Table -> {Free, EOC} \union Entries]
    BY <1>6, <2>1 DEF LinkCluster, Inv, TypeOK, Free
  <2>3. TypeOK'
    BY <1>6, <2>2 DEF LinkCluster, locals, Inv, TypeOK, Writing
  <2> QED
    BY <1>1, <1>6, <2>3 DEF LinkCluster, Inv, CallInv, LoopInv, locals,
                            Reading, Writing
<1>7. CASE TerminateChain
  <2>1. fat' \in [Table -> {Free, EOC} \union Entries]
    BY <1>7 DEF TerminateChain, Inv, TypeOK
  <2>2. CASE written = 0 /\ pc' = "wseek" /\ start' = start + ClusterSize
    <3>1. start' \in Nat /\ start' <= pos
      BY <1>1, <1>7, <2>2 DEF TerminateChain, Inv, LoopInv
    <3> QED
      BY <1>1, <1>7, <2>1, <2>2, <3>1 DEF TerminateChain, Inv, TypeOK, CallInv,
                                          LoopInv, Reading, Writing
  <2>3. CASE written # 0 /\ pc' = "wsector" /\ UNCHANGED start
    <3>1. WriteOffset' \in Offs
      BY <1>7, <2>3 DEF TerminateChain, WriteOffset, Offs
    <3> QED
      BY <1>1, <1>7, <2>1, <2>3, <3>1 DEF TerminateChain, Inv, TypeOK, CallInv,
                                          LoopInv, Reading, Writing
  <2> QED
    BY <1>7, <2>2, <2>3 DEF TerminateChain
<1>8. CASE GapDiskFull
  BY <1>2, <1>8 DEF GapDiskFull, LocalsEnd, disk, Inv, TypeOK, CallInv, LoopInv,
                    Reading, Writing
<1>9. CASE WriteSector
  BY <1>9, SectorInv
<1>10. CASE NextCluster
  <2>1. cur' \in Table
    BY <1>10, NextClusterType DEF NextCluster, Inv, TypeOK
  <2>2. WriteOffset' \in Offs
    BY <1>10 DEF NextCluster, Inv, TypeOK, LoopInv, WriteOffset, Offs
  <2> QED
    BY <1>1, <1>10, <2>1, <2>2 DEF NextCluster, disk, Inv, TypeOK, CallInv, LoopInv,
                                   Reading, Writing
<1>11. CASE DiskFull
  BY <1>1, <1>11 DEF DiskFull, disk, locals, Inv, TypeOK, CallInv, LoopInv,
                     Reading, Writing
<1>12. CASE WriteDone
  <2> DEFINE end == pos + written
  <2>1. end \in Nat
    BY <1>1 DEF Inv, TypeOK
  <2> HIDE DEF end
  <2>2. /\ [fds[fd] EXCEPT !.position = end, !.file_size = end] \in Descriptor
        /\ [fds[fd] EXCEPT !.position = end] \in Descriptor
    BY <1>1, <2>1 DEF Descriptor
  <2>3. fds' \in [FdTable -> Descriptor \union {Closed}]
    BY <1>1, <1>12, <2>2 DEF WriteDone, Inv, TypeOK, end
  <2>4. WithSize(fds[fd].cluster, end) \in [Names -> [cluster : Table, size : Nat]]
    BY <2>1 DEF WithSize, Inv, TypeOK
  <2>5. dir' \in [Names -> [cluster : Table, size : Nat]]
    BY <1>12, <2>4 DEF WriteDone, Inv, TypeOK, end
  <2> QED
    BY <1>2, <1>12, <2>3, <2>5 DEF WriteDone, LocalsEnd, Inv, TypeOK, CallInv,
                                   LoopInv, Reading, Writing
<1> QED
  BY <1>3, <1>4, <1>5, <1>6, <1>7, <1>8, <1>9, <1>10, <1>11, <1>12 DEF WriteStep

LEMMA NextInv == Inv /\ [Next]_vars => Inv'
<1> SUFFICES ASSUME Inv, [Next]_vars PROVE Inv'
  OBVIOUS
<1>1. CASE UNCHANGED vars
  BY <1>1 DEF vars, disk, locals, Inv, TypeOK, CallInv, LoopInv, WriteOffset
<1>2. CASE Crash
  <2>1. 0 \in FdTable /\ 0 \in 0 .. (SectorsPerCluster - 1) /\ <<>> \in Seq(Bytes)
        /\ 0 \in Table
    BY GeometryAssumption, TableFacts DEF FdTable
  <2> QED
    BY <1>2, <2>1 DEF Crash, disk, LocalsEnd, Inv, TypeOK, CallInv, LoopInv,
                      Reading, Writing
<1>3. CASE Step
  BY <1>3, ReadInv, WriteInv DEF Step, WriteStep
<1>4. CASE Calls
  BY <1>4, CallsInv
<1> QED
  BY <1>1, <1>2, <1>3, <1>4 DEF Next

(* The counters of the loops stay in range at every sector, whatever the   *)
(* disk held and wherever the power failed.                                *)
THEOREM Invariance == Spec => []Inv
  BY InitInv, NextInv, PTL DEF Spec

(* Type correctness of the descriptor table, the disk and the locals of    *)
(* sys_read_file and sys_write_file.                                       *)
THEOREM TypeCorrect == Spec => []TypeOK
  BY Invariance, PTL DEF Inv

-----------------------------------------------------------------------------
(* What the FAT means while a cluster is appended: first clusters are in   *)
(* use, descriptors name first clusters, the walk stays on clusters in     *)
(* use, "new" is free until it is terminated and "cur" ends its chain      *)
(* until it is linked.                                                     *)
AppendInv ==
  /\ \A h \in Heads : fat[h] # Free
  /\ \A d \in FdTable : fds[d] # Closed => fds[d].cluster \in Heads
  /\ pc \in Writing => fat[cur] # Free
  /\ pc = "wlink" => new \in Entries /\ fat[new] = Free /\ fat[cur] = EOC
  /\ pc = "wterminate" => new \in Entries /\ fat[new] = Free /\ fat[cur] = new

ChainInv == Inv /\ ChainsApart /\ AppendInv

LEMMA InitChain == Init => ChainInv
<1> SUFFICES ASSUME Init PROVE ChainInv
  OBVIOUS
<1>1. Heads = {RootCluster} \union {FormattedDir[f].cluster : f \in Names}
  BY DEF Init, Heads
<1>2. \A h \in Heads : fat[h] # Free
  BY <1>1, FormatAssumption DEF Init
<1>3. ChainsApart
  BY <1>1, FormatAssumption DEF Init, ChainsApart, Linked
<1> QED
  BY <1>2, <1>3, InitInv DEF Init, ChainInv, AppendInv, Writing

(* A step that changes neither the FAT nor any first cluster.              *)
LEMMA ChainKept ==
  ASSUME ChainInv, Inv', fat' = fat, Heads' = Heads, pc # "wterminate",
         pc' # "wterminate",
         \A d \in FdTable : fds'[d] # Closed => fds'[d].cluster \in Heads,
         pc' \in Writing => fat[cur'] # Free,
         pc' = "wlink" => new' \in Entries /\ fat[new'] = Free /\ fat[cur'] = EOC
  PROVE  ChainInv'
<1>1. ChainsApart'
  BY DEF ChainInv, ChainsApart, Linked
<1> QED
  BY <1>1 DEF ChainInv, AppendInv

(* The walk to the next cluster stays on clusters in use.                  *)
LEMMA NextInUse ==
  ASSUME ChainInv, pc # "wterminate", next_cluster(cur) # None
  PROVE  fat[next_cluster(cur)] # Free
<1>1. cur \in Table
  BY DEF ChainInv, Inv, TypeOK
<1>2. Linked(cur) /\ fat[cur] = next_cluster(cur)
  BY <1>1, NextClusterType DEF ChainInv, Inv, Linked
<1> QED
  BY <1>1, <1>2 DEF ChainInv, ChainsApart

LEMMA LinkChain ==
  ASSUME ChainInv, Inv', LinkCluster
  PROVE  ChainInv'
<1> USE TableFacts
<1>1. /\ pc = "wlink" /\ pc' = "wterminate"
      /\ new \in Entries /\ fat[new] = Free /\ fat[cur] = EOC
      /\ cur \in Table /\ new \in Table /\ new # cur
      /\ fat' = [fat EXCEPT ![cur] = new]
      /\ UNCHANGED <<dir, fds, cur, new>>
      /\ fat \in [Table -> {Free, EOC} \union Entries]
  BY DEF ChainInv, Inv, TypeOK, AppendInv, LinkCluster, locals
<1>2. fat'[cur] = new /\ \A c \in Table \ {cur} : fat'[c] = fat[c]
  BY <1>1
<1>3. Heads' = Heads
  BY <1>1 DEF Heads
<1>4. \A c \in Table : fat[c] # new
  BY <1>1 DEF ChainInv, ChainsApart, Linked
<1>5. new \notin Heads
  BY <1>1 DEF ChainInv, AppendInv
<1>6. ASSUME NEW c \in Table, NEW e \in Table, fat'[c] \in Entries, fat'[c] = fat'[e]
      PROVE  c = e
  BY <1>2, <1>4, <1>6 DEF ChainInv, ChainsApart, Linked
<1>7. ASSUME NEW c \in Table, fat'[c] \in Entries PROVE fat'[c] \notin Heads
  BY <1>2, <1>5, <1>7 DEF ChainInv, ChainsApart, Linked
<1>8. ASSUME NEW c \in Table, fat'[c] \in Entries, fat'[fat'[c]] = Free
      PROVE  fat'[c] = new
  <2>1. CASE c = cur
    BY <1>2, <2>1
  <2>2. CASE c # cur
    <3>1. fat'[c] = fat[c] /\ fat[c] \in Entries
      BY <1>2, <1>8, <2>2
    <3>2. fat[c] # cur
      BY <1>1, <1>2, <1>8, <3>1
    <3>3. fat[fat[c]] = Free
      BY <1>2, <1>8, <3>1, <3>2
    <3> QED
      BY <1>1, <3>1, <3>3 DEF ChainInv, ChainsApart, Linked
  <2> QED
    BY <2>1, <2>2
<1>9. ChainsApart'
  BY <1>1, <1>3, <1>6, <1>7, <1>8 DEF ChainsApart, Linked
<1>10. AppendInv'
  <2>1. \A h \in Heads : h \in Table
    BY GeometryAssumption, SMTT(30) DEF ChainInv, Inv, TypeOK, Heads
  <2> QED
    BY <1>1, <1>2, <1>3, <2>1 DEF ChainInv, AppendInv
<1> QED
  BY <1>9, <1>10 DEF ChainInv

LEMMA TerminateChainKept ==
  ASSUME ChainInv, Inv', TerminateChain
  PROVE  ChainInv'
<1> USE TableFacts
<1>1. /\ pc = "wterminate" /\ pc' \in {"wseek", "wsector"}
      /\ new \in Entries /\ fat[new] = Free
      /\ new \in Table /\ cur' = new
      /\ fat' = [fat EXCEPT ![new] = EOC]
      /\ UNCHANGED <<dir, fds>>
      /\ fat \in [Table -> {Free, EOC} \union Entries]
  BY DEF ChainInv, Inv, TypeOK, AppendInv, TerminateChain
<1>2. fat'[new] = EOC /\ \A c \in Table \ {new} : fat'[c] = fat[c]
  BY <1>1
<1>3. Heads' = Heads
  BY <1>1 DEF Heads
<1>4. ASSUME NEW c \in Table, fat'[c] \in Entries
      PROVE  c # new /\ fat[c] = fat'[c] /\ fat'[fat'[c]] # Free
  <2>1. c # new /\ fat[c] = fat'[c]
    BY <1>2, <1>4
  <2>2. CASE fat[c] = new
    BY <1>2, <2>1, <2>2
  <2>3. CASE fat[c] # new
    <3>1. fat[fat[c]] # Free
      BY <1>4, <2>1, <2>3 DEF ChainInv, ChainsApart, Linked
    <3> QED
      BY <1>2, <1>4, <2>1, <2>3, <3>1
  <2> QED
    BY <2>1, <2>2, <2>3
<1>5. ChainsApart'
  <2>1. ASSUME NEW c \in Table, NEW e \in Table, fat'[c] \in Entries,
               fat'[c] = fat'[e]
        PROVE  c = e
    BY <1>4, <2>1 DEF ChainInv, ChainsApart, Linked
  <2>2. ASSUME NEW c \in Table, fat'[c] \in Entries PROVE fat'[c] \notin Heads
    BY <1>4, <2>2 DEF ChainInv, ChainsApart, Linked
  <2> QED
    BY <1>3, <1>4, <2>1, <2>2 DEF ChainsApart, Linked
<1>6. AppendInv'
  <2>1. \A h \in Heads : h \in Table
    BY GeometryAssumption, SMTT(30) DEF ChainInv, Inv, TypeOK, Heads
  <2> QED
    BY <1>1, <1>2, <1>3, <2>1 DEF ChainInv, AppendInv
<1> QED
  BY <1>5, <1>6 DEF ChainInv

LEMMA CallsChain ==
  ASSUME ChainInv, Inv', Calls
  PROVE  ChainInv'
<1> USE GeometryAssumption
<1>1. pc = "idle" /\ fat' = fat /\ dir' = dir
  BY DEF Calls, Open, OpenFails, Close, Fstat, Lseek, ReadNow, ReadBegin,
         WriteNow, WriteBegin, Answer, disk
<1>2. Heads' = Heads
  BY <1>1 DEF Heads
<1>3. pc' # "wterminate" /\ pc' # "wlink"
  BY <1>1 DEF Calls, Open, OpenFails, Close, Fstat, Lseek, ReadNow, ReadBegin,
         WriteNow, WriteBegin, Answer
<1>4. \A d \in FdTable : fds[d] # Closed => fds[d].cluster \in Heads
  BY DEF ChainInv, AppendInv
<1>5. fds \in [FdTable -> Descriptor \union {Closed}]
  BY DEF ChainInv, Inv, TypeOK
<1>6. \A d \in FdTable : fds'[d] # Closed => fds'[d].cluster \in Heads
  <2>1. ASSUME NEW f \in Names, Open(f)
        PROVE  \A d \in FdTable : fds'[d] # Closed => fds'[d].cluster \in Heads
    <3>1. dir[f].cluster \in Heads
      BY DEF Heads
    <3> QED
      BY <1>4, <1>5, <2>1, <3>1 DEF Open
  <2>2. ASSUME NEW d \in FdArgs, Close(d)
        PROVE  \A e \in FdTable : fds'[e] # Closed => fds'[e].cluster \in Heads
    BY <1>4, <1>5, <2>2 DEF Close
  <2>3. ASSUME NEW d \in FdArgs, NEW o \in Offsets, NEW w \in 0 .. 3, Lseek(d, o, w)
        PROVE  \A e \in FdTable : fds'[e] # Closed => fds'[e].cluster \in Heads
    <3>1. CASE IsOpen(d) /\ fds' = [fds EXCEPT ![d].position = Target(d, o, w)]
      <4>1. fds[d] \in Descriptor /\ d \in FdTable
        BY <1>5, <3>1 DEF IsOpen
      <4>2. fds'[d].cluster = fds[d].cluster
        BY <1>5, <3>1, <4>1 DEF Descriptor
      <4> QED
        BY <1>4, <1>5, <3>1, <4>1, <4>2 DEF IsOpen
    <3>2. CASE UNCHANGED fds
      BY <1>4, <3>2
    <3> QED
      BY <2>3, <3>1, <3>2 DEF Lseek
  <2>4. CASE UNCHANGED fds
    BY <1>4, <2>4
  <2> QED
    BY <2>1, <2>2, <2>3, <2>4 DEF Calls, OpenFails, Fstat, ReadNow, ReadBegin,
                                  WriteNow, WriteBegin
<1>7. pc' \in Writing => fat[cur'] # Free
  <2>1. ASSUME NEW d \in FdArgs, NEW p \in Payloads, WriteBegin(d, p)
        PROVE  fat[cur'] # Free
    BY <1>4, <2>1 DEF WriteBegin, IsOpen, ChainInv, AppendInv
  <2> QED
    BY <1>1, <2>1 DEF Calls, Open, OpenFails, Close, Fstat, Lseek, ReadNow,
                      ReadBegin, WriteNow, Answer, Writing
<1> QED
  BY <1>1, <1>2, <1>3, <1>6, <1>7, ChainKept

LEMMA StepsChain ==
  ASSUME ChainInv, Inv', Step
  PROVE  ChainInv'
<1> USE TableFacts
<1>1. \A d \in FdTable : fds[d] # Closed => fds[d].cluster \in Heads
  BY DEF ChainInv, AppendInv
<1>2. CASE LinkCluster
  BY <1>2, LinkChain
<1>3. CASE TerminateChain
  BY <1>3, TerminateChainKept
<1>4. CASE ReadSeek \/ ReadCluster
  <2>1. fat' = fat /\ dir' = dir /\ fds' = fds /\ pc # "wterminate"
        /\ pc' \in {"rseek", "rcluster", "rdone"}
    BY <1>4 DEF ReadSeek, ReadCluster, disk
  <2> QED
    BY <1>1, <2>1, ChainKept DEF Heads, Writing
<1>5. CASE ReadDone
  <2>1. fat' = fat /\ dir' = dir /\ pc # "wterminate" /\ pc' = "idle"
    BY <1>5 DEF ReadDone, disk
  <2>2. /\ fds \in [FdTable -> Descriptor \union {Closed}]
        /\ fds[fd] \in Descriptor /\ fd \in FdTable
    BY <1>5 DEF ReadDone, ChainInv, Inv, TypeOK, CallInv
  <2>3. fds' = [fds EXCEPT ![fd].position = fds[fd].position + Len(buf)]
    BY <1>5 DEF ReadDone
  <2>4. \A d \in FdTable : /\ fds'[d] # Closed => fds[d] # Closed
                           /\ fds'[d] # Closed => fds'[d].cluster = fds[d].cluster
    <3>1. fds[fd] # Closed
      BY <2>2, DescriptorOpen
    <3>2. fds'[fd].cluster = fds[fd].cluster
      BY <2>2, <2>3 DEF Descriptor
    <3>3. \A d \in FdTable \ {fd} : fds'[d] = fds[d]
      BY <2>2, <2>3
    <3> QED
      BY <3>1, <3>2, <3>3
  <2> QED
    <3>1. \A d \in FdTable : fds'[d] # Closed => fds'[d].cluster \in Heads
      <4>1. SUFFICES ASSUME NEW d \in FdTable, fds'[d] # Closed
                     PROVE  fds'[d].cluster \in Heads
        OBVIOUS
      <4>2. fds[d] # Closed /\ fds'[d].cluster = fds[d].cluster
        BY <2>4, <4>1
      <4>3. fds[d].cluster \in Heads
        BY <1>1, <4>2
      <4> QED
        BY <4>2, <4>3
    <3>2. pc' \notin Writing /\ pc' # "wlink" /\ pc' # "wterminate"
      BY <2>1 DEF Writing
    <3>3. Heads' = Heads
      BY <2>1 DEF Heads
    <3> QED
      BY <2>1, <3>1, <3>2, <3>3, ChainKept
<1>6. CASE WriteSeek \/ NextCluster
  <2>1. /\ fat' = fat /\ dir' = dir /\ fds' = fds /\ pc # "wterminate"
        /\ pc' \in {"wseek", "wsector"}
        /\ next_cluster(cur) # None /\ cur' = next_cluster(cur)
    BY <1>6 DEF WriteSeek, NextCluster, disk
  <2> QED
    BY <1>1, <2>1, NextInUse, ChainKept DEF Heads
<1>7. CASE WriteSeekDone \/ WriteSector \/ DiskFull
  <2>1. /\ fat' = fat /\ dir' = dir /\ fds' = fds /\ cur' = cur
        /\ pc \in {"wseek", "wsector", "wmore"}
        /\ pc' \in {"wsector", "wmore", "wdone"}
    BY <1>7 DEF WriteSeekDone, WriteSector, DiskFull, disk, locals
  <2>2. fat[cur] # Free
    BY <2>1 DEF ChainInv, AppendInv, Writing
  <2> QED
    BY <1>1, <2>1, <2>2, ChainKept DEF Heads
<1>8. CASE AllocCluster
  <2>1. /\ fat' = fat /\ dir' = dir /\ fds' = fds /\ cur' = cur
        /\ pc \in {"wseek", "wmore"} /\ pc' = "wlink"
        /\ new' \in Entries /\ fat[new'] = Free
        /\ next_cluster(cur) = None
    BY <1>8 DEF AllocCluster, AtChainEnd, FirstFree, disk
  <2>2. fat[cur] # Free
    BY <2>1 DEF ChainInv, AppendInv, Writing
  <2>3. fat[cur] = EOC
    BY <2>1, <2>2 DEF next_cluster, None
  <2> QED
    BY <1>1, <2>1, <2>2, <2>3, ChainKept DEF Heads
<1>9. CASE GapDiskFull
  <2>1. fat' = fat /\ dir' = dir /\ fds' = fds /\ pc = "wseek" /\ pc' = "idle"
    BY <1>9 DEF GapDiskFull, disk
  <2> QED
    BY <1>1, <2>1, ChainKept DEF Heads, Writing
<1>10. CASE WriteDone
  <2>1. fat' = fat /\ pc = "wdone" /\ pc' = "idle"
    BY <1>10 DEF WriteDone
  <2>2. /\ fds \in [FdTable -> Descriptor \union {Closed}]
        /\ fds[fd] \in Descriptor /\ fd \in FdTable
        /\ dir \in [Names -> [cluster : Table, size : Nat]]
    BY <2>1 DEF ChainInv, Inv, TypeOK, CallInv
  <2>3. Heads' = Heads
    <3>1. \A f \in Names : dir'[f].cluster = dir[f].cluster
      BY <1>10, <2>2, SMTT(30) DEF WriteDone, WithSize
    <3> QED
      BY <3>1 DEF Heads
  <2>4. \A d \in FdTable : fds'[d] # Closed => fds'[d].cluster \in Heads
    <3>1. fds[fd] # Closed
      BY <2>2, DescriptorOpen
    <3>2. fds'[fd].cluster = fds[fd].cluster
      BY <1>10, <2>2 DEF WriteDone, Descriptor
    <3>3. \A d \in FdTable \ {fd} : fds'[d] = fds[d]
      BY <1>10, <2>2 DEF WriteDone
    <3> QED
      BY <1>1, <2>2, <3>1, <3>2, <3>3
  <2> QED
    BY <2>1, <2>3, <2>4, ChainKept DEF Writing
<1> QED
  BY <1>2, <1>3, <1>4, <1>5, <1>6, <1>7, <1>8, <1>9, <1>10 DEF Step

LEMMA NextChain ==
  ASSUME MaxCrashes = 0
  PROVE  ChainInv /\ [Next]_vars => ChainInv'
<1> SUFFICES ASSUME ChainInv, [Next]_vars PROVE ChainInv'
  OBVIOUS
<1>1. Inv'
  BY NextInv DEF ChainInv
<1>2. CASE UNCHANGED vars
  BY <1>1, <1>2 DEF vars, disk, locals, ChainInv, ChainsApart, Linked, AppendInv, Heads
<1>3. ~ Crash
  BY DEF Crash, ChainInv, Inv, TypeOK
<1> QED
  BY <1>1, <1>2, <1>3, CallsChain, StepsChain DEF Next

(* As long as the power does not fail within a call, the chains of two     *)
(* files never meet, whatever the order in which alloc_cluster and         *)
(* set_fat_entry extend them.                                              *)
THEOREM ChainsStayApart ==
  ASSUME MaxCrashes = 0
  PROVE  Spec => []ChainsApart
<1>1. ChainInv => ChainsApart
  BY DEF ChainInv
<1> QED
  BY <1>1, InitChain, NextChain, PTL DEF Spec

(* write_cluster is only ever given a cluster in use and an offset within  *)
(* it, so its subtraction from the cluster size never wraps.               *)
THEOREM WritesStayWithinCluster ==
  ASSUME MaxCrashes = 0
  PROVE  Spec => []WriteWithinCluster
<1>1. ChainInv => WriteWithinCluster
  BY DEF ChainInv, Inv, LoopInv, AppendInv, WriteWithinCluster, Writing, Offs
<1> QED
  BY <1>1, InitChain, NextChain, PTL DEF Spec

-----------------------------------------------------------------------------
(* What the chains have room for.                                          *)
(*                                                                         *)
(* ClusterAt is recursive, so what holds at every place of a chain is      *)
(* shown by looking at the first place where it would not.                 *)
LEMMA LeastNumber ==
  ASSUME NEW S \in SUBSET Nat, S # {}
  PROVE  \E x \in S : \A y \in S : x <= y
<1>1. \E x \in S : \A y \in S : ~ (<<y, x>> \in OpToRel(<, Nat))
  BY NatLessThanWellFounded, WFMin
<1>2. \A x, y \in S : ~ (<<y, x>> \in OpToRel(<, Nat)) => x <= y
  BY DEF OpToRel
<1> QED
  BY <1>1, <1>2

(* next_cluster and the chain it leads along, in the allocation table t.   *)
Follow(t, c) == IF t[c] = Free THEN None ELSE t[c]

Along(t, c, at, n) ==
  at = [k \in 0 .. n |-> IF k = 0 THEN c
                         ELSE IF at[k - 1] = None THEN None
                         ELSE Follow(t, at[k - 1])]

FatType == [Table -> {Free, EOC} \union Entries]

LEMMA ChainExists ==
  ASSUME NEW t \in FatType, NEW c \in Table, NEW n \in Nat
  PROVE  \E at : Along(t, c, at, n)
<1> DEFINE Bad == {k \in Nat : ~ \E at : Along(t, c, at, k)}
<1>1. 0 \notin Bad
  <2>1. Along(t, c, [k \in 0 .. 0 |-> c], 0)
    BY DEF Along
  <2> QED
    BY <2>1
<1>2. ASSUME NEW k \in Nat, NEW g, Along(t, c, g, k)
      PROVE  \E at : Along(t, c, at, k + 1)
  <2> DEFINE h == [i \in 0 .. k + 1 |->
                     IF i <= k THEN g[i]
                     ELSE IF g[k] = None THEN None ELSE Follow(t, g[k])]
  <2>1. \A i \in 0 .. k : g[i] = IF i = 0 THEN c
                         ELSE IF g[i - 1] = None THEN None
                         ELSE Follow(t, g[i - 1])
    BY <1>2 DEF Along
  <2>2. \A i \in 0 .. k : h[i] = g[i]
    OBVIOUS
  <2>3. h[k + 1] = IF g[k] = None THEN None ELSE Follow(t, g[k])
    OBVIOUS
  <2> HIDE DEF h
  <2>4. \A i \in 0 .. k + 1 : h[i] = IF i = 0 THEN c
                         ELSE IF h[i - 1] = None THEN None
                         ELSE Follow(t, h[i - 1])
    <3>1. ASSUME NEW i \in 0 .. k + 1
          PROVE  h[i] = IF i = 0 THEN c ELSE IF h[i - 1] = None THEN None
                         ELSE Follow(t, h[i - 1])
      <4>1. CASE i = 0
        BY <2>1, <2>2, <4>1
      <4>2. CASE i \in 1 .. k
        BY <2>1, <2>2, <4>2
      <4>3. CASE i = k + 1
        BY <2>2, <2>3, <4>3
      <4> QED
        BY <4>1, <4>2, <4>3
    <3> QED
      BY <3>1
  <2>5. h = [i \in 0 .. k + 1 |-> h[i]]
    BY DEF h
  <2>6. Along(t, c, h, k + 1)
    BY <2>4, <2>5 DEF Along
  <2> QED
    BY <2>6
<1>3. Bad = {}
  <2>1. SUFFICES ASSUME Bad # {} PROVE FALSE
    OBVIOUS
  <2>2. PICK m \in Bad : \A y \in Bad : m <= y
    BY <2>1, LeastNumber
  <2>3. m \in Nat /\ m # 0
    BY <1>1, <2>2
  <2>4. m - 1 \in Nat /\ m - 1 \notin Bad /\ m - 1 + 1 = m
    BY <2>2, <2>3
  <2>5. \E at : Along(t, c, at, m)
    <3>1. PICK g : Along(t, c, g, m - 1)
      BY <2>4
    <3> QED
      BY <1>2, <2>4, <3>1
  <2> QED
    BY <2>2, <2>5
<1> QED
  BY <1>3

ChainOf(t, c) == CHOOSE at : Along(t, c, at, LastEntry)

LEMMA ChainSteps ==
  ASSUME NEW t \in FatType, NEW c \in Table
  PROVE  LET at == ChainOf(t, c)
         IN  /\ at[0] = c
             /\ \A k \in 0 .. LastEntry : at[k] \in Table \union {None}
             /\ \A k \in 1 .. LastEntry :
                  /\ at[k - 1] = None => at[k] = None
                  /\ at[k - 1] # None => at[k] = Follow(t, at[k - 1])
<1> DEFINE at == ChainOf(t, c)
<1>0. LastEntry \in Nat
  BY GeometryAssumption
<1>1. Along(t, c, at, LastEntry)
  BY <1>0, ChainExists DEF ChainOf
<1> HIDE DEF at
<1>2. \A k \in 0 .. LastEntry : at[k] = IF k = 0 THEN c
                         ELSE IF at[k - 1] = None THEN None
                         ELSE Follow(t, at[k - 1])
  BY <1>1 DEF Along
<1>3. /\ at[0] = c
      /\ \A k \in 1 .. LastEntry :
                  /\ at[k - 1] = None => at[k] = None
                  /\ at[k - 1] # None => at[k] = Follow(t, at[k - 1])
  BY <1>0, <1>2
<1>4. \A k \in 0 .. LastEntry : at[k] \in Table \union {None}
  <2> DEFINE Bad == {k \in 0 .. LastEntry : at[k] \notin Table \union {None}}
  <2>1. SUFFICES ASSUME Bad # {} PROVE FALSE
    OBVIOUS
  <2>2. PICK m \in Bad : \A y \in Bad : m <= y
    <3>1. Bad \in SUBSET Nat
      BY <1>0
    <3> HIDE DEF Bad
    <3> QED
      BY <2>1, <3>1, LeastNumber
  <2>3. m # 0
    BY <1>3, <2>2
  <2>4. m \in 1 .. LastEntry /\ m - 1 \in 0 .. LastEntry /\ m - 1 \notin Bad
    BY <1>0, <2>2, <2>3
  <2>5. CASE at[m - 1] = None
    BY <1>3, <2>2, <2>4, <2>5
  <2>6. CASE at[m - 1] # None
    <3>1. at[m - 1] \in Table
      BY <2>4, <2>6
    <3>2. t[at[m - 1]] \in {Free, EOC} \union Entries
      BY <3>1 DEF FatType
    <3>3. at[m] = Follow(t, at[m - 1])
      BY <1>3, <2>4, <2>6
    <3> QED
      BY <2>2, <3>2, <3>3, TableFacts DEF Follow, None
  <2> QED
    BY <2>5, <2>6
<1> QED
  BY <1>3, <1>4 DEF at

(* Nothing follows the end of a chain.                                     *)
LEMMA ChainBefore ==
  ASSUME NEW t \in FatType, NEW c \in Table, NEW n \in 0 .. LastEntry,
         ChainOf(t, c)[n] # None
  PROVE  \A k \in 0 .. n : ChainOf(t, c)[k] # None
<1> DEFINE at == ChainOf(t, c)
           Bad == {m \in 0 .. n : at[n - m] = None}
<1>0. LastEntry \in Nat /\ n \in Nat
  BY GeometryAssumption
<1>1. \A k \in 1 .. LastEntry : at[k - 1] = None => at[k] = None
  BY ChainSteps
<1> HIDE DEF at
<1>2. Bad = {}
  <2>1. SUFFICES ASSUME Bad # {} PROVE FALSE
    OBVIOUS
  <2>2. PICK m \in Bad : \A y \in Bad : m <= y
    <3>1. Bad \in SUBSET Nat
      BY <1>0
    <3> HIDE DEF Bad
    <3> QED
      BY <2>1, <3>1, LeastNumber
  <2>3. m # 0
    BY <1>0, <2>2 DEF at
  <2> DEFINE k == n - m + 1
  <2>4. k \in 1 .. LastEntry /\ at[k - 1] = None /\ k = n - (m - 1) /\ m - 1 \in 0 .. n
    BY <1>0, <2>2, <2>3
  <2> HIDE DEF k
  <2>5. at[k] = None
    BY <1>1, <2>4
  <2> QED
    BY <2>2, <2>4, <2>5
<1>3. \A k \in 0 .. n : at[k] # None
  <2>1. ASSUME NEW k \in 0 .. n, at[k] = None PROVE FALSE
    <3>1. n - k \in Bad
      BY <1>0, <2>1
    <3> QED
      BY <1>2, <3>1
  <2> QED
    BY <2>1
<1> QED
  BY <1>3 DEF at

(* No table entry leads to a first cluster, or to where another one leads. *)
Apart(t, heads) ==
  /\ \A c, e \in Table : t[c] \in Entries /\ t[c] = t[e] => c = e
  /\ \A c \in Table : t[c] \in Entries => t[c] \notin heads

LEMMA FollowEntry ==
  ASSUME NEW t \in FatType, NEW c \in Table, Follow(t, c) # None
  PROVE  Follow(t, c) = t[c] /\ t[c] \in Entries
  BY DEF FatType, Follow, None, Free

(* A chain does not come back to a cluster it has been at.                 *)
LEMMA ChainIsSimple ==
  ASSUME NEW t \in FatType, NEW heads, NEW h \in heads, h \in Table,
         Apart(t, heads)
  PROVE  LET at == ChainOf(t, h)
         IN  \A i, j \in 0 .. LastEntry : i < j /\ at[j] # None => at[i] # at[j]
<1> DEFINE at == ChainOf(t, h)
           Bad == {i \in 0 .. LastEntry : \E j \in 0 .. LastEntry :
                     i < j /\ at[j] # None /\ at[i] = at[j]}
<1>0. LastEntry \in Nat
  BY GeometryAssumption
<1>1. /\ at[0] = h
      /\ \A k \in 0 .. LastEntry : at[k] \in Table \union {None}
      /\ \A k \in 1 .. LastEntry :
                  /\ at[k - 1] = None => at[k] = None
                  /\ at[k - 1] # None => at[k] = Follow(t, at[k - 1])
  BY ChainSteps
<1> HIDE DEF at
<1>2. SUFFICES ASSUME Bad # {} PROVE FALSE
  BY DEF at
<1>3. PICK i \in Bad : \A y \in Bad : i <= y
  <2>1. Bad \in SUBSET Nat
    BY <1>0
  <2> HIDE DEF Bad
  <2> QED
    BY <1>2, <2>1, LeastNumber
<1>4. PICK j \in 0 .. LastEntry : i < j /\ at[j] # None /\ at[i] = at[j]
  BY <1>3
<1>5. i \in 0 .. LastEntry /\ j \in 1 .. LastEntry /\ j - 1 \in 0 .. LastEntry
  BY <1>0, <1>3, <1>4
<1>6. at[j - 1] \in Table /\ at[j] = t[at[j - 1]] /\ at[j] \in Entries
  <2>1. at[j - 1] # None /\ at[j] = Follow(t, at[j - 1])
    BY <1>1, <1>4, <1>5
  <2>2. at[j - 1] \in Table
    BY <1>1, <1>5, <2>1
  <2> QED
    BY <1>4, <2>1, <2>2, FollowEntry
<1>7. CASE i = 0
  BY <1>1, <1>4, <1>6, <1>7 DEF Apart
<1>8. CASE i # 0
  <2>1. i \in 1 .. LastEntry /\ i - 1 \in 0 .. LastEntry /\ i - 1 < j - 1
    BY <1>0, <1>4, <1>5, <1>8
  <2>2. at[i - 1] # None /\ at[i] = Follow(t, at[i - 1])
    BY <1>1, <1>4, <2>1
  <2>3. at[i - 1] \in Table /\ at[i] = t[at[i - 1]]
    BY <1>1, <1>4, <2>1, <2>2, FollowEntry
  <2>4. at[i - 1] = at[j - 1]
    BY <1>4, <1>6, <2>3 DEF Apart
  <2>5. i - 1 \in Bad
    BY <1>5, <1>6, <2>1, <2>2, <2>4
  <2> QED
    BY <1>3, <1>5, <2>5
<1> QED
  BY <1>7, <1>8

(* So it ends before there are more places in it than clusters.            *)
LEMMA ChainEnds ==
  ASSUME NEW t \in FatType, NEW heads, NEW h \in heads, h \in Table,
         Apart(t, heads), NEW n \in 0 .. LastEntry, ChainOf(t, h)[n] # None
  PROVE  n < LastEntry
<1> DEFINE at == ChainOf(t, h)
<1>0. LastEntry \in Nat /\ LastEntry >= 2
  BY GeometryAssumption
<1>1. /\ \A k \in 0 .. LastEntry : at[k] \in Table \union {None}
      /\ \A i, j \in 0 .. LastEntry : i < j /\ at[j] # None => at[i] # at[j]
  BY ChainSteps, ChainIsSimple
<1> HIDE DEF at
<1>2. SUFFICES ASSUME at[LastEntry] # None PROVE FALSE
  BY <1>0 DEF at
<1>3. \A k \in 0 .. LastEntry : at[k] # None
  <2>1. LastEntry \in 0 .. LastEntry
    BY <1>0
  <2> QED
    BY <1>2, <2>1, ChainBefore DEF at
<1>4. [k \in 0 .. LastEntry |-> at[k]] \in [0 .. LastEntry -> Table]
  BY <1>1, <1>3
<1>5. IsFiniteSet(0 .. LastEntry) /\ Cardinality(0 .. LastEntry) = LastEntry + 1
  BY <1>0, FS_Interval
<1>6. IsFiniteSet(Table) /\ Cardinality(Table) = LastEntry
  <2>1. IsFiniteSet(Entries) /\ Cardinality(Entries) = LastEntry - 1
    BY <1>0, FS_Interval DEF Entries
  <2>2. Table = Entries \union {0} /\ 0 \notin Entries
    BY DEF Table, Entries
  <2> QED
    BY <1>0, <2>1, <2>2, FS_AddElement
<1>7. \E x, y \in 0 .. LastEntry : x # y /\ at[x] = at[y]
  <2> DEFINE g == [k \in 0 .. LastEntry |-> at[k]]
  <2>1. \E x, y \in 0 .. LastEntry : x # y /\ g[x] = g[y]
    <3>1. g \in [0 .. LastEntry -> Table]
      BY <1>4
    <3>2. Cardinality(Table) < Cardinality(0 .. LastEntry)
      BY <1>0, <1>5, <1>6
    <3> HIDE DEF g
    <3> QED
      BY <1>5, <1>6, <3>1, <3>2, FS_PigeonHole, ZenonT(60)
  <2> QED
    BY <2>1
<1>8. PICK x \in 0 .. LastEntry, y \in 0 .. LastEntry : x # y /\ at[x] = at[y]
  BY <1>7
<1>9. x < y \/ y < x
  BY <1>8
<1> QED
  BY <1>1, <1>3, <1>8, <1>9

(* Of two tables where the second leads on wherever the first does, and    *)
(* there to the same place, the second one's chains are the longer ones.   *)
Extends(t, u) == \A c \in Table : Follow(t, c) # None => Follow(u, c) = Follow(t, c)

Places(t, c) == {k \in 0 .. LastEntry : ChainOf(t, c)[k] # None}

LEMMA ChainGrows ==
  ASSUME NEW t \in FatType, NEW u \in FatType, Extends(t, u), NEW c \in Table
  PROVE  \A k \in Places(t, c) : ChainOf(u, c)[k] = ChainOf(t, c)[k]
<1> DEFINE at == ChainOf(t, c)
           to == ChainOf(u, c)
           Bad == {k \in 0 .. LastEntry : at[k] # None /\ to[k] # at[k]}
<1>0. LastEntry \in Nat
  BY GeometryAssumption
<1>1. /\ at[0] = c
      /\ \A k \in 0 .. LastEntry : at[k] \in Table \union {None}
      /\ \A k \in 1 .. LastEntry :
                  /\ at[k - 1] = None => at[k] = None
                  /\ at[k - 1] # None => at[k] = Follow(t, at[k - 1])
  BY ChainSteps
<1>2. /\ to[0] = c
      /\ \A k \in 1 .. LastEntry : to[k - 1] # None => to[k] = Follow(u, to[k - 1])
  BY ChainSteps
<1> HIDE DEF at, to
<1>3. SUFFICES ASSUME Bad # {} PROVE FALSE
  BY DEF at, to, Places
<1>4. PICK k \in Bad : \A y \in Bad : k <= y
  <2>1. Bad \in SUBSET Nat
    BY <1>0
  <2> HIDE DEF Bad
  <2> QED
    BY <1>3, <2>1, LeastNumber
<1>5. k \in 1 .. LastEntry /\ k - 1 \in 0 .. LastEntry
  BY <1>0, <1>1, <1>2, <1>4
<1>6. at[k - 1] # None /\ at[k - 1] \in Table /\ at[k] = Follow(t, at[k - 1])
  BY <1>1, <1>4, <1>5
<1>7. to[k - 1] = at[k - 1]
  BY <1>4, <1>5, <1>6
<1>8. to[k] = Follow(u, at[k - 1])
  BY <1>2, <1>5, <1>6, <1>7
<1> QED
  BY <1>4, <1>6, <1>8 DEF Extends

Room(t, c) == ClusterSize * Cardinality(Places(t, c))

LEMMA PlacesFinite ==
  ASSUME NEW t, NEW c
  PROVE  IsFiniteSet(Places(t, c)) /\ Cardinality(Places(t, c)) \in Nat
<1>1. IsFiniteSet(0 .. LastEntry)
  BY FS_Interval, GeometryAssumption
<1>2. Places(t, c) \in SUBSET (0 .. LastEntry)
  BY DEF Places
<1> QED
  BY <1>1, <1>2, FS_Subset, FS_CardinalityType

LEMMA ProductGrows ==
  \A a, b, c \in Nat : a <= b => c * a <= c * b
  OBVIOUS

LEMMA RoomGrows ==
  ASSUME NEW t \in FatType, NEW u \in FatType, Extends(t, u), NEW c \in Table
  PROVE  Room(t, c) <= Room(u, c) /\ Room(t, c) \in Nat /\ Room(u, c) \in Nat
<1>1. Places(t, c) \in SUBSET Places(u, c)
  BY ChainGrows DEF Places
<1>2. Cardinality(Places(t, c)) <= Cardinality(Places(u, c))
  BY <1>1, FS_Subset, PlacesFinite
<1> QED
  BY <1>2, PlacesFinite, ProductGrows, ClusterSizeType DEF Room

(* A chain has room up to the end of any cluster in it.                    *)
LEMMA RoomUpTo ==
  ASSUME NEW t \in FatType, NEW c \in Table, NEW n \in 0 .. LastEntry,
         ChainOf(t, c)[n] # None
  PROVE  ClusterSize * (n + 1) <= Room(t, c)
<1>0. LastEntry \in Nat /\ n \in Nat
  BY GeometryAssumption
<1>1. 0 .. n \in SUBSET Places(t, c)
  BY <1>0, ChainBefore DEF Places
<1>2. IsFiniteSet(0 .. n) /\ Cardinality(0 .. n) = n + 1
  BY <1>0, FS_Interval
<1>3. n + 1 <= Cardinality(Places(t, c))
  BY <1>1, <1>2, FS_Subset, PlacesFinite
<1> QED
  BY <1>0, <1>3, PlacesFinite, ProductGrows, ClusterSizeType DEF Room

-----------------------------------------------------------------------------
(* A write stands at place n of its file's chain, and the file offsets     *)
(* that its loops count on are those of that place.                        *)
Walked(n) ==
  /\ ChainOf(fat, fds[fd].cluster)[n] = cur
  /\ written = 0 => start = ClusterSize * n
  /\ written > 0 /\ pc = "wsector" =>
       fds[fd].position + written = ClusterSize * n
  /\ written > 0 /\ pc \in {"wmore", "wlink", "wterminate"} =>
       fds[fd].position + written = ClusterSize * (n + 1)
  /\ pc = "wdone" => written > 0 /\ fds[fd].position + written <= ClusterSize * (n + 1)

Owned(t, heads, c) ==
  \E h \in heads : \E k \in 0 .. LastEntry : ChainOf(t, h)[k] = c

WalkInv == pc \in Writing => \E n \in 0 .. LastEntry : Walked(n)

(* After a power failure nothing is written any more.                      *)
QuietInv ==
  /\ crashes = 0 => ChainInv
  /\ crashes > 0 => pc \notin Writing /\ ~ WriteAfterCrash

RoomInv == Inv /\ QuietInv /\ WalkInv

LEMMA HeadsType == TypeOK => Heads \subseteq Table
  BY GeometryAssumption, TableFacts DEF TypeOK, Heads

LEMMA ApartNow == ChainInv => Apart(fat, Heads) /\ fat \in FatType
  BY DEF ChainInv, ChainsApart, Linked, Apart, Inv, TypeOK, FatType

LEMMA WritingChain ==
  ASSUME RoomInv, pc \in Writing
  PROVE  /\ ChainInv /\ Inv /\ TypeOK /\ crashes = 0
         /\ fat \in FatType /\ Apart(fat, Heads) /\ Heads \subseteq Table
         /\ fds[fd] \in Descriptor /\ fd \in FdTable /\ fds[fd].cluster \in Heads
         /\ fds[fd].cluster \in Table
         /\ fds[fd].position \in Nat /\ written \in Nat /\ start \in Nat
         /\ \E n \in 0 .. LastEntry : Walked(n)
<1>1. ChainInv /\ crashes = 0
  BY DEF RoomInv, QuietInv, Inv, TypeOK
<1>2. pc # "idle"
  BY DEF Writing
<1>3. Inv /\ TypeOK /\ fds[fd] \in Descriptor /\ fd \in FdTable
  BY <1>2 DEF RoomInv, Inv, TypeOK, CallInv
<1>4. fds[fd] # Closed
  BY <1>3, DescriptorOpen
<1>5. fds[fd].cluster \in Heads
  BY <1>1, <1>3, <1>4 DEF ChainInv, AppendInv
<1>6. fds[fd].position \in Nat /\ written \in Nat /\ start \in Nat
      /\ fds[fd].cluster \in Table
  BY <1>3 DEF Descriptor, TypeOK
<1> QED
  BY <1>1, <1>3, <1>5, <1>6, HeadsType, ApartNow DEF RoomInv, WalkInv

(* The cluster that the write goes on with is the next one of the chain.   *)
LEMMA WalkOn ==
  ASSUME NEW t \in FatType, NEW u \in FatType, Extends(t, u),
         NEW heads, Apart(t, heads), NEW h \in heads, h \in Table,
         NEW n \in 0 .. LastEntry, ChainOf(t, h)[n] # None
  PROVE  /\ n + 1 \in 0 .. LastEntry
         /\ ChainOf(u, h)[n] = ChainOf(t, h)[n]
         /\ ChainOf(u, h)[n + 1] = Follow(u, ChainOf(t, h)[n])
<1>1. n + 1 \in 1 .. LastEntry /\ n + 1 - 1 = n
  BY ChainEnds, GeometryAssumption
<1>2. ChainOf(u, h)[n] = ChainOf(t, h)[n]
  BY ChainGrows DEF Places
<1> DEFINE m == n + 1
<1>3. m \in 1 .. LastEntry /\ m - 1 = n
  BY <1>1
<1> HIDE DEF m
<1>4. ChainOf(u, h)[m - 1] # None => ChainOf(u, h)[m] = Follow(u, ChainOf(u, h)[m - 1])
  BY <1>3, ChainSteps
<1>5. ChainOf(u, h)[m] = Follow(u, ChainOf(t, h)[n])
  BY <1>2, <1>3, <1>4
<1> QED
  BY <1>1, <1>2, <1>5 DEF m

LEMMA SameExtends == \A t : Extends(t, t)
  BY DEF Extends

(* set_fat_entry only ever makes chains longer.                            *)
LEMMA LinkExtends ==
  ASSUME ChainInv, LinkCluster \/ TerminateChain
  PROVE  /\ Extends(fat, fat') /\ fat \in FatType /\ fat' \in FatType
         /\ \A c \in Table : fat[c] # Free => fat'[c] # Free
         /\ \A c \in Table : fat'[c] # Free => fat[c] # Free \/ (c = new /\ TerminateChain)
         /\ new \in Entries
         /\ LinkCluster => fat'[cur] = new
         /\ TerminateChain => fat'[cur] = new /\ fat[cur] = new
<1> USE TableFacts
<1>1. fat \in [Table -> {Free, EOC} \union Entries] /\ cur \in Table /\ new \in Table
  BY DEF ChainInv, Inv, TypeOK
<1>2. CASE LinkCluster
  <2>1. /\ pc = "wlink" /\ new \in Entries /\ fat[new] = Free /\ fat[cur] = EOC
        /\ fat' = [fat EXCEPT ![cur] = new]
    BY <1>2 DEF ChainInv, AppendInv, LinkCluster
  <2>2. fat' \in FatType /\ fat \in FatType
    BY <1>1, <2>1 DEF FatType
  <2>3. fat'[cur] = new /\ \A c \in Table : c # cur => fat'[c] = fat[c]
    BY <1>1, <2>1
  <2>4. Extends(fat, fat')
    BY <2>1, <2>3 DEF Extends, Follow, None
  <2>5. new # Free /\ EOC # Free /\ ~ TerminateChain
    BY <2>1 DEF TerminateChain
  <2> QED
    BY <2>1, <2>2, <2>3, <2>4, <2>5
<1>3. CASE TerminateChain
  <2>1. /\ pc = "wterminate" /\ new \in Entries /\ fat[new] = Free /\ fat[cur] = new
        /\ fat' = [fat EXCEPT ![new] = EOC]
    BY <1>3 DEF ChainInv, AppendInv, TerminateChain
  <2>2. fat' \in FatType /\ fat \in FatType
    BY <1>1, <2>1 DEF FatType
  <2>3. fat'[new] = EOC /\ \A c \in Table : c # new => fat'[c] = fat[c]
    BY <1>1, <2>1
  <2>4. Extends(fat, fat')
    BY <2>1, <2>3 DEF Extends, Follow, None
  <2>5. cur # new /\ ~ LinkCluster
    BY <2>1 DEF LinkCluster
  <2> QED
    BY <1>1, <2>1, <2>2, <2>3, <2>4, <2>5
<1> QED
  BY <1>2, <1>3

(* Every step of a write but these leaves the allocation table alone.      *)
LEMMA FatKept ==
  ASSUME Inv, Next, ~ LinkCluster, ~ TerminateChain
  PROVE  fat' = fat
  BY DEF Next, Calls, Step, Open, OpenFails, Close, Fstat, Lseek, ReadNow, ReadBegin,
         WriteNow, WriteBegin, Answer, ReadSeek, ReadCluster, ReadDone, WriteSeek,
         WriteSeekDone, AllocCluster, GapDiskFull, WriteSector, NextCluster,
         DiskFull, WriteDone, Crash, disk

LEMMA WholeCluster ==
  ASSUME Inv, WriteSector, written' # written, written' < Len(buf)
  PROVE  /\ written = 0 => fds[fd].position + written' = start + ClusterSize
         /\ written # 0 => written' = written + ClusterSize
<1>1. /\ pc = "wsector" /\ buf \in Seq(Bytes) /\ Len(buf) \in Nat
      /\ written \in Nat /\ written < Len(buf) /\ WriteOffset \in Offs
      /\ ClusterSize \in Nat
  BY ClusterSizeType DEF WriteSector, Inv, TypeOK, LoopInv
<1>2. written' = written + WriteSize
  BY DEF WriteSector
<1>3. WriteSize = ClusterSize - WriteOffset
  BY <1>1, <1>2 DEF WriteSize, Smaller, Offs
<1>4. CASE written = 0
  <2>1. fds[fd].position \in Nat /\ start \in Nat
    BY <1>1 DEF Inv, CallInv, TypeOK, Descriptor
  <2>2. WriteOffset = fds[fd].position - start
    BY <1>4 DEF WriteOffset
  <2> HIDE DEF WriteOffset, WriteSize
  <2> QED
    BY <1>1, <1>2, <1>3, <1>4, <2>1, <2>2, SMTT(30)
<1>5. CASE written # 0
  <2>1. WriteOffset = 0
    BY <1>5 DEF WriteOffset
  <2> HIDE DEF WriteOffset, WriteSize
  <2> QED
    BY <1>1, <1>2, <1>3, <1>5, <2>1
<1> QED
  BY <1>4, <1>5

LEMMA PartOfCluster ==
  ASSUME Inv, WriteSector, written' # written
  PROVE  /\ written' \in Nat /\ written' > 0
         /\ written = 0 => fds[fd].position + written' <= start + ClusterSize
         /\ written # 0 => written' <= written + ClusterSize
<1>1. /\ pc = "wsector" /\ buf \in Seq(Bytes) /\ Len(buf) \in Nat
      /\ written \in Nat /\ written < Len(buf) /\ WriteOffset \in Offs
      /\ ClusterSize \in Nat
  BY ClusterSizeType DEF WriteSector, Inv, TypeOK, LoopInv
<1>2. written' = written + WriteSize
  BY DEF WriteSector
<1>3. WriteSize \in Nat /\ WriteSize > 0 /\ WriteSize <= ClusterSize - WriteOffset
  BY <1>1 DEF WriteSize, Smaller, Offs
<1>4. CASE written = 0
  <2>1. fds[fd].position \in Nat /\ start \in Nat
    BY <1>1 DEF Inv, CallInv, TypeOK, Descriptor
  <2>2. WriteOffset = fds[fd].position - start
    BY <1>4 DEF WriteOffset
  <2> HIDE DEF WriteOffset, WriteSize
  <2> QED
    BY <1>1, <1>2, <1>3, <1>4, <2>1, <2>2
<1>5. CASE written # 0
  <2>1. WriteOffset = 0
    BY <1>5 DEF WriteOffset
  <2> HIDE DEF WriteOffset, WriteSize
  <2> QED
    BY <1>1, <1>2, <1>3, <1>5, <2>1
<1> QED
  BY <1>4, <1>5

LEMMA NextPlace == 
  ASSUME NEW n \in Nat
  PROVE  ClusterSize * (n + 1) = ClusterSize * n + ClusterSize /\ ClusterSize * n \in Nat
<1>1. \A c \in Nat : c * (n + 1) = c * n + c /\ c * n \in Nat
  OBVIOUS
<1> QED
  BY <1>1, ClusterSizeType

LEMMA SectorWalk ==
  ASSUME RoomInv, WriteSector
  PROVE  WalkInv'
<1>1. pc \in Writing /\ pc = "wsector"
  BY DEF WriteSector, Writing
<1>2. PICK n \in 0 .. LastEntry : Walked(n)
  BY <1>1, WritingChain
<1>3. /\ Inv /\ written \in Nat /\ start \in Nat /\ fds[fd].position \in Nat
  BY <1>1, WritingChain
<1>4. UNCHANGED <<fat, fds, fd, cur, start, buf>>
  BY DEF WriteSector
<1>5. n \in Nat
  BY GeometryAssumption
<1>6. /\ ChainOf(fat, fds[fd].cluster)[n] = cur
      /\ written = 0 => start = ClusterSize * n
      /\ written > 0 => fds[fd].position + written = ClusterSize * n
  BY <1>1, <1>2 DEF Walked
<1> DEFINE pos == fds[fd].position
           here == ClusterSize * n
           there == ClusterSize * (n + 1)
<1>7. there = here + ClusterSize /\ here \in Nat /\ ClusterSize \in Nat
  BY <1>5, NextPlace, ClusterSizeType
<1>8. CASE pc' = pc /\ written' = written
  BY <1>1, <1>4, <1>6, <1>8 DEF WalkInv, Walked
<1>9. CASE written' # written /\ pc' = IF written' < Len(buf) THEN "wmore" ELSE "wdone"
  <2>1. written' \in Nat /\ written' > 0 /\ pos + written' <= there
    <3>1. CASE written = 0
      BY <1>3, <1>6, <1>7, <1>9, <3>1, PartOfCluster
    <3>2. CASE written # 0
      BY <1>3, <1>6, <1>7, <1>9, <3>2, PartOfCluster
    <3> QED
      BY <3>1, <3>2
  <2>2. written' < Len(buf) => pos + written' = there
    <3>1. CASE written = 0
      BY <1>3, <1>6, <1>7, <1>9, <3>1, WholeCluster
    <3>2. CASE written # 0
      BY <1>3, <1>6, <1>7, <1>9, <3>2, WholeCluster
    <3> QED
      BY <3>1, <3>2
  <2>3. pos' = pos
    BY <1>4
  <2> QED
    BY <1>4, <1>6, <1>9, <2>1, <2>2, <2>3 DEF WalkInv, Walked
<1>10. \/ pc' = pc /\ written' = written
       \/ /\ written' = written + WriteSize
          /\ pc' = IF written' < Len(buf) THEN "wmore" ELSE "wdone"
  BY DEF WriteSector
<1>11. WriteSize \in Nat /\ WriteSize > 0
  <2>1. WriteOffset \in Offs /\ buf \in Seq(Bytes) /\ written < Len(buf)
    BY <1>1, <1>3 DEF Inv, TypeOK, LoopInv
  <2> QED
    BY <1>3, <1>7, <2>1 DEF WriteSize, Smaller, Offs
<1>12. written + WriteSize # written
  BY <1>3, <1>11
<1> QED
  BY <1>8, <1>9, <1>10, <1>12

LEMMA WriteBeginWalk ==
  ASSUME Inv, NEW d, NEW p, WriteBegin(d, p)
  PROVE  WalkInv'
<1>1. /\ fds' = fds /\ fd' = d /\ cur' = fds[d].cluster /\ fat' = fat
      /\ pc = "idle" /\ pc' = "wseek" /\ start' = start /\ written' = written
      /\ d \in FdTable /\ fds[d] # Closed
  BY DEF WriteBegin, IsOpen, disk
<1>2. start = 0 /\ written = 0
  BY <1>1 DEF Inv, LoopInv
<1>3. fds[d].cluster \in Table
  BY <1>1 DEF Inv, TypeOK, Descriptor
<1>4. ChainOf(fat, fds[d].cluster)[0] = fds[d].cluster
  <2>1. fat \in FatType
    BY DEF Inv, TypeOK, FatType
  <2> QED
    BY <1>3, <2>1, ChainSteps
<1>5. ClusterSize * 0 = 0 /\ 0 \in 0 .. LastEntry
  BY ClusterSizeType, GeometryAssumption
<1> QED
  BY <1>1, <1>2, <1>4, <1>5 DEF WalkInv, Walked

(* The steps of the loops that go to the next cluster of the chain.        *)
LEMMA OnwardWalk ==
  ASSUME RoomInv, WriteSeek \/ NextCluster \/ TerminateChain
  PROVE  WalkInv'
<1> DEFINE h == fds[fd].cluster
           pos == fds[fd].position
<1>1. pc \in Writing
  BY DEF WriteSeek, NextCluster, TerminateChain, Writing
<1>2. PICK n \in 0 .. LastEntry : Walked(n)
  BY <1>1, WritingChain
<1>3. /\ ChainInv /\ Inv /\ TypeOK /\ fat \in FatType /\ Apart(fat, Heads)
      /\ h \in Heads /\ h \in Table /\ cur \in Table
      /\ pos \in Nat /\ written \in Nat /\ start \in Nat
  BY <1>1, WritingChain DEF TypeOK
<1>4. fat' \in FatType /\ Extends(fat, fat')
  <2>1. CASE TerminateChain
    BY <1>3, <2>1, LinkExtends
  <2>2. CASE WriteSeek \/ NextCluster
    <3>1. fat' = fat
      BY <2>2 DEF WriteSeek, NextCluster, disk
    <3> QED
      BY <1>3, <3>1, SameExtends
  <2> QED
    BY <2>1, <2>2
<1>5. Follow(fat', cur) = cur' /\ cur' # None
  <2>1. CASE TerminateChain
    <3>1. fat'[cur] = new /\ new \in Entries /\ cur' = new
      BY <1>3, <2>1, LinkExtends DEF TerminateChain
    <3> QED
      BY <3>1, TableFacts DEF Follow, None
  <2>2. CASE WriteSeek \/ NextCluster
    <3>1. fat' = fat /\ cur' = next_cluster(cur) /\ next_cluster(cur) # None
      BY <2>2 DEF WriteSeek, NextCluster, disk
    <3> QED
      BY <3>1 DEF Follow, next_cluster
  <2> QED
    BY <2>1, <2>2
<1>6. ChainOf(fat, h)[n] = cur /\ cur # None
  BY <1>2, <1>3, TableFacts DEF Walked, None
<1>7. n + 1 \in 0 .. LastEntry /\ ChainOf(fat', h)[n + 1] = cur'
  <2>1. /\ n + 1 \in 0 .. LastEntry
        /\ ChainOf(fat', h)[n + 1] = Follow(fat', ChainOf(fat, h)[n])
    BY <1>3, <1>4, <1>6, WalkOn
  <2> QED
    BY <1>5, <1>6, <2>1
<1>8. fds' = fds /\ fd' = fd /\ written' = written
  BY DEF WriteSeek, NextCluster, TerminateChain
<1>9. n \in Nat
  BY GeometryAssumption
<1>10. /\ ClusterSize * (n + 1) = ClusterSize * n + ClusterSize
       /\ ClusterSize * n \in Nat /\ ClusterSize \in Nat
  BY <1>9, NextPlace, ClusterSizeType
<1>11. written = 0 => start' = start + ClusterSize /\ start = ClusterSize * n
  <2>1. written = 0 => start = ClusterSize * n
    BY <1>2 DEF Walked
  <2>2. NextCluster => written # 0
    BY <1>3 DEF NextCluster, Inv, LoopInv
  <2>3. written = 0 => start' = start + ClusterSize
    BY <2>2 DEF WriteSeek, TerminateChain
  <2> QED
    BY <2>1, <2>3
<1>12. written > 0 => /\ pc' = "wsector" /\ pos + written = ClusterSize * (n + 1)
  <2>1. WriteSeek => written = 0
    BY <1>3 DEF WriteSeek, Inv, LoopInv
  <2>2. written > 0 => pc \in {"wmore", "wterminate"}
    BY <1>3, <2>1 DEF NextCluster, TerminateChain
  <2>3. written > 0 => pc' = "wsector"
    BY <1>3, <2>1 DEF NextCluster, TerminateChain
  <2> QED
    BY <1>2, <2>2, <2>3 DEF Walked
<1>13. pc' \in {"wseek", "wsector"}
  BY DEF WriteSeek, NextCluster, TerminateChain
<1> DEFINE m == n + 1
<1>14. /\ m \in 0 .. LastEntry /\ ChainOf(fat', h)[m] = cur'
       /\ written = 0 => start' = ClusterSize * m
       /\ written > 0 => pc' = "wsector" /\ pos + written = ClusterSize * m
  BY <1>3, <1>7, <1>10, <1>11, <1>12
<1> HIDE DEF m
<1>15. Walked(m)'
  BY <1>8, <1>13, <1>14 DEF Walked
<1> QED
  BY <1>14, <1>15 DEF WalkInv

(* The steps that stay at the cluster the write has come to.               *)
LEMMA StayWalk ==
  ASSUME RoomInv, WriteSeekDone \/ AllocCluster \/ LinkCluster \/ DiskFull
  PROVE  WalkInv'
<1> DEFINE h == fds[fd].cluster
<1>1. pc \in Writing
  BY DEF WriteSeekDone, AllocCluster, AtChainEnd, LinkCluster, DiskFull, Writing
<1>2. PICK n \in 0 .. LastEntry : Walked(n)
  BY <1>1, WritingChain
<1>3. /\ ChainInv /\ Inv /\ TypeOK /\ fat \in FatType
      /\ h \in Table /\ cur \in Table /\ written \in Nat
  BY <1>1, WritingChain DEF TypeOK
<1>4. fat' \in FatType /\ Extends(fat, fat')
  <2>1. CASE LinkCluster
    BY <1>3, <2>1, LinkExtends
  <2>2. CASE WriteSeekDone \/ AllocCluster \/ DiskFull
    <3>1. fat' = fat
      BY <2>2 DEF WriteSeekDone, AllocCluster, DiskFull, disk
    <3> QED
      BY <1>3, <3>1, SameExtends
  <2> QED
    BY <2>1, <2>2
<1>5. ChainOf(fat, h)[n] = cur /\ cur # None
  BY <1>2, <1>3, TableFacts DEF Walked, None
<1>6. ChainOf(fat', h)[n] = cur
  <2>1. n \in Places(fat, h)
    BY <1>5 DEF Places
  <2> QED
    BY <1>3, <1>4, <1>5, <2>1, ChainGrows
<1>7. UNCHANGED <<fds, fd, cur, start, written>>
  BY DEF WriteSeekDone, AllocCluster, LinkCluster, DiskFull, locals
<1>8. written = 0 => start = ClusterSize * n
  BY <1>2 DEF Walked
<1>9. CASE WriteSeekDone
  <2>1. written = 0 /\ pc' = "wsector"
    BY <1>3, <1>9 DEF WriteSeekDone, Inv, LoopInv
  <2> QED
    BY <1>6, <1>7, <1>8, <2>1 DEF WalkInv, Walked
<1>10. CASE AllocCluster \/ LinkCluster
  <2>1. pc' \in {"wlink", "wterminate"} /\ pc \in {"wseek", "wmore", "wlink"}
    BY <1>10 DEF AllocCluster, AtChainEnd, LinkCluster
  <2>2. pc = "wseek" => written = 0
    BY <1>3 DEF Inv, LoopInv
  <2>3. written > 0 => fds[fd].position + written = ClusterSize * (n + 1)
    BY <1>2, <2>1, <2>2 DEF Walked
  <2> QED
    BY <1>6, <1>7, <1>8, <2>1, <2>3 DEF WalkInv, Walked
<1>11. CASE DiskFull
  <2>1. pc = "wmore" /\ pc' = "wdone" /\ written > 0
    BY <1>3, <1>11 DEF DiskFull, Inv, LoopInv
  <2>2. fds[fd].position + written = ClusterSize * (n + 1)
    BY <1>2, <2>1 DEF Walked
  <2>3. fds[fd].position + written <= ClusterSize * (n + 1)
    <3>1. fds[fd].position + written \in Nat
      BY <1>1, WritingChain
    <3> QED
      BY <2>2, <3>1
  <2> QED
    BY <1>6, <1>7, <1>8, <2>1, <2>3 DEF WalkInv, Walked
<1> QED
  BY <1>9, <1>10, <1>11

LEMMA NextQuiet ==
  ASSUME RoomInv, [Next]_vars, MaxCrashes = 0 \/ ~ WriteAfterCrash
  PROVE  QuietInv'
<1>1. Inv /\ QuietInv /\ crashes \in Nat /\ Inv'
  BY NextInv DEF RoomInv, Inv, TypeOK
<1>2. CASE UNCHANGED vars
  BY <1>1, <1>2 DEF vars, disk, locals, QuietInv, ChainInv, ChainsApart, Linked,
                    AppendInv, Heads
<1>3. CASE Crash
  <2>1. crashes' = crashes + 1 /\ MaxCrashes # 0 /\ pc' = "idle"
    BY <1>1, <1>3 DEF Crash
  <2> QED
    BY <1>1, <2>1 DEF QuietInv, Writing
<1>4. CASE Calls
  <2>1. crashes' = crashes
    BY <1>4 DEF Calls, Open, OpenFails, Close, Fstat, Lseek, ReadNow, ReadBegin,
         WriteNow, WriteBegin, Answer
  <2>2. crashes = 0 => ChainInv'
    BY <1>1, <1>4, CallsChain DEF QuietInv
  <2>3. crashes > 0 => pc' \notin Writing
    BY <1>1, <1>4 DEF QuietInv, Writing, Calls, Open, OpenFails, Close, Fstat,
         Lseek, ReadNow, ReadBegin, WriteNow, WriteBegin, Answer
  <2> QED
    BY <1>1, <2>1, <2>2, <2>3 DEF QuietInv
<1>5. CASE Step
  <2>1. crashes' = crashes
    BY <1>5 DEF Step, ReadSeek, ReadCluster, ReadDone, WriteSeek,
         WriteSeekDone, AllocCluster, LinkCluster, TerminateChain, GapDiskFull,
         WriteSector, NextCluster, DiskFull, WriteDone
  <2>2. crashes = 0 => ChainInv'
    BY <1>1, <1>5, StepsChain DEF QuietInv
  <2>3. crashes > 0 => pc' \notin Writing
    BY <1>1, <1>5 DEF QuietInv, Writing, Step, ReadSeek, ReadCluster, ReadDone,
         WriteSeek, WriteSeekDone, AllocCluster, AtChainEnd, LinkCluster,
         TerminateChain, GapDiskFull, WriteSector, NextCluster, DiskFull, WriteDone
  <2> QED
    BY <1>1, <2>1, <2>2, <2>3 DEF QuietInv
<1> QED
  BY <1>2, <1>3, <1>4, <1>5 DEF Next

LEMMA NextWalk ==
  ASSUME RoomInv, [Next]_vars
  PROVE  WalkInv'
<1>1. Inv
  BY DEF RoomInv
<1>2. CASE UNCHANGED vars
  BY <1>2 DEF vars, disk, locals, RoomInv, WalkInv, Walked
<1>3. CASE WriteSeekDone \/ AllocCluster \/ LinkCluster \/ DiskFull
  BY <1>3, StayWalk
<1>4. CASE WriteSeek \/ NextCluster \/ TerminateChain
  BY <1>4, OnwardWalk
<1>5. CASE WriteSector
  BY <1>5, SectorWalk
<1>6. CASE ReadSeek \/ ReadCluster \/ ReadDone \/ GapDiskFull \/ WriteDone \/ Crash
  <2>1. pc' \notin Writing
    BY <1>6 DEF ReadSeek, ReadCluster, ReadDone, GapDiskFull, WriteDone, Crash, Writing
  <2> QED
    BY <2>1 DEF WalkInv
<1>7. ASSUME NEW d, NEW p, WriteBegin(d, p) PROVE WalkInv'
  BY <1>1, <1>7, WriteBeginWalk
<1>8. CASE /\ Calls
           /\ ~ \E d \in FdArgs, p \in Payloads : WriteBegin(d, p)
  <2>1. pc' \notin Writing
    BY <1>8 DEF Calls, Open, OpenFails, Close, Fstat, Lseek, ReadNow, ReadBegin,
         WriteNow, Answer, Writing
  <2> QED
    BY <2>1 DEF WalkInv
<1> QED
  BY <1>2, <1>3, <1>4, <1>5, <1>6, <1>7, <1>8 DEF Next, Step

LEMMA InitRoom == Init => RoomInv
  BY InitInv, InitChain DEF Init, RoomInv, QuietInv, WalkInv, Writing

LEMMA NextRoom ==
  ASSUME MaxCrashes = 0 \/ ~ WriteAfterCrash
  PROVE  RoomInv /\ [Next]_vars => RoomInv'
  BY NextInv, NextQuiet, NextWalk DEF RoomInv

(* SizeBacked in terms of the table and the directory.                     *)
Backed(t, sizes) == \A f \in Names : sizes[f].size <= Room(t, sizes[f].cluster)

LEMMA BackedIs == SizeBacked <=> Backed(fat, dir)
  BY DEF SizeBacked, Backed, Capacity, ClusterAt, next_cluster, Room, Places,
         ChainOf, Along, Follow

(* The table of the next state is this one, or a longer one.               *)
LEMMA TableGrows ==
  ASSUME RoomInv, [Next]_vars
  PROVE  fat \in FatType /\ fat' \in FatType /\ Extends(fat, fat')
<1>1. fat \in FatType /\ Inv
  BY DEF RoomInv, Inv, TypeOK, FatType
<1>2. CASE fat' = fat
  BY <1>1, <1>2, SameExtends
<1>3. CASE LinkCluster \/ TerminateChain
  <2>1. pc \in Writing
    BY <1>3 DEF LinkCluster, TerminateChain, Writing
  <2>2. ChainInv
    BY <2>1, WritingChain
  <2> QED
    BY <1>3, <2>2, LinkExtends
<1>4. UNCHANGED vars => fat' = fat
  BY DEF vars, disk
<1> QED
  BY <1>1, <1>2, <1>3, <1>4, FatKept

(* The directory entry that WriteDone changes gets a size that the walk    *)
(* has come to.                                                            *)
LEMMA EndHasRoom ==
  ASSUME RoomInv, WriteDone
  PROVE  fds[fd].position + written <= Room(fat, fds[fd].cluster)
<1>1. pc \in Writing /\ pc = "wdone"
  BY DEF WriteDone, Writing
<1>2. PICK n \in 0 .. LastEntry : Walked(n)
  BY <1>1, WritingChain
<1>3. /\ fat \in FatType /\ fds[fd].cluster \in Table /\ cur \in Table
      /\ fds[fd].position + written \in Nat
  BY <1>1, WritingChain DEF TypeOK
<1>4. /\ ChainOf(fat, fds[fd].cluster)[n] # None
      /\ fds[fd].position + written <= ClusterSize * (n + 1)
  BY <1>1, <1>2, <1>3, TableFacts DEF Walked, None
<1>5. ClusterSize * (n + 1) <= Room(fat, fds[fd].cluster)
  BY <1>3, <1>4, RoomUpTo
<1>6. ClusterSize * (n + 1) \in Nat /\ Room(fat, fds[fd].cluster) \in Nat
  <2>1. n \in Nat
    BY GeometryAssumption
  <2>2. ClusterSize * (n + 1) \in Nat
    <3>1. \A a \in Nat : a * (n + 1) \in Nat
      BY <2>1
    <3> QED
      BY <3>1, ClusterSizeType
  <2>3. Room(fat, fds[fd].cluster) \in Nat
    BY <1>3, RoomGrows, SameExtends
  <2> QED
    BY <2>2, <2>3
<1> QED
  BY <1>3, <1>4, <1>5, <1>6

LEMMA NextBacked ==
  ASSUME RoomInv, [Next]_vars, Backed(fat, dir)
  PROVE  Backed(fat', dir')
<1>1. fat \in FatType /\ fat' \in FatType /\ Extends(fat, fat')
  BY TableGrows
<1>2. dir \in [Names -> [cluster : Table, size : Nat]]
  BY DEF RoomInv, Inv, TypeOK
<1>3. CASE dir' = dir
  <2>1. ASSUME NEW f \in Names PROVE dir[f].size <= Room(fat', dir[f].cluster)
    <3>1. dir[f].size <= Room(fat, dir[f].cluster) /\ dir[f].size \in Nat
          /\ dir[f].cluster \in Table
      BY <1>2 DEF Backed
    <3>2. Room(fat, dir[f].cluster) <= Room(fat', dir[f].cluster)
          /\ Room(fat, dir[f].cluster) \in Nat /\ Room(fat', dir[f].cluster) \in Nat
      BY <1>1, <3>1, RoomGrows
    <3> QED
      BY <3>1, <3>2
  <2> QED
    BY <1>3, <2>1 DEF Backed
<1>4. CASE WriteDone
  <2> DEFINE end == fds[fd].position + written
  <2>1. fat' = fat /\ (dir' = dir \/ dir' = WithSize(fds[fd].cluster, end))
    BY <1>4 DEF WriteDone
  <2>2. end <= Room(fat, fds[fd].cluster)
    BY <1>4, EndHasRoom
  <2> HIDE DEF end
  <2>3. ASSUME NEW f \in Names
        PROVE  WithSize(fds[fd].cluster, end)[f].size
                 <= Room(fat, WithSize(fds[fd].cluster, end)[f].cluster)
    <3> DEFINE w == WithSize(fds[fd].cluster, end)
    <3>1. CASE w[f] = dir[f]
      BY <3>1 DEF Backed
    <3>2. CASE dir[f].cluster = fds[fd].cluster /\ w[f] = [dir[f] EXCEPT !.size = end]
      <4>1. w[f].size = end /\ w[f].cluster = fds[fd].cluster
        BY <1>2, <3>2
      <4> QED
        BY <2>2, <4>1
    <3> QED
      BY <3>1, <3>2 DEF WithSize
  <2>4. CASE dir' = dir
    BY <2>1, <2>4 DEF Backed
  <2>5. CASE dir' = WithSize(fds[fd].cluster, end)
    BY <2>1, <2>3, <2>5 DEF Backed
  <2> QED
    BY <2>1, <2>4, <2>5
<1>5. ~ WriteDone => dir' = dir
  BY DEF Next, Calls, Step, Open, OpenFails, Close, Fstat, Lseek, ReadNow, ReadBegin,
         WriteNow, WriteBegin, Answer, ReadSeek, ReadCluster, ReadDone, WriteSeek,
         WriteSeekDone, AllocCluster, LinkCluster, TerminateChain, GapDiskFull,
         WriteSector, NextCluster, DiskFull, Crash, disk, vars
<1> QED
  BY <1>3, <1>4, <1>5

(* No directory entry ever claims more bytes than its chain of clusters    *)
(* has room for, if none did when the disk was formatted: sys_write_file   *)
(* updates the entry last, so the power may fail at any sector before.     *)
THEOREM SizesAreBacked ==
  ASSUME MaxCrashes = 0 \/ ~ WriteAfterCrash
  PROVE  Spec /\ SizeBacked => []SizeBacked
<1> DEFINE I == RoomInv /\ Backed(fat, dir)
<1>1. Init /\ SizeBacked => I
  BY InitRoom, BackedIs
<1>2. I /\ [Next]_vars => I'
  BY NextRoom, NextBacked DEF Backed
<1>3. I => SizeBacked
  BY BackedIs
<1> QED
  BY <1>1, <1>2, <1>3, PTL DEF Spec

AllOwned(t, heads) == \A c \in Entries : t[c] # Free => Owned(t, heads, c)

LEMMA OwnedIs == \A h \in Heads, c \in Entries :
                   c \in Chain(h) <=> \E k \in 0 .. LastEntry : ChainOf(fat, h)[k] = c
  BY TableFacts DEF Chain, ClusterAt, next_cluster, ChainOf, Along, Follow, None

LEMMA NothingLostIs == NoClusterLost <=> (pc = "idle" => AllOwned(fat, Heads))
  BY OwnedIs DEF NoClusterLost, AllOwned, Owned

LEMMA HeadsKept ==
  ASSUME Inv, [Next]_vars
  PROVE  Heads' = Heads
<1>1. CASE dir' = dir
  BY <1>1 DEF Heads
<1>2. CASE WriteDone
  <2>1. dir \in [Names -> [cluster : Table, size : Nat]]
    BY DEF Inv, TypeOK
  <2>2. \A f \in Names : dir'[f].cluster = dir[f].cluster
    BY <1>2, <2>1 DEF WriteDone, WithSize
  <2> QED
    BY <2>2 DEF Heads
<1>3. ~ WriteDone => dir' = dir
  BY DEF Next, Calls, Step, Open, OpenFails, Close, Fstat, Lseek, ReadNow, ReadBegin,
         WriteNow, WriteBegin, Answer, ReadSeek, ReadCluster, ReadDone, WriteSeek,
         WriteSeekDone, AllocCluster, LinkCluster, TerminateChain, GapDiskFull,
         WriteSector, NextCluster, DiskFull, Crash, disk, vars
<1> QED
  BY <1>1, <1>2, <1>3

(* A chain that grows keeps the clusters it has.                           *)
LEMMA StillOwned ==
  ASSUME NEW t \in FatType, NEW u \in FatType, Extends(t, u),
         NEW heads \in SUBSET Table, NEW c \in Table, Owned(t, heads, c)
  PROVE  Owned(u, heads, c)
<1>1. PICK h \in heads : \E k \in 0 .. LastEntry : ChainOf(t, h)[k] = c
  BY DEF Owned
<1>2. PICK k \in 0 .. LastEntry : ChainOf(t, h)[k] = c
  BY <1>1
<1>3. k \in Places(t, h)
  BY <1>2, TableFacts DEF Places, None
<1>4. ChainOf(u, h)[k] = c
  BY <1>2, <1>3, ChainGrows
<1> QED
  BY <1>1, <1>4 DEF Owned

LEMMA NextOwned ==
  ASSUME RoomInv, [Next]_vars, AllOwned(fat, Heads)
  PROVE  AllOwned(fat', Heads')
<1>1. fat \in FatType /\ fat' \in FatType /\ Extends(fat, fat')
  BY TableGrows
<1>2. Heads' = Heads /\ Heads \in SUBSET Table /\ Inv
  BY HeadsKept, HeadsType DEF RoomInv, Inv
<1>3. ASSUME NEW c \in Entries, fat[c] # Free PROVE Owned(fat', Heads, c)
  BY <1>1, <1>2, <1>3, StillOwned, TableFacts DEF AllOwned
<1>4. CASE fat' = fat
  BY <1>2, <1>3, <1>4 DEF AllOwned
<1>5. CASE LinkCluster
  <2>1. ChainInv
    BY <1>5, WritingChain DEF LinkCluster, Writing
  <2>2. ~ TerminateChain
    BY <1>5 DEF LinkCluster, TerminateChain
  <2>3. \A c \in Table : fat'[c] # Free => fat[c] # Free
    BY <1>5, <2>1, <2>2, LinkExtends
  <2> QED
    BY <1>2, <1>3, <2>3, TableFacts DEF AllOwned
<1>6. CASE TerminateChain
  <2>1. /\ pc \in Writing /\ ChainInv /\ Apart(fat, Heads) /\ cur \in Table
        /\ fds[fd].cluster \in Heads /\ fds[fd].cluster \in Table
        /\ \E n \in 0 .. LastEntry : Walked(n)
    BY <1>6, WritingChain DEF TerminateChain, Writing, TypeOK
  <2>2. PICK n \in 0 .. LastEntry : Walked(n)
    BY <2>1
  <2>3. /\ \A c \in Table : fat'[c] # Free => fat[c] # Free \/ c = new
        /\ new \in Entries /\ fat'[cur] = new
    BY <1>6, <2>1, LinkExtends
  <2>4. ChainOf(fat, fds[fd].cluster)[n] = cur /\ cur # None
    BY <2>1, <2>2, TableFacts DEF Walked, None
  <2>5. /\ n + 1 \in 0 .. LastEntry
        /\ ChainOf(fat', fds[fd].cluster)[n + 1] = Follow(fat', cur)
    BY <1>1, <2>1, <2>4, WalkOn
  <2>6. Follow(fat', cur) = new
    BY <2>3, TableFacts DEF Follow
  <2>7. Owned(fat', Heads, new)
    BY <2>1, <2>5, <2>6 DEF Owned
  <2> QED
    BY <1>2, <1>3, <2>3, <2>7, TableFacts DEF AllOwned
<1>7. UNCHANGED vars => fat' = fat
  BY DEF vars, disk
<1> QED
  BY <1>2, <1>4, <1>5, <1>6, <1>7, FatKept

(* Between calls every cluster in use is in the chain of the directory or  *)
(* of a file, if it was when the disk was formatted: neither a write that  *)
(* the full disk cuts short nor a power failure between the sectors that   *)
(* set_fat_entry writes leaks one.                                         *)
THEOREM NoClusterIsLost ==
  ASSUME MaxCrashes = 0 \/ ~ WriteAfterCrash
  PROVE  Spec /\ NoClusterLost => []NoClusterLost
<1> DEFINE I == RoomInv /\ AllOwned(fat, Heads)
<1>1. Init /\ NoClusterLost => I
  BY InitRoom, NothingLostIs DEF Init
<1>2. I /\ [Next]_vars => I'
  BY NextRoom, NextOwned DEF AllOwned, Owned
<1>3. I => NoClusterLost
  BY NothingLostIs
<1> QED
  BY <1>1, <1>2, <1>3, PTL DEF Spec

-----------------------------------------------------------------------------
(* A write ends where its buffer does, or with every cluster in use.       *)
EndInv == pc = "wdone" => written = Len(buf) \/ NoneFree

LEMMA NextEnd == EndInv /\ Inv /\ [Next]_vars => EndInv'
<1> SUFFICES ASSUME EndInv, Inv, [Next]_vars PROVE EndInv'
  OBVIOUS
<1>1. CASE UNCHANGED vars
  BY <1>1 DEF vars, disk, locals, EndInv, NoneFree
<1>2. CASE WriteSector
  <2>1. Inv'
    BY NextInv
  <2>2. pc' = "wdone" => pc' \in Writing /\ ~ (written' < Len(buf'))
    BY <1>2 DEF WriteSector, Writing
  <2>3. pc' = "wdone" => written' = Len(buf')
    BY <2>1, <2>2 DEF Inv, TypeOK, LoopInv
  <2> QED
    BY <2>3 DEF EndInv
<1>3. CASE DiskFull
  BY <1>3, SMTT(30) DEF DiskFull, disk, EndInv, NoneFree
<1>4. ~ WriteSector /\ ~ DiskFull /\ Next => pc' # "wdone"
  BY DEF Next, Calls, Step, Open, OpenFails, Close, Fstat, Lseek, ReadNow, ReadBegin,
         WriteNow, WriteBegin, Answer, ReadSeek, ReadCluster, ReadDone, WriteSeek,
         WriteSeekDone, AllocCluster, LinkCluster, TerminateChain, GapDiskFull,
         NextCluster, WriteDone, Crash
<1> QED
  BY <1>1, <1>2, <1>3, <1>4 DEF EndInv

(* sys_write_file returns less than it was given only when alloc_cluster   *)
(* has found no free entry in the whole table.                             *)
THEOREM ShortWritesMeanFull == Spec => ShortOnlyWhenFull
<1>1. Init => EndInv
  BY DEF Init, EndInv
<1>2. EndInv /\ Inv /\ [Next]_vars =>
        [pc = "wdone" /\ pc' = "idle" /\ crashes' = crashes
           => reply'.ret = Len(buf) \/ NoneFree]_vars
  <2> SUFFICES ASSUME EndInv, Inv, Next, pc = "wdone", pc' = "idle",
                      crashes' = crashes
               PROVE  reply'.ret = Len(buf) \/ NoneFree
    OBVIOUS
  <2>1. ~ Crash
    BY DEF Crash, Inv, TypeOK
  <2>2. WriteDone
    BY <2>1 DEF Next, Calls, Step, Open, OpenFails, Close, Fstat, Lseek, ReadNow,
         ReadBegin, WriteNow, WriteBegin, Answer, ReadSeek, ReadCluster, ReadDone,
         WriteSeek, WriteSeekDone, AllocCluster, AtChainEnd, LinkCluster, TerminateChain,
         GapDiskFull, WriteSector, NextCluster, DiskFull
  <2>3. reply'.ret = written
    BY <2>2 DEF WriteDone, Returned
  <2> QED
    BY <2>3 DEF EndInv
<1> QED
  BY <1>1, <1>2, InitInv, NextInv, NextEnd, PTL DEF Spec, ShortOnlyWhenFull

-----------------------------------------------------------------------------
(* The bytes of a file, which lie along its chain.                         *)
LEMMA Multiples ==
  ASSUME NEW c \in Nat \ {0}
  PROVE  /\ \A n \in Nat : c * n \in Nat /\ c * (n + 1) = c * n + c
         /\ \A m, n \in Nat : m < n => c * m + c <= c * n
         /\ \A i \in Nat : /\ i \div c \in Nat /\ i % c \in 0 .. (c - 1)
                           /\ i = c * (i \div c) + (i % c)
<1>1. \A n \in Nat : c * n \in Nat /\ c * (n + 1) = c * n + c
  OBVIOUS
<1>2. ASSUME NEW m \in Nat, NEW n \in Nat, m < n PROVE c * m + c <= c * n
  <2>1. m + 1 \in Nat /\ m + 1 <= n
    BY <1>2
  <2>2. c * (m + 1) <= c * n
    BY <2>1, ProductGrows
  <2> QED
    BY <1>1, <2>2
<1>3. ASSUME NEW i \in Nat
      PROVE  /\ i \div c \in Nat /\ i % c \in 0 .. (c - 1)
             /\ i = c * (i \div c) + (i % c)
  <2> c > 0
    OBVIOUS
  <2>1. i % c \in 0 .. (c - 1)
    OBVIOUS
  <2>3. i = c * (i \div c) + (i % c)
    OBVIOUS
  <2>2. i \div c \in Nat
    <3> DEFINE q == i \div c
               r == i % c
    <3>1. q \in Int
      OBVIOUS
    <3>2. i = c * q + r /\ r < c
      BY <2>1, <2>3
    <3>3. q < 0 => c * q <= c * (-1)
      BY <3>1
    <3>4. c * q \in Int /\ r \in Int
      BY <2>1, <3>1
    <3> HIDE DEF q, r
    <3>5. q >= 0
      BY <3>1, <3>2, <3>3, <3>4
    <3> QED
      BY <3>1, <3>5 DEF q
  <2> QED
    BY <2>1, <2>2, <2>3
<1> QED
  BY <1>1, <1>2, <1>3

(* Offset o of the cluster at place n is byte ClusterSize * n + o.         *)
LEMMA PlaceIs ==
  ASSUME NEW i \in Nat, NEW n \in Nat,
         ClusterSize * n <= i, i < ClusterSize * n + ClusterSize
  PROVE  i \div ClusterSize = n /\ i % ClusterSize = i - ClusterSize * n
<1> DEFINE c == ClusterSize
           q == i \div c
           r == i % c
<1>1. c \in Nat \ {0}
  BY ClusterSizeType
<1>2. q \in Nat /\ r \in 0 .. (c - 1) /\ i = c * q + r
  BY <1>1, Multiples
<1>3. c * n \in Nat /\ c * q \in Nat
  BY <1>1, <1>2, Multiples
<1>4. /\ q < n => c * q + c <= c * n
      /\ n < q => c * n + c <= c * q
  BY <1>1, <1>2, Multiples
<1> HIDE DEF c, q, r
<1>5. c * n <= i /\ i < c * n + c
  BY DEF c
<1>6. ~ (q < n) /\ ~ (n < q)
  BY <1>1, <1>2, <1>3, <1>4, <1>5
<1>7. q = n
  BY <1>2, <1>6
<1>8. r = i - c * n
  BY <1>1, <1>2, <1>3, <1>7
<1> QED
  BY <1>7, <1>8 DEF c, q, r

LEMMA PlaceOf ==
  ASSUME NEW i \in Nat
  PROVE  /\ i \div ClusterSize \in Nat /\ i % ClusterSize \in Offs
         /\ ClusterSize * (i \div ClusterSize) \in Nat
         /\ i = ClusterSize * (i \div ClusterSize) + (i % ClusterSize)
         /\ \A n \in Nat : i < ClusterSize * (n + 1) => i \div ClusterSize <= n
         /\ \A n \in Nat : ClusterSize * n <= i => n <= i \div ClusterSize
<1> DEFINE c == ClusterSize
           q == i \div c
           r == i % c
<1>1. c \in Nat \ {0}
  BY ClusterSizeType
<1>2. q \in Nat /\ r \in 0 .. (c - 1) /\ i = c * q + r
  BY <1>1, Multiples
<1>3. c * q \in Nat
  BY <1>1, <1>2, Multiples
<1>4. ASSUME NEW n \in Nat PROVE /\ i < c * (n + 1) => q <= n
                                 /\ c * n <= i => n <= q
  <2>1. c * (n + 1) = c * n + c /\ c * n \in Nat
    BY <1>1, Multiples
  <2>2. /\ n < q => c * n + c <= c * q
        /\ q < n => c * q + c <= c * n
    BY <1>1, <1>2, Multiples
  <2> HIDE DEF c, q, r
  <2> QED
    BY <1>1, <1>2, <1>3, <2>1, <2>2
<1> QED
  <2>1. r \in Offs
    BY <1>2 DEF Offs
  <2> QED
    BY <1>2, <1>3, <1>4, <2>1, Zenon

ByteAt(t, b, c, i) == b[ChainOf(t, c)[i \div ClusterSize]][i % ClusterSize]

BytesOf(t, b, c, size) == [p \in 1 .. size |-> ByteAt(t, b, c, p - 1)]

LEMMA ContentIs == \A f : Content(f) = BytesOf(fat, data, dir[f].cluster, dir[f].size)
  BY DEF Content, BytesOf, ByteAt, ClusterAt, ChainOf, Along, next_cluster, Follow

(* Every byte that a chain has room for is in one of its clusters.         *)
LEMMA PlaceInRoom ==
  ASSUME NEW t \in FatType, NEW c \in Table, NEW i \in Nat, i < Room(t, c)
  PROVE  /\ i \div ClusterSize \in Places(t, c)
         /\ ChainOf(t, c)[i \div ClusterSize] \in Table
<1> DEFINE q == i \div ClusterSize
<1>0. LastEntry \in Nat
  BY GeometryAssumption
<1>1. q \in Nat /\ ClusterSize * q <= i /\ ClusterSize * q \in Nat
  BY PlaceOf, ClusterSizeType DEF Offs
<1> HIDE DEF q
<1>2. ASSUME q \notin Places(t, c) PROVE FALSE
  <2>1. ASSUME NEW k \in Places(t, c) PROVE k \in 0 .. (q - 1)
    <3>1. k \in 0 .. LastEntry /\ ChainOf(t, c)[k] # None
      BY DEF Places
    <3>2. CASE q <= k
      <4>1. \A j \in 0 .. k : ChainOf(t, c)[j] # None
        BY <3>1, ChainBefore
      <4>2. q \in 0 .. k /\ q \in 0 .. LastEntry
        BY <1>0, <1>1, <3>1, <3>2
      <4> QED
        BY <1>2, <4>1, <4>2 DEF Places
    <3> QED
      BY <1>0, <1>1, <3>1, <3>2
  <2>2. Cardinality(Places(t, c)) <= q
    <3>1. Places(t, c) \in SUBSET (0 .. (q - 1))
      BY <2>1
    <3>2. IsFiniteSet(0 .. (q - 1)) /\ Cardinality(0 .. (q - 1)) = q
      <4> DEFINE m == q - 1
      <4>1. 0 \in Int /\ m \in Int /\ (IF 0 > m THEN 0 ELSE m - 0 + 1) = q
        BY <1>1
      <4> HIDE DEF m
      <4>2. IsFiniteSet(0 .. m) /\ Cardinality(0 .. m) = q
        BY <4>1, FS_Interval
      <4> QED
        BY <4>2 DEF m
    <3> QED
      BY <3>1, <3>2, FS_Subset
  <2>3. Room(t, c) <= ClusterSize * q
    BY <1>1, <2>2, PlacesFinite, ProductGrows, ClusterSizeType DEF Room
  <2>4. Room(t, c) \in Nat
    BY RoomGrows, SameExtends
  <2> QED
    BY <1>1, <2>3, <2>4
<1>3. q \in 0 .. LastEntry /\ ChainOf(t, c)[q] # None
  BY <1>2 DEF Places
<1>4. ChainOf(t, c)[q] \in Table \union {None}
  BY <1>3, ChainSteps
<1> QED
  BY <1>2, <1>3, <1>4 DEF q

(* The chains of two files have no cluster in common.                      *)
LEMMA ChainsDisjoint ==
  ASSUME NEW t \in FatType, NEW heads, Apart(t, heads),
         NEW g \in heads, g \in Table, NEW h \in heads, h \in Table, g # h
  PROVE  \A i \in Places(t, g), j \in Places(t, h) : ChainOf(t, g)[i] # ChainOf(t, h)[j]
<1> DEFINE one == ChainOf(t, g)
           two == ChainOf(t, h)
           Bad == {i \in 0 .. LastEntry : \E j \in 0 .. LastEntry :
                     one[i] # None /\ one[i] = two[j]}
<1>0. LastEntry \in Nat
  BY GeometryAssumption
<1>1. /\ one[0] = g /\ two[0] = h
      /\ \A k \in 0 .. LastEntry : one[k] \in Table \union {None}
      /\ \A k \in 0 .. LastEntry : two[k] \in Table \union {None}
      /\ \A k \in 1 .. LastEntry :
                  /\ one[k - 1] = None => one[k] = None
                  /\ one[k - 1] # None => one[k] = Follow(t, one[k - 1])
                  /\ two[k - 1] = None => two[k] = None
                  /\ two[k - 1] # None => two[k] = Follow(t, two[k - 1])
  BY ChainSteps
<1> HIDE DEF one, two
<1>2. \A k \in 1 .. LastEntry : one[k] # None =>
        /\ one[k - 1] \in Table /\ one[k] = t[one[k - 1]] /\ one[k] \in Entries
        /\ one[k - 1] # None
  <2> SUFFICES ASSUME NEW k \in 1 .. LastEntry, one[k] # None
               PROVE  /\ one[k - 1] \in Table /\ one[k] = t[one[k - 1]] /\ one[k] \in Entries
                      /\ one[k - 1] # None
    OBVIOUS
  <2>1. one[k - 1] # None /\ one[k] = Follow(t, one[k - 1]) /\ k - 1 \in 0 .. LastEntry
    BY <1>0, <1>1
  <2>2. one[k - 1] \in Table
    BY <1>1, <2>1
  <2> QED
    BY <2>1, <2>2, FollowEntry
<1>3. \A k \in 1 .. LastEntry : two[k] # None =>
        /\ two[k - 1] \in Table /\ two[k] = t[two[k - 1]] /\ two[k] \in Entries
        /\ two[k - 1] # None
  <2> SUFFICES ASSUME NEW k \in 1 .. LastEntry, two[k] # None
               PROVE  /\ two[k - 1] \in Table /\ two[k] = t[two[k - 1]] /\ two[k] \in Entries
                      /\ two[k - 1] # None
    OBVIOUS
  <2>1. two[k - 1] # None /\ two[k] = Follow(t, two[k - 1]) /\ k - 1 \in 0 .. LastEntry
    BY <1>0, <1>1
  <2>2. two[k - 1] \in Table
    BY <1>1, <2>1
  <2> QED
    BY <2>1, <2>2, FollowEntry
<1>4. SUFFICES ASSUME Bad # {} PROVE FALSE
  BY DEF one, two, Places
<1>5. PICK i \in Bad : \A y \in Bad : i <= y
  <2>1. Bad \in SUBSET Nat
    BY <1>0
  <2> HIDE DEF Bad
  <2> QED
    BY <1>4, <2>1, LeastNumber
<1>6. PICK j \in 0 .. LastEntry : one[i] # None /\ one[i] = two[j]
  BY <1>5
<1>7. CASE i = 0
  <2>1. j # 0
    BY <1>1, <1>6, <1>7
  <2>2. j \in 1 .. LastEntry
    BY <1>0, <2>1
  <2> QED
    BY <1>1, <1>3, <1>6, <1>7, <2>2 DEF Apart
<1>8. CASE i # 0
  <2>1. i \in 1 .. LastEntry /\ i - 1 \in 0 .. LastEntry /\ i - 1 < i
    BY <1>0, <1>5, <1>8
  <2>2. CASE j = 0
    BY <1>1, <1>2, <1>6, <2>1, <2>2 DEF Apart
  <2>3. CASE j # 0
    <3>1. j \in 1 .. LastEntry /\ j - 1 \in 0 .. LastEntry
      BY <1>0, <2>3
    <3>2. one[i - 1] = two[j - 1] /\ one[i - 1] # None
      BY <1>2, <1>3, <1>6, <2>1, <3>1 DEF Apart
    <3>3. i - 1 \in Bad
      BY <2>1, <3>1, <3>2
    <3> QED
      BY <1>5, <2>1, <3>3
  <2> QED
    BY <2>2, <2>3
<1> QED
  BY <1>7, <1>8

DataType == [Table -> [Offs -> Bytes]]

LEMMA RoomType ==
  ASSUME NEW t \in FatType, NEW c \in Table
  PROVE  Room(t, c) \in Nat
  BY RoomGrows, SameExtends

LEMMA BytesType ==
  ASSUME NEW t \in FatType, NEW b \in DataType, NEW c \in Table,
         NEW size \in Nat, size <= Room(t, c)
  PROVE  /\ BytesOf(t, b, c, size) \in Seq(Bytes)
         /\ Len(BytesOf(t, b, c, size)) = size
         /\ \A p \in 1 .. size : BytesOf(t, b, c, size)[p] = ByteAt(t, b, c, p - 1)
<1>1. ASSUME NEW p \in 1 .. size PROVE ByteAt(t, b, c, p - 1) \in Bytes
  <2> DEFINE i == p - 1
  <2>1. i \in Nat /\ i < Room(t, c)
    BY RoomType
  <2> HIDE DEF i
  <2>2. ChainOf(t, c)[i \div ClusterSize] \in Table /\ i % ClusterSize \in Offs
    BY <2>1, PlaceInRoom, PlaceOf
  <2>3. ByteAt(t, b, c, i) \in Bytes
    BY <2>2 DEF ByteAt, DataType
  <2> QED
    BY <2>3 DEF i
<1>2. BytesOf(t, b, c, size) = [p \in 1 .. size |-> ByteAt(t, b, c, p - 1)]
  BY DEF BytesOf
<1> QED
  BY <1>1, <1>2

(* A chain that grows keeps the bytes it has.                              *)
LEMMA ByteGrows ==
  ASSUME NEW t \in FatType, NEW u \in FatType, Extends(t, u), NEW c \in Table,
         NEW b, NEW i, i \div ClusterSize \in Places(t, c)
  PROVE  ByteAt(u, b, c, i) = ByteAt(t, b, c, i)
  BY ChainGrows DEF ByteAt

LEMMA BytesGrow ==
  ASSUME NEW t \in FatType, NEW u \in FatType, Extends(t, u), NEW c \in Table,
         NEW b, NEW size \in Nat, size <= Room(t, c)
  PROVE  BytesOf(u, b, c, size) = BytesOf(t, b, c, size)
<1>1. ASSUME NEW p \in 1 .. size PROVE ByteAt(u, b, c, p - 1) = ByteAt(t, b, c, p - 1)
  <2> DEFINE i == p - 1
  <2>1. i \in Nat /\ i < Room(t, c)
    BY RoomType
  <2> HIDE DEF i
  <2>2. i \div ClusterSize \in Places(t, c)
    BY <2>1, PlaceInRoom
  <2>3. ByteAt(u, b, c, i) = ByteAt(t, b, c, i)
    BY <2>2, ByteGrows
  <2> QED
    BY <2>3 DEF i
<1> QED
  BY <1>1 DEF BytesOf

(* Data that differs in one cluster of one chain, ...                      *)
SameBut(b, d, x) == \A e \in Table : e # x => d[e] = b[e]

(* ... is the same for the other chains, ...                               *)
LEMMA OthersKeepBytes ==
  ASSUME NEW t \in FatType, NEW heads, Apart(t, heads),
         NEW g \in heads, g \in Table, NEW h \in heads, h \in Table, g # h,
         NEW n \in Places(t, h), NEW b, NEW d, SameBut(b, d, ChainOf(t, h)[n]),
         NEW size \in Nat, size <= Room(t, g)
  PROVE  BytesOf(t, d, g, size) = BytesOf(t, b, g, size)
<1>1. ASSUME NEW p \in 1 .. size PROVE ByteAt(t, d, g, p - 1) = ByteAt(t, b, g, p - 1)
  <2> DEFINE i == p - 1
  <2>1. i \in Nat /\ i < Room(t, g)
    BY RoomType
  <2> HIDE DEF i
  <2>2. i \div ClusterSize \in Places(t, g) /\ ChainOf(t, g)[i \div ClusterSize] \in Table
    BY <2>1, PlaceInRoom
  <2>3. ChainOf(t, g)[i \div ClusterSize] # ChainOf(t, h)[n]
    BY <2>2, ChainsDisjoint
  <2>4. ByteAt(t, d, g, i) = ByteAt(t, b, g, i)
    BY <2>2, <2>3 DEF ByteAt, SameBut
  <2> QED
    BY <2>4 DEF i
<1> QED
  BY <1>1 DEF BytesOf

-----------------------------------------------------------------------------
(* Descriptors and the files they are of.                                  *)
Distinct(table) == \A f, g \in Names : table[f].cluster = table[g].cluster => f = g

FileWith(table, c) == CHOOSE f \in Names : table[f].cluster = c

OpenOf(table, descriptors) ==
  [d \in 3 .. MaxFd |->
     IF descriptors[d] = Closed THEN Closed
     ELSE [file |-> FileWith(table, descriptors[d].cluster),
           position |-> descriptors[d].position]]

LEMMA OpenIs == OpenBar = OpenOf(dir, fds)
  BY DEF OpenBar, OpenOf, FileOf, FileWith

LEMMA OpenWillBe == OpenBar' = OpenOf(dir', fds')
  BY DEF OpenBar, OpenOf, FileOf, FileWith

LEMMA FileIs ==
  ASSUME NEW table, Distinct(table), NEW f \in Names
  PROVE  FileWith(table, table[f].cluster) = f
<1>1. \E g \in Names : table[g].cluster = table[f].cluster
  OBVIOUS
<1>2. /\ FileWith(table, table[f].cluster) \in Names
      /\ table[FileWith(table, table[f].cluster)].cluster = table[f].cluster
  BY <1>1 DEF FileWith
<1> QED
  BY <1>2 DEF Distinct

(* Sizes may change: what a descriptor is of does not.                     *)
LEMMA SameFiles ==
  ASSUME NEW s, NEW t, Distinct(s), \A f \in Names : t[f].cluster = s[f].cluster,
         NEW f \in Names
  PROVE  FileWith(t, s[f].cluster) = f
<1>1. Distinct(t) /\ t[f].cluster = s[f].cluster
  BY DEF Distinct
<1>2. FileWith(t, t[f].cluster) = f
  BY <1>1, FileIs
<1> QED
  BY <1>1, <1>2

(* Who has what open.                                                      *)
FdsOK(table, descriptors) ==
  /\ Distinct(table)
  /\ \A d \in FdTable : d < 3 => descriptors[d] = Closed
  /\ \A d \in FdTable : descriptors[d] # Closed =>
       \E f \in Names : /\ descriptors[d].cluster = table[f].cluster
                        /\ descriptors[d].file_size = table[f].size
  /\ \A d, e \in FdTable :
       descriptors[d] # Closed /\ descriptors[e] # Closed
         /\ descriptors[d].cluster = descriptors[e].cluster => d = e

-----------------------------------------------------------------------------
(* The bytes of s are those of the chain c from pos on.                    *)
Copied(t, b, c, pos, s) ==
  \A j \in 1 .. Len(s) : s[j] = ByteAt(t, b, c, pos + j - 1)

(* A read stands at place n of the chain, where its next byte is.          *)
ReadAt(n) ==
  /\ ChainOf(fat, fds[fd].cluster)[n] = cur
  /\ buf = <<>> => start = ClusterSize * n
  /\ pc = "rcluster" /\ buf = <<>> => fds[fd].position < start + ClusterSize
  /\ buf # <<>> => fds[fd].position + Len(buf) = ClusterSize * n

ReadsOK ==
  pc \in Reading =>
    /\ fds[fd].position < fds[fd].file_size
    /\ \E k \in ReadSizes : want = Smaller(k, fds[fd].file_size - fds[fd].position)
    /\ Copied(fat, data, fds[fd].cluster, fds[fd].position, buf)
    /\ pc = "rdone" => Len(buf) = want
    /\ pc # "rdone" => Len(buf) < want /\ \E n \in 0 .. LastEntry : ReadAt(n)

FilesInv == RoomInv /\ Backed(fat, dir) /\ FdsOK(dir, fds) /\ ReadsOK

LEMMA DescriptorFile ==
  ASSUME RoomInv, Backed(fat, dir), FdsOK(dir, fds), NEW d \in FdTable, fds[d] # Closed
  PROVE  /\ fds[d] \in Descriptor /\ fds[d].cluster \in Table
         /\ fds[d].position \in Nat /\ fds[d].file_size \in Nat
         /\ fds[d].file_size <= Room(fat, fds[d].cluster)
         /\ fat \in FatType /\ data \in DataType
         /\ d \in 3 .. MaxFd
         /\ \E f \in Names : /\ fds[d].cluster = dir[f].cluster
                             /\ fds[d].file_size = dir[f].size
                             /\ FileWith(dir, fds[d].cluster) = f
<1>1. TypeOK
  BY DEF RoomInv, Inv
<1>2. fds[d] \in Descriptor /\ fat \in FatType /\ data \in DataType
  BY <1>1 DEF TypeOK, FatType, DataType
<1>3. /\ fds[d].cluster \in Table
      /\ fds[d].position \in Nat /\ fds[d].file_size \in Nat
  BY <1>2 DEF Descriptor
<1>4. PICK f \in Names : fds[d].cluster = dir[f].cluster /\ fds[d].file_size = dir[f].size
  BY DEF FdsOK
<1>5. FileWith(dir, fds[d].cluster) = f
  BY <1>4, FileIs DEF FdsOK
<1>6. fds[d].file_size <= Room(fat, fds[d].cluster)
  BY <1>4 DEF Backed
<1>7. d \in 3 .. MaxFd
  BY GeometryAssumption DEF FdsOK, FdTable
<1> QED
  BY <1>2, <1>3, <1>4, <1>5, <1>6, <1>7

LEMMA ReadingFile ==
  ASSUME FilesInv, pc \in Reading
  PROVE  /\ fd \in FdTable /\ fds[fd] # Closed
         /\ buf \in Seq(Bytes) /\ Len(buf) \in Nat /\ cur \in Table /\ start \in Nat
         /\ want \in Nat /\ want <= fds[fd].file_size - fds[fd].position
         /\ TypeOK /\ LoopInv
<1>1. TypeOK /\ LoopInv /\ CallInv
  BY DEF FilesInv, RoomInv, Inv
<1>2. pc # "idle"
  BY DEF Reading
<1>3. /\ fd \in FdTable /\ fds[fd] # Closed /\ fds[fd] \in Descriptor
      /\ buf \in Seq(Bytes) /\ Len(buf) \in Nat /\ cur \in Table /\ start \in Nat
      /\ want \in Nat
  BY <1>1, <1>2, DescriptorOpen DEF TypeOK, CallInv
<1>4. fds[fd].position \in Nat /\ fds[fd].file_size \in Nat
  BY <1>3 DEF Descriptor
<1>5. PICK k \in ReadSizes : want = Smaller(k, fds[fd].file_size - fds[fd].position)
  BY DEF FilesInv, ReadsOK
<1>6. k \in Int
  BY GeometryAssumption
<1>7. want <= fds[fd].file_size - fds[fd].position
  <2> DEFINE left == fds[fd].file_size - fds[fd].position
  <2>1. left \in Int
    BY <1>4
  <2>2. want = Smaller(k, left)
    BY <1>5
  <2> HIDE DEF left
  <2>3. want <= left
    BY <1>6, <2>1, <2>2, SmallerType
  <2> QED
    BY <2>3 DEF left
<1> QED
  BY <1>1, <1>3, <1>7

(* Where a chain has room for more, it goes on.                            *)
LEMMA ChainGoesOn ==
  ASSUME NEW t \in FatType, NEW c \in Table, NEW n \in 0 .. LastEntry,
         NEW i \in Nat, ClusterSize * (n + 1) <= i, i < Room(t, c)
  PROVE  /\ n + 1 \in 0 .. LastEntry
         /\ ChainOf(t, c)[n] # None
         /\ ChainOf(t, c)[n + 1] = Follow(t, ChainOf(t, c)[n])
         /\ Follow(t, ChainOf(t, c)[n]) # None
<1> DEFINE q == i \div ClusterSize
           m == n + 1
<1>0. LastEntry \in Nat /\ n \in Nat /\ m \in Nat /\ m = n + 1
  BY GeometryAssumption
<1>1. q \in Nat /\ m <= q
  BY <1>0, PlaceOf
<1>2. q \in Places(t, c)
  BY PlaceInRoom
<1> HIDE DEF q, m
<1>3. m \in 0 .. q /\ n \in 0 .. q /\ q \in 0 .. LastEntry /\ ChainOf(t, c)[q] # None
  BY <1>0, <1>1, <1>2 DEF Places
<1>4. ChainOf(t, c)[m] # None /\ ChainOf(t, c)[n] # None
  BY <1>3, ChainBefore
<1>5. m \in 1 .. LastEntry /\ m - 1 = n
  BY <1>0, <1>3
<1>6. ChainOf(t, c)[m] = Follow(t, ChainOf(t, c)[n])
  BY <1>4, <1>5, ChainSteps
<1> QED
  BY <1>0, <1>3, <1>4, <1>5, <1>6 DEF m

LEMMA ReadBeginOK ==
  ASSUME RoomInv, NEW d \in FdArgs, NEW k \in ReadSizes, ReadBegin(d, k)
  PROVE  ReadsOK'
<1>1. /\ pc = "idle" /\ IsOpen(d) /\ k > 0 /\ fds[d].position < fds[d].file_size
      /\ pc' = "rseek" /\ fd' = d
      /\ want' = Smaller(k, fds[d].file_size - fds[d].position)
      /\ cur' = fds[d].cluster
      /\ UNCHANGED <<fat, data, fds, buf, start>>
  BY DEF ReadBegin, disk
<1>2. TypeOK /\ LoopInv
  BY DEF RoomInv, Inv
<1>3. buf = <<>> /\ start = 0
  BY <1>1, <1>2 DEF LoopInv
<1>4. fds[d] \in Descriptor /\ fat \in FatType
  BY <1>1, <1>2 DEF TypeOK, IsOpen, FatType
<1>5. fds[d].position \in Nat /\ fds[d].file_size \in Nat /\ fds[d].cluster \in Table
  BY <1>4 DEF Descriptor
<1>6. ChainOf(fat, fds[d].cluster)[0] = fds[d].cluster
  BY <1>4, <1>5, ChainSteps
<1>7. ClusterSize * 0 = 0 /\ 0 \in 0 .. LastEntry
  BY ClusterSizeType, GeometryAssumption
<1>8. 0 < want'
  BY <1>1, <1>5, GeometryAssumption DEF Smaller
<1>9. Copied(fat, data, fds[d].cluster, fds[d].position, <<>>) /\ Len(<<>>) = 0
  BY DEF Copied
<1>10. ReadAt(0)'
  BY <1>1, <1>3, <1>6, <1>7 DEF ReadAt
<1> QED
  BY <1>1, <1>3, <1>7, <1>8, <1>9, <1>10 DEF ReadsOK

LEMMA ReadSeekOK ==
  ASSUME FilesInv, ReadSeek
  PROVE  ReadsOK'
<1> DEFINE c == fds[fd].cluster
           pos == fds[fd].position
           size == fds[fd].file_size
<1>1. /\ pc = "rseek" /\ pc \in Reading
      /\ UNCHANGED <<fat, data, fds, fd, buf, want>>
  BY DEF ReadSeek, disk, Reading
<1>2. /\ fd \in FdTable /\ fds[fd] # Closed /\ start \in Nat /\ want \in Nat
      /\ want <= size - pos /\ LoopInv
  BY <1>1, ReadingFile
<1>3. /\ c \in Table /\ pos \in Nat /\ size \in Nat /\ size <= Room(fat, c)
      /\ fat \in FatType
  BY <1>2, DescriptorFile DEF FilesInv
<1>4. buf = <<>> /\ start <= pos
  BY <1>1, <1>2 DEF LoopInv
<1>5. PICK n \in 0 .. LastEntry : ReadAt(n)
  BY <1>1 DEF FilesInv, ReadsOK
<1>6. ChainOf(fat, c)[n] = cur /\ start = ClusterSize * n /\ n \in Nat
  BY <1>4, <1>5, GeometryAssumption DEF ReadAt
<1>7. /\ pos < size /\ Len(buf) < want /\ Copied(fat, data, c, pos, buf)
      /\ \E k \in ReadSizes : want = Smaller(k, size - pos)
  BY <1>1 DEF FilesInv, ReadsOK
<1>8. ClusterSize * (n + 1) = start + ClusterSize /\ ClusterSize \in Nat
  BY <1>6, NextPlace, ClusterSizeType
<1>9. Room(fat, c) \in Nat
  BY <1>3, RoomType
<1>10. CASE Before
  <2>1. ClusterSize * (n + 1) <= pos /\ pos < Room(fat, c)
    BY <1>2, <1>3, <1>7, <1>8, <1>9, <1>10 DEF Before
  <2>2. /\ n + 1 \in 0 .. LastEntry
        /\ ChainOf(fat, c)[n + 1] = Follow(fat, cur) /\ Follow(fat, cur) # None
    BY <1>3, <1>6, <2>1, ChainGoesOn
  <2>3. next_cluster(cur) = Follow(fat, cur)
    BY DEF next_cluster, Follow
  <2>4. pc' = "rseek" /\ cur' = next_cluster(cur) /\ start' = start + ClusterSize
    BY <1>1, <1>10, <2>2, <2>3 DEF ReadSeek
  <2> DEFINE m == n + 1
  <2>5. m \in 0 .. LastEntry /\ ChainOf(fat, c)[m] = cur' /\ start' = ClusterSize * m
    BY <1>8, <2>2, <2>3, <2>4
  <2> HIDE DEF m
  <2>6. ReadAt(m)'
    BY <1>1, <1>4, <2>4, <2>5 DEF ReadAt
  <2> QED
    BY <1>1, <1>7, <2>4, <2>5, <2>6 DEF ReadsOK
<1>11. CASE ~ Before
  <2>1. pc' = "rcluster" /\ UNCHANGED <<cur, start>>
    BY <1>11 DEF ReadSeek
  <2>2. pos < start + ClusterSize
    BY <1>2, <1>3, <1>8, <1>11 DEF Before
  <2>3. ReadAt(n)'
    BY <1>1, <1>4, <1>6, <2>1, <2>2 DEF ReadAt
  <2> QED
    BY <1>1, <1>7, <2>1, <2>3 DEF ReadsOK
<1> QED
  BY <1>10, <1>11

(* How much read_cluster copies: to the end of the cluster or of what is   *)
(* wanted.                                                                 *)
Copies(from, len, most) ==
  Smaller(IF from <= ClusterSize THEN Smaller(most - len, ClusterSize - from) ELSE most - len,
          ClusterSize - (from % ClusterSize))

LEMMA WithinCluster ==
  ASSUME NEW from \in Nat, from < ClusterSize
  PROVE  from % ClusterSize = from
<1>1. ClusterSize * 0 = 0 /\ ClusterSize \in Nat
  BY ClusterSizeType
<1>2. 0 \in Nat /\ ClusterSize * 0 <= from /\ from < ClusterSize * 0 + ClusterSize
  BY <1>1
<1>3. from % ClusterSize = from - ClusterSize * 0
  BY <1>2, PlaceIs
<1> QED
  BY <1>1, <1>3

LEMMA CopiesIs ==
  ASSUME NEW from \in Nat, from < ClusterSize,
         NEW len \in Nat, NEW most \in Nat, len < most
  PROVE  /\ Copies(from, len, most) \in Nat \ {0} /\ len + Copies(from, len, most) <= most
         /\ from + Copies(from, len, most) <= ClusterSize
         /\ len + Copies(from, len, most) < most =>
              from + Copies(from, len, most) = ClusterSize
<1> DEFINE c == ClusterSize
<1>1. from < c /\ c \in Nat
  BY ClusterSizeType
<1>2. Copies(from, len, most) =
        Smaller(IF from <= c THEN Smaller(most - len, c - from) ELSE most - len, c - from)
  BY WithinCluster DEF Copies
<1> HIDE DEF c
<1>3. LET n == Copies(from, len, most)
      IN  n \in Nat \ {0} /\ len + n <= most /\ from + n <= c
          /\ (len + n < most => from + n = c)
  BY <1>1, <1>2 DEF Smaller
<1> QED
  BY <1>3 DEF c

LEMMA JoinedAt ==
  ASSUME NEW S, NEW s \in Seq(S), NEW t \in Seq(S)
  PROVE  /\ Len(s \o t) = Len(s) + Len(t)
         /\ \A j \in 1 .. Len(s) : (s \o t)[j] = s[j]
         /\ \A j \in Len(s) + 1 .. Len(s) + Len(t) : (s \o t)[j] = t[j - Len(s)]
  OBVIOUS

(* The bytes copied are the next ones of the chain.                        *)
StartOf(n) == ClusterSize * n      (* the offset in a file of place n of its chain *)
Piece(b, x, from, size) == [o \in 1 .. size |-> b[x][from + o - 1]]
With(s, b, x, from, size) == s \o Piece(b, x, from, size)

LEMMA CopiesOn ==
  ASSUME NEW t, NEW b \in DataType, NEW c, NEW pos \in Nat, NEW s \in Seq(Bytes),
         Copied(t, b, c, pos, s), NEW n \in Nat, StartOf(n) \in Nat, ChainOf(t, c)[n] \in Table,
         NEW from \in Nat, pos + Len(s) = StartOf(n) + from,
         NEW size \in Nat \ {0}, from + size <= ClusterSize
  PROVE  /\ Copied(t, b, c, pos, With(s, b, ChainOf(t, c)[n], from, size))
         /\ Len(With(s, b, ChainOf(t, c)[n], from, size)) = Len(s) + size
         /\ With(s, b, ChainOf(t, c)[n], from, size) # <<>>
<1> DEFINE x == ChainOf(t, c)[n]
           len == Len(s)
           more == Piece(b, x, from, size)
<1>0. /\ ClusterSize \in Nat \ {0} /\ ClusterSize * n \in Nat /\ len \in Nat
      /\ pos + len = ClusterSize * n + from
  BY ClusterSizeType, NextPlace DEF StartOf
<1>1. \A o \in 1 .. size : b[x][from + o - 1] \in Bytes
  <2>1. \A o \in 1 .. size : from + o - 1 \in Offs
    BY <1>0 DEF Offs
  <2> QED
    BY <2>1 DEF DataType
<1>2. /\ more \in Seq(Bytes) /\ Len(more) = size
      /\ \A o \in 1 .. size : more[o] = b[x][from + o - 1]
  BY <1>1 DEF Piece
<1> HIDE DEF more
<1>3. /\ Len(s \o more) = len + size
      /\ \A j \in 1 .. len : (s \o more)[j] = s[j]
      /\ \A j \in len + 1 .. len + size : (s \o more)[j] = more[j - len]
  BY <1>2, JoinedAt, ZenonT(60)
<1>4. ASSUME NEW j \in 1 .. Len(s \o more)
      PROVE  (s \o more)[j] = ByteAt(t, b, c, pos + j - 1)
  <2>1. CASE j <= len
    BY <1>0, <1>3, <2>1, SMTT(30) DEF Copied
  <2>2. CASE j > len
    <3> DEFINE o == j - len
               i == pos + j - 1
    <3>1. o \in 1 .. size /\ (s \o more)[j] = b[x][from + o - 1]
      BY <1>0, <1>2, <1>3, <2>2, SMTT(30)
    <3>2. /\ i \in Nat /\ i = ClusterSize * n + (from + o - 1)
          /\ ClusterSize * n <= i /\ i < ClusterSize * n + ClusterSize
      BY <1>0, <1>3, <2>2, SMTT(30)
    <3>3. i \div ClusterSize = n /\ i % ClusterSize = i - ClusterSize * n
      BY <3>2, PlaceIs
    <3>4. i - ClusterSize * n = from + o - 1
      BY <1>0, <3>1, <3>2
    <3> HIDE DEF i, o
    <3>5. ByteAt(t, b, c, i) = b[x][from + o - 1]
      BY <3>3, <3>4 DEF ByteAt
    <3> QED
      BY <3>1, <3>5 DEF i
  <2> QED
    BY <1>0, <1>3, <2>1, <2>2
<1>5. s \o more # <<>>
  <2>1. Len(s \o more) # Len(<<>>)
    BY <1>0, <1>3
  <2> QED
    BY <2>1
<1> QED
  BY <1>3, <1>4, <1>5 DEF Copied, With, more

LEMMA ReadClusterOK ==
  ASSUME FilesInv, ReadCluster
  PROVE  ReadsOK'
<1> DEFINE c == fds[fd].cluster
           pos == fds[fd].position
           size == fds[fd].file_size
           len == Len(buf)
<1>1. /\ pc = "rcluster" /\ pc \in Reading
      /\ UNCHANGED <<fat, data, fds, fd, want, start>>
  BY DEF ReadCluster, disk, Reading
<1>2. /\ fd \in FdTable /\ fds[fd] # Closed /\ start \in Nat /\ want \in Nat
      /\ want <= size - pos /\ LoopInv /\ buf \in Seq(Bytes) /\ len \in Nat
      /\ cur \in Table
  BY <1>1, ReadingFile
<1>3. /\ c \in Table /\ pos \in Nat /\ size \in Nat /\ size <= Room(fat, c)
      /\ fat \in FatType /\ data \in DataType
  BY <1>2, DescriptorFile DEF FilesInv
<1>4. PICK n \in 0 .. LastEntry : ReadAt(n)
  BY <1>1 DEF FilesInv, ReadsOK
<1>5. /\ n \in Nat /\ ChainOf(fat, c)[n] = cur
      /\ buf = <<>> => start = ClusterSize * n /\ pos < start + ClusterSize
      /\ buf # <<>> => pos + len = ClusterSize * n
  BY <1>1, <1>4, GeometryAssumption DEF ReadAt
<1>6. /\ pos < size /\ len < want /\ Copied(fat, data, c, pos, buf)
      /\ \E k \in ReadSizes : want = Smaller(k, size - pos)
  BY <1>1 DEF FilesInv, ReadsOK
<1> DEFINE here == ClusterSize * n
           from == ReadOffset
           m == Smaller(ReadChunk, ClusterSize - (from % ClusterSize))
           more == read_cluster(from % ClusterSize, m)
<1>7. /\ here \in Nat /\ ClusterSize * (n + 1) = here + ClusterSize
      /\ ClusterSize \in Nat \ {0}
  BY <1>5, NextPlace, ClusterSizeType
<1>8. /\ ClusterSize * n = here
      /\ buf = <<>> => start = here /\ pos < start + ClusterSize
      /\ buf # <<>> => pos + len = here
  BY <1>5
<1> HIDE DEF here
<1>9. /\ here <= pos + len /\ pos + len < here + ClusterSize
      /\ from = (pos + len) - here
  <2>1. CASE buf = <<>>
    <3>1. len = 0 /\ start <= pos /\ from = pos - start
      BY <1>1, <1>2, <2>1 DEF LoopInv, ReadOffset
    <3> QED
      BY <1>2, <1>3, <1>7, <1>8, <2>1, <3>1
  <2>2. CASE buf # <<>>
    <3>1. from = 0
      BY <2>2 DEF ReadOffset
    <3> QED
      BY <1>2, <1>3, <1>7, <1>8, <2>2, <3>1
  <2> QED
    BY <2>1, <2>2
<1>10. /\ m = Copies(from, len, want)
       /\ more = Piece(data, cur, from % ClusterSize, m)
  BY DEF ReadChunk, read_cluster, Copies, Piece
<1>11. /\ buf' = buf \o more
       /\ IF m > 0 /\ Len(buf') < want /\ next_cluster(cur) # None
          THEN cur' = next_cluster(cur) /\ pc' = "rcluster"
          ELSE pc' = "rdone" /\ UNCHANGED cur
  BY <1>1 DEF ReadCluster
<1> HIDE DEF from, m, more
<1>12. /\ from % ClusterSize = from /\ from \in Nat
       /\ m \in Nat \ {0} /\ len + m <= want /\ from + m <= ClusterSize
       /\ len + m < want => from + m = ClusterSize
       /\ pos + len = here + from
  <2> DEFINE place == pos + len
  <2>1. place \in Nat /\ here <= place /\ place < here + ClusterSize /\ from = place - here
    BY <1>2, <1>3, <1>9
  <2> HIDE DEF place
  <2>2. place = here + from /\ from \in Nat /\ from < ClusterSize
    BY <1>7, <2>1
  <2>3. /\ m \in Nat \ {0} /\ len + m <= want /\ from + m <= ClusterSize
        /\ len + m < want => from + m = ClusterSize
    BY <1>2, <1>6, <1>10, <2>2, CopiesIs
  <2>4. from % ClusterSize = from
    BY <2>2, WithinCluster
  <2> QED
    BY <2>2, <2>3, <2>4 DEF place
<1>13. /\ Copied(fat, data, c, pos, buf') /\ Len(buf') = len + m /\ buf' # <<>>
  <2>1. ChainOf(fat, c)[n] \in Table
    BY <1>2, <1>5
  <2>2. more = Piece(data, ChainOf(fat, c)[n], from, m)
    BY <1>5, <1>10, <1>12
  <2>3. pos + Len(buf) = StartOf(n) + from /\ StartOf(n) \in Nat
    BY <1>7, <1>8, <1>12 DEF StartOf
  <2>4. buf' = With(buf, data, ChainOf(fat, c)[n], from, m)
    BY <1>11, <2>2 DEF With
  <2>5. m \in Nat \ {0} /\ from + m <= ClusterSize /\ from \in Nat
    BY <1>12
  <2> DEFINE got == With(buf, data, ChainOf(fat, c)[n], from, m)
  <2>6. Copied(fat, data, c, pos, got) /\ Len(got) = Len(buf) + m /\ got # <<>>
    <3> HIDE DEF c, pos, len
    <3>1. /\ data \in DataType /\ pos \in Nat /\ buf \in Seq(Bytes)
          /\ Copied(fat, data, c, pos, buf) /\ n \in Nat
      BY <1>2, <1>3, <1>5, <1>6
    <3>2. Copied(fat, data, c, pos, got)
      BY ONLY <2>1, <2>3, <2>5, <3>1, CopiesOn
    <3>3. Len(got) = Len(buf) + m
      BY ONLY <2>1, <2>3, <2>5, <3>1, CopiesOn
    <3> HIDE DEF got
    <3>4. got # <<>>
      <4>1. Len(got) # Len(<<>>)
        BY <2>5, <3>1, <3>3, <1>2 DEF len
      <4> QED
        BY <4>1
    <3> QED
      BY <3>2, <3>3, <3>4
  <2> HIDE DEF got
  <2>7. buf' = got
    BY <2>4 DEF got
  <2> QED
    BY <2>6, <2>7
<1>14. CASE Len(buf') < want
  <2> DEFINE i == pos + Len(buf')
  <2>0. want \in Nat /\ want <= size - pos /\ Len(buf') = len + m
    BY <1>2, <1>13
  <2>1. /\ i \in Nat /\ i = here + ClusterSize /\ i < size
    <3> HIDE DEF pos, size, len
    <3> QED
      BY <1>2, <1>3, <1>7, <1>12, <1>14, <2>0
  <2>2. ClusterSize * (n + 1) <= i /\ i < Room(fat, c)
    <3>1. Room(fat, c) \in Nat
      BY <1>3, RoomType
    <3> QED
      BY <1>3, <1>7, <1>8, <2>1, <3>1
  <2>3. /\ n + 1 \in 0 .. LastEntry
        /\ ChainOf(fat, c)[n + 1] = Follow(fat, cur) /\ Follow(fat, cur) # None
    BY <1>3, <1>5, <2>1, <2>2, ChainGoesOn
  <2>4. next_cluster(cur) = Follow(fat, cur) /\ m > 0
    BY <1>12 DEF next_cluster, Follow
  <2>5. cur' = Follow(fat, cur) /\ pc' = "rcluster"
    BY <1>11, <1>14, <2>3, <2>4
  <2> DEFINE p == n + 1
  <2>6. /\ p \in 0 .. LastEntry /\ ChainOf(fat, c)[p] = cur'
        /\ pos + Len(buf') = ClusterSize * p
    BY <1>7, <1>8, <2>1, <2>3, <2>5
  <2> HIDE DEF p, i
  <2>7. ReadAt(p)'
    BY <1>1, <1>13, <2>5, <2>6 DEF ReadAt
  <2> QED
    BY <1>1, <1>6, <1>13, <1>14, <2>5, <2>6, <2>7 DEF ReadsOK
<1>15. CASE ~ (Len(buf') < want)
  <2>1. Len(buf') = want
    BY <1>2, <1>12, <1>13, <1>15
  <2>2. pc' = "rdone"
    BY <1>11, <1>15
  <2> QED
    BY <1>1, <1>6, <1>13, <2>1, <2>2 DEF ReadsOK
<1> QED
  BY <1>14, <1>15

LEMMA NextReads ==
  ASSUME FilesInv, [Next]_vars
  PROVE  ReadsOK'
<1>1. CASE UNCHANGED vars
  <2>1. UNCHANGED <<pc, fat, data, fds, fd, buf, want, cur, start>>
    BY <1>1 DEF vars, disk, locals
  <2> QED
    BY <2>1 DEF FilesInv, ReadsOK, ReadAt
<1>2. CASE ReadSeek
  BY <1>2, ReadSeekOK
<1>3. CASE ReadCluster
  BY <1>3, ReadClusterOK
<1>4. ASSUME NEW d \in FdArgs, NEW k \in ReadSizes, ReadBegin(d, k) PROVE ReadsOK'
  BY <1>4, ReadBeginOK DEF FilesInv
<1>5. CASE /\ Calls
           /\ ~ \E d \in FdArgs, k \in ReadSizes : ReadBegin(d, k)
  <2>1. pc' \notin Reading
    BY <1>5 DEF Calls, Open, OpenFails, Close, Fstat, Lseek, ReadNow, WriteNow,
         WriteBegin, Answer, Reading
  <2> QED
    BY <2>1 DEF ReadsOK
<1>6. CASE Crash \/ (Step /\ ~ ReadSeek /\ ~ ReadCluster)
  <2>1. pc' \notin Reading
    BY <1>6 DEF Step, Crash, ReadDone, WriteSeek, WriteSeekDone, AllocCluster, AtChainEnd,
         LinkCluster, TerminateChain, GapDiskFull, WriteSector, NextCluster, DiskFull,
         WriteDone, Reading
  <2> QED
    BY <2>1 DEF ReadsOK
<1> QED
  BY <1>1, <1>2, <1>3, <1>4, <1>5, <1>6 DEF Next

(* A descriptor's position may change.                                     *)
MovedTo(old, d, place) == [old EXCEPT ![d].position = place]

LEMMA FdMoves ==
  ASSUME NEW table, NEW old \in [FdTable -> Descriptor \union {Closed}],
         FdsOK(table, old), NEW d \in FdTable, old[d] # Closed, NEW place \in Nat
  PROVE  /\ FdsOK(table, MovedTo(old, d, place)) /\ d \in 3 .. MaxFd
         /\ OpenOf(table, MovedTo(old, d, place)) = MovedTo(OpenOf(table, old), d, place)
<1> DEFINE moved == [old EXCEPT ![d].position = place]
<1>1. /\ moved[d] # Closed /\ moved[d].cluster = old[d].cluster
      /\ moved[d].file_size = old[d].file_size /\ moved[d].position = place
      /\ \A e \in FdTable : e # d => moved[e] = old[e]
  <2>1. old[d] \in Descriptor
    OBVIOUS
  <2>2. moved[d] = [old[d] EXCEPT !.position = place]
    OBVIOUS
  <2>3. [old[d] EXCEPT !.position = place] \in Descriptor
    BY <2>1 DEF Descriptor
  <2> QED
    BY <2>1, <2>2, <2>3, DescriptorOpen DEF Descriptor
<1>2. d \in 3 .. MaxFd
  BY GeometryAssumption DEF FdsOK, FdTable
<1>3. \A e \in 3 .. MaxFd : e \in FdTable
  BY DEF FdTable
<1> HIDE DEF moved
<1>4. FdsOK(table, moved)
  BY <1>1, <1>2 DEF FdsOK
<1>5. OpenOf(table, moved) = [OpenOf(table, old) EXCEPT ![d].position = place]
  BY <1>1, <1>2, <1>3 DEF OpenOf
<1> QED
  BY <1>2, <1>4, <1>5 DEF moved, MovedTo

LEMMA OpenFds ==
  ASSUME RoomInv, FdsOK(dir, fds), ~ SharedOpens, NEW f \in Names, Open(f)
  PROVE  FdsOK(dir', fds')
<1>1. PICK d \in 3 .. MaxFd :
        /\ allocate_fd(d) /\ dir' = dir
        /\ fds' = [fds EXCEPT ![d] = [cluster |-> dir[f].cluster, position |-> 0,
                                      file_size |-> dir[f].size]]
  BY DEF Open, Answer, disk
<1>2. fds[d] = Closed /\ d \in FdTable /\ fds \in [FdTable -> Descriptor \union {Closed}]
  BY <1>1 DEF allocate_fd, IsOpen, FdTable, RoomInv, Inv, TypeOK
<1>3. \A e \in FdTable : fds[e] # Closed => fds[e].cluster # dir[f].cluster
  BY DEF Open, MayOpen, IsOpen
<1>4. /\ fds'[d].cluster = dir[f].cluster /\ fds'[d].file_size = dir[f].size
      /\ \A e \in FdTable : e # d => fds'[e] = fds[e]
  BY <1>1, <1>2
<1>5. ~ (d < 3)
  BY <1>1
<1> QED
  BY <1>1, <1>3, <1>4, <1>5 DEF FdsOK

LEMMA WriteDoneFds ==
  ASSUME RoomInv, FdsOK(dir, fds), WriteDone
  PROVE  /\ FdsOK(dir', fds')
         /\ \A f \in Names :
              /\ dir'[f].cluster = dir[f].cluster
              /\ dir[f].cluster # fds[fd].cluster => dir'[f].size = dir[f].size
              /\ dir[f].cluster = fds[fd].cluster =>
                   dir'[f].size = IF fds[fd].position + written > dir[f].size
                                  THEN fds[fd].position + written ELSE dir[f].size
         /\ OpenOf(dir', fds') =
              [OpenOf(dir, fds) EXCEPT ![fd].position = fds[fd].position + written]
<1> DEFINE end == fds[fd].position + written
           c == fds[fd].cluster
<1>0. /\ pc \in Writing /\ fd \in FdTable /\ fds[fd] \in Descriptor /\ end \in Nat
      /\ fds \in [FdTable -> Descriptor \union {Closed}]
      /\ dir \in [Names -> [cluster : Table, size : Nat]]
  <2>1. pc \in Writing
    BY DEF WriteDone, Writing
  <2> QED
    BY <2>1, WritingChain DEF TypeOK
<1>1. fds[fd] # Closed
  BY <1>0, DescriptorOpen
<1>2. PICK h \in Names : c = dir[h].cluster /\ fds[fd].file_size = dir[h].size
  BY <1>0, <1>1 DEF FdsOK
<1>3. Distinct(dir)
  BY DEF FdsOK
<1>4. \A f \in Names : dir[f].cluster = c <=> f = h
  BY <1>2, <1>3 DEF Distinct
<1>5. /\ fds' = IF end > fds[fd].file_size
                THEN [fds EXCEPT ![fd].position = end, ![fd].file_size = end]
                ELSE [fds EXCEPT ![fd].position = end]
      /\ dir' = IF end > fds[fd].file_size THEN WithSize(c, end) ELSE dir
  BY DEF WriteDone
<1>6. CASE ~ (end > fds[fd].file_size)
  <2>1. dir' = dir /\ fds' = [fds EXCEPT ![fd].position = end]
    BY <1>5, <1>6
  <2> HIDE DEF end
  <2>2. /\ FdsOK(dir, fds')
        /\ OpenOf(dir, fds') = [OpenOf(dir, fds) EXCEPT ![fd].position = end]
    <3>1. fds' = MovedTo(fds, fd, end) /\ end \in Nat
      BY <1>0, <2>1 DEF MovedTo, end
    <3>2. /\ FdsOK(dir, MovedTo(fds, fd, end))
          /\ OpenOf(dir, MovedTo(fds, fd, end)) = MovedTo(OpenOf(dir, fds), fd, end)
      BY <1>0, <1>1, <3>1, FdMoves
    <3> QED
      BY <3>1, <3>2 DEF MovedTo
  <2>3. \A f \in Names : dir[f].cluster = c => ~ (end > dir[f].size)
    BY <1>2, <1>4, <1>6
  <2> HIDE DEF c
  <2>4. \A f \in Names :
          /\ dir'[f].cluster = dir[f].cluster
          /\ dir[f].cluster # c => dir'[f].size = dir[f].size
          /\ dir[f].cluster = c => dir'[f].size = IF end > dir[f].size THEN end ELSE dir[f].size
    BY <2>1, <2>3
  <2> QED
    BY <2>1, <2>2, <2>4, Zenon DEF end, c
<1>7. CASE end > fds[fd].file_size
  <2>0. dir' = WithSize(c, end)
        /\ fds' = [fds EXCEPT ![fd].position = end, ![fd].file_size = end]
    BY <1>5, <1>7
  <2> HIDE DEF end
  <2>1. /\ dir'[h].cluster = c /\ dir'[h].size = end
        /\ \A f \in Names : f # h => dir'[f] = dir[f]
    <3>1. \A g \in Names : g < h => dir[g].cluster # c
      BY <1>4, DiskAssumption DEF Names
    <3>2. dir' = [f \in Names |-> IF f = h THEN [dir[f] EXCEPT !.size = end] ELSE dir[f]]
      BY <1>4, <2>0, <3>1 DEF WithSize
    <3>3. dir'[h] = [dir[h] EXCEPT !.size = end] /\ \A f \in Names : f # h => dir'[f] = dir[f]
      BY <3>2
    <3>4. dir[h] \in [cluster : Table, size : Nat]
      BY <1>0
    <3> QED
      BY <1>2, <3>3, <3>4
  <2>2. /\ fds'[fd] = [fds[fd] EXCEPT !.position = end, !.file_size = end]
        /\ \A e \in FdTable : e # fd => fds'[e] = fds[e]
    BY <1>0, <2>0
  <2>3. /\ fds'[fd] \in Descriptor /\ fds'[fd].cluster = c /\ fds'[fd].file_size = end
        /\ fds'[fd].position = end
    BY <1>0, <2>2 DEF Descriptor
  <2>4. fds'[fd] # Closed
    BY <2>3, DescriptorOpen
  <2>5. \A f \in Names : dir'[f].cluster = dir[f].cluster
    BY <1>2, <2>1
  <2>6. ASSUME NEW e \in FdTable, e # fd, fds[e] # Closed
        PROVE  \E f \in Names : /\ fds[e].cluster = dir'[f].cluster
                               /\ fds[e].file_size = dir'[f].size
    <3>1. PICK f \in Names : fds[e].cluster = dir[f].cluster /\ fds[e].file_size = dir[f].size
      BY <2>6 DEF FdsOK
    <3>2. f # h
      BY <1>0, <1>1, <1>2, <2>6, <3>1 DEF FdsOK
    <3> QED
      BY <2>1, <3>1, <3>2
  <2>7. Distinct(dir')
    BY <1>3, <2>5 DEF Distinct
  <2>8. FdsOK(dir', fds')
    <3> DEFINE to == fds'
               table == dir'
    <3>1. \A e \in FdTable : e < 3 => to[e] = Closed
      BY <1>0, <1>1, <2>2 DEF FdsOK
    <3>2. \A e \in FdTable : to[e] # Closed <=> fds[e] # Closed
      BY <1>1, <2>2, <2>4
    <3>3. \A e \in FdTable : to[e].cluster = fds[e].cluster
      BY <2>2, <2>3
    <3>4. ASSUME NEW e \in FdTable, to[e] # Closed
          PROVE  \E f \in Names : to[e].cluster = table[f].cluster
                                 /\ to[e].file_size = table[f].size
      <4>1. CASE e = fd
        BY <2>1, <2>3, <4>1
      <4>2. CASE e # fd
        BY <2>2, <2>6, <3>4, <4>2
      <4> QED
        BY <4>1, <4>2
    <3>5. \A d, e \in FdTable :
            to[d] # Closed /\ to[e] # Closed /\ to[d].cluster = to[e].cluster => d = e
      BY <3>2, <3>3 DEF FdsOK
    <3> QED
      BY <2>7, <3>1, <3>4, <3>5 DEF FdsOK
  <2>9. \A e \in FdTable : fds[e] # Closed =>
           FileWith(dir', fds[e].cluster) = FileWith(dir, fds[e].cluster)
    <3>1. \A f \in Names : FileWith(dir', dir[f].cluster) = f
                           /\ FileWith(dir, dir[f].cluster) = f
      BY <1>3, <2>5, SameFiles
    <3> QED
      BY <3>1 DEF FdsOK
  <2>10. fd \in 3 .. MaxFd
    BY <1>0, <1>1, GeometryAssumption DEF FdsOK, FdTable
  <2>11. \A e \in 3 .. MaxFd : e \in FdTable
    BY DEF FdTable
  <2>12. OpenOf(dir', fds') = [OpenOf(dir, fds) EXCEPT ![fd].position = end]
    <3> DEFINE old == OpenOf(dir, fds)
               to == OpenOf(dir', fds')
    <3>1. /\ old = [e \in 3 .. MaxFd |-> old[e]] /\ to = [e \in 3 .. MaxFd |-> to[e]]
          /\ \A e \in 3 .. MaxFd :
               old[e] = IF fds[e] = Closed THEN Closed
                        ELSE [file |-> FileWith(dir, fds[e].cluster),
                              position |-> fds[e].position]
      BY DEF OpenOf
    <3>2. \A e \in 3 .. MaxFd : e # fd => to[e] = old[e]
      BY <2>2, <2>9, <2>11 DEF OpenOf
    <3>3. to[fd] = [file |-> FileWith(dir, fds[fd].cluster), position |-> end]
      BY <1>0, <1>1, <2>3, <2>4, <2>9, <2>10 DEF OpenOf
    <3>4. old[fd] = [file |-> FileWith(dir, fds[fd].cluster), position |-> fds[fd].position]
      BY <1>1, <2>10, <3>1
    <3> HIDE DEF old, to
    <3>5. to[fd] = [old[fd] EXCEPT !.position = end]
      BY <3>3, <3>4
    <3>6. to = [old EXCEPT ![fd].position = end]
      BY <2>10, <3>1, <3>2, <3>5
    <3> QED
      BY <3>6 DEF old, to
  <2>13. \A f \in Names : dir[f].cluster = c => end > dir[f].size
    BY <1>2, <1>4, <1>7
  <2>14. \A f \in Names : dir[f].cluster # c => dir'[f].size = dir[f].size
    BY <1>2, <2>1
  <2>15. \A f \in Names : dir[f].cluster = c => dir'[f].size = end
    BY <1>4, <2>1
  <2> HIDE DEF c
  <2>16. \A f \in Names :
          /\ dir'[f].cluster = dir[f].cluster
          /\ dir[f].cluster # c => dir'[f].size = dir[f].size
          /\ dir[f].cluster = c => dir'[f].size = IF end > dir[f].size THEN end ELSE dir[f].size
    BY <2>5, <2>13, <2>14, <2>15
  <2> QED
    BY <2>8, <2>12, <2>16, Zenon DEF end, c
<1> QED
  BY <1>6, <1>7

LEMMA NextFds ==
  ASSUME RoomInv, FdsOK(dir, fds), ~ SharedOpens, [Next]_vars
  PROVE  FdsOK(dir', fds')
<1>1. TypeOK /\ CallInv
  BY DEF RoomInv, Inv
<1>2. fds \in [FdTable -> Descriptor \union {Closed}]
  BY <1>1 DEF TypeOK
<1>3. CASE dir' = dir /\ fds' = fds
  BY <1>3
<1>4. ASSUME NEW f \in Names, Open(f) PROVE FdsOK(dir', fds')
  BY <1>4, OpenFds
<1>5. CASE WriteDone
  BY <1>5, WriteDoneFds
<1>6. CASE Crash
  <2>1. dir' = dir /\ \A d \in FdTable : fds'[d] = Closed
    BY <1>6 DEF Crash, disk
  <2> QED
    BY <2>1 DEF FdsOK
<1>7. CASE ReadDone
  <2>1. /\ fds[fd] \in Descriptor /\ fd \in FdTable /\ buf \in Seq(Bytes) /\ dir' = dir
        /\ fds' = [fds EXCEPT ![fd].position = fds[fd].position + Len(buf)]
    BY <1>1, <1>7 DEF ReadDone, CallInv, TypeOK, disk
  <2>2. fds[fd] # Closed /\ fds[fd].position + Len(buf) \in Nat
    BY <2>1, DescriptorOpen DEF Descriptor
  <2> QED
    BY <1>2, <2>1, <2>2, FdMoves DEF MovedTo
<1>8. ASSUME NEW d, NEW o \in Offsets, NEW w \in 0 .. 3, Lseek(d, o, w), fds' # fds
      PROVE  FdsOK(dir', fds')
  <2>1. /\ d \in FdTable /\ fds[d] # Closed /\ dir' = dir /\ Target(d, o, w) >= 0
        /\ fds' = [fds EXCEPT ![d].position = Target(d, o, w)]
    BY <1>8 DEF Lseek, IsOpen, Answer, disk
  <2> DEFINE place == Target(d, o, w)
  <2>2. fds[d].position \in Nat /\ fds[d].file_size \in Nat
    BY <1>2, <2>1 DEF Descriptor
  <2>3. place \in Nat
    BY <1>8, <2>1, <2>2, GeometryAssumption, SMTT(30) DEF Target
  <2> HIDE DEF place
  <2>4. fds' = MovedTo(fds, d, place)
    BY <2>1 DEF place, MovedTo
  <2>5. FdsOK(dir, MovedTo(fds, d, place))
    BY <1>2, <2>1, <2>3, FdMoves
  <2> QED
    BY <2>1, <2>4, <2>5
<1>9. ASSUME NEW d, Close(d), fds' # fds PROVE FdsOK(dir', fds')
  <2>1. dir' = dir /\ fds' = [fds EXCEPT ![d] = Closed]
    BY <1>9 DEF Close, Answer, disk
  <2>2. \A e \in FdTable : fds'[e] = Closed \/ fds'[e] = fds[e]
    BY <1>2, <2>1
  <2> QED
    BY <2>1, <2>2 DEF FdsOK
<1>10. CASE /\ Next /\ ~ WriteDone /\ ~ Crash /\ ~ ReadDone
            /\ ~ \E f \in Names : Open(f)
            /\ ~ \E d \in FdArgs : Close(d)
            /\ ~ \E d \in FdArgs, o \in Offsets, w \in 0 .. 3 : Lseek(d, o, w)
  <2>1. dir' = dir /\ fds' = fds
    BY <1>10 DEF Next, Calls, Step, OpenFails, Fstat, ReadNow, ReadBegin, WriteNow, WriteBegin,
         Answer, ReadSeek, ReadCluster, WriteSeek, WriteSeekDone, AllocCluster, LinkCluster,
         TerminateChain, GapDiskFull, WriteSector, NextCluster, DiskFull, disk
  <2> QED
    BY <2>1
<1>11. CASE UNCHANGED vars
  BY <1>11 DEF vars, disk
<1>12. \A d : Close(d) => dir' = dir
  BY DEF Close, Answer, disk
<1>13. \A d, o, w : Lseek(d, o, w) => dir' = dir
  BY DEF Lseek, Answer, disk
<1> QED
  BY <1>3, <1>4, <1>5, <1>6, <1>7, <1>8, <1>9, <1>10, <1>11, <1>12, <1>13

-----------------------------------------------------------------------------
(* A file being written: outside lo .. hi - 1 it is as it was, ...         *)
Kept(t, b, c, size, old, lo, hi) ==
  \A i \in Nat : i < size /\ (i < lo \/ i >= hi) => ByteAt(t, b, c, i) = old[i + 1]

(* ... and from pos on it has the first n bytes of s.                      *)
Put(t, b, c, pos, s, n) == \A j \in 1 .. n : ByteAt(t, b, c, pos + j - 1) = s[j]

(* How far the current cluster's part of the payload reaches.              *)
Reach == IF pc = "wsector" THEN written + WriteSize ELSE written

WritesOK ==
  pc \in Writing =>
    /\ buf \in Payloads
    /\ stable \in [Names -> Seq(Bytes)]
    /\ \A f \in Names :
         /\ Len(stable[f]) = dir[f].size
         /\ dir[f].cluster # fds[fd].cluster =>
              stable[f] = BytesOf(fat, data, dir[f].cluster, dir[f].size)
         /\ dir[f].cluster = fds[fd].cluster =>
              Kept(fat, data, fds[fd].cluster, dir[f].size, stable[f],
                   fds[fd].position, fds[fd].position + Reach)
    /\ Put(fat, data, fds[fd].cluster, fds[fd].position, buf, written)
    /\ pc = "wsector" =>
         \A o \in Offs : o \div SectorSize < sector /\ Covered(o) =>
           data[cur][o] = buf[written + 1 + o - WriteOffset]

StoreInv == FilesInv /\ WritesOK

LEMMA KeptGrows ==
  ASSUME NEW t \in FatType, NEW u \in FatType, Extends(t, u), NEW c \in Table,
         NEW b, NEW size \in Nat, size <= Room(t, c), NEW old, NEW lo \in Nat,
         NEW hi \in Nat, Kept(t, b, c, size, old, lo, hi),
         NEW further \in Nat, hi <= further
  PROVE  Kept(u, b, c, size, old, lo, further)
<1> SUFFICES ASSUME NEW i \in Nat, i < size, i < lo \/ i >= further
             PROVE  ByteAt(u, b, c, i) = old[i + 1]
  BY DEF Kept
<1>1. ByteAt(t, b, c, i) = old[i + 1]
  BY DEF Kept
<1>2. i < Room(t, c)
  BY RoomType
<1>3. i \div ClusterSize \in Places(t, c)
  BY <1>2, PlaceInRoom
<1>4. ByteAt(u, b, c, i) = ByteAt(t, b, c, i)
  BY <1>3, ByteGrows
<1> QED
  BY <1>1, <1>4

LEMMA PutGrows ==
  ASSUME NEW t \in FatType, NEW u \in FatType, Extends(t, u), NEW c \in Table,
         NEW b, NEW pos \in Nat, NEW s, NEW n \in Nat, Put(t, b, c, pos, s, n),
         \A i \in Nat : i >= pos /\ i < pos + n => i \div ClusterSize \in Places(t, c)
  PROVE  Put(u, b, c, pos, s, n)
<1> SUFFICES ASSUME NEW j \in 1 .. n PROVE ByteAt(u, b, c, pos + j - 1) = s[j]
  BY DEF Put
<1> DEFINE i == pos + j - 1
<1>1. i \in Nat /\ i >= pos /\ i < pos + n
  OBVIOUS
<1>2. ByteAt(t, b, c, i) = s[j]
  BY DEF Put
<1> HIDE DEF i
<1>3. i \div ClusterSize \in Places(t, c)
  BY <1>1
<1>4. ByteAt(u, b, c, i) = ByteAt(t, b, c, i)
  BY <1>3, ByteGrows
<1> QED
  BY <1>2, <1>4 DEF i

(* The bytes written so far lie in clusters of the chain.                  *)
LEMMA WrittenPlaces ==
  ASSUME RoomInv, pc \in Writing
  PROVE  \A i \in Nat : i >= fds[fd].position /\ i < fds[fd].position + written =>
           i \div ClusterSize \in Places(fat, fds[fd].cluster)
<1> DEFINE c == fds[fd].cluster
           pos == fds[fd].position
<1>1. /\ fat \in FatType /\ c \in Table /\ cur \in Table
      /\ pos \in Nat /\ written \in Nat /\ TypeOK /\ LoopInv
  BY WritingChain DEF TypeOK, Inv
<1>2. PICK n \in 0 .. LastEntry : Walked(n)
  BY WritingChain
<1>3. n \in Nat /\ LastEntry \in Nat
  BY GeometryAssumption
<1>4. ChainOf(fat, c)[n] # None
  BY <1>1, <1>2, TableFacts DEF Walked, None
<1> SUFFICES ASSUME NEW i \in Nat, i >= pos, i < pos + written
             PROVE  i \div ClusterSize \in Places(fat, c)
  OBVIOUS
<1> DEFINE q == i \div ClusterSize
           far == ClusterSize * (n + 1)
<1>5. /\ far = ClusterSize * n + ClusterSize /\ ClusterSize * n \in Nat
      /\ ClusterSize \in Nat
  BY <1>3, NextPlace, ClusterSizeType
<1>6. pos + written <= far
  <2>1. written > 0
    BY <1>1
  <2>2. pc # "wseek"
    BY <1>1, <2>1 DEF LoopInv
  <2>3. CASE pc = "wsector"
    BY <1>1, <1>2, <1>5, <2>1, <2>3 DEF Walked
  <2>4. CASE pc \in {"wmore", "wlink", "wterminate"}
    BY <1>1, <1>2, <1>5, <2>1, <2>4 DEF Walked
  <2>5. CASE pc = "wdone"
    BY <1>2, <2>5 DEF Walked
  <2> QED
    BY <2>2, <2>3, <2>4, <2>5 DEF Writing
<1>7. i < far
  <2> HIDE DEF far
  <2> QED
    BY <1>1, <1>5, <1>6
<1>8. q \in Nat /\ q <= n
  BY <1>3, <1>7, PlaceOf
<1> HIDE DEF q
<1>9. q \in 0 .. n /\ q \in 0 .. LastEntry
  BY <1>3, <1>8
<1>10. ChainOf(fat, c)[q] # None
  BY <1>1, <1>4, <1>9, ChainBefore
<1> QED
  BY <1>9, <1>10 DEF Places, q

LEMMA WritingFile ==
  ASSUME StoreInv, pc \in Writing
  PROVE  /\ fds[fd] # Closed /\ fd \in 3 .. MaxFd /\ fd \in FdTable
         /\ fat \in FatType /\ data \in DataType
         /\ fds[fd].cluster \in Table /\ fds[fd].position \in Nat
         /\ fds[fd].file_size \in Nat
         /\ written \in Nat /\ buf \in Seq(Bytes) /\ Len(buf) \in Nat
         /\ written <= Len(buf)
         /\ \A f \in Names : /\ dir[f].size \in Nat /\ dir[f].cluster \in Table
                             /\ dir[f].size <= Room(fat, dir[f].cluster)
<1>1. /\ TypeOK /\ LoopInv /\ fds[fd] \in Descriptor /\ fd \in FdTable /\ written \in Nat
      /\ RoomInv
  BY WritingChain DEF StoreInv, FilesInv, Inv
<1>2. fds[fd] # Closed
  BY <1>1, DescriptorOpen
<1>3. /\ fd \in 3 .. MaxFd
      /\ fat \in FatType /\ data \in DataType
      /\ fds[fd].cluster \in Table /\ fds[fd].position \in Nat
      /\ fds[fd].file_size \in Nat
  BY <1>1, <1>2, DescriptorFile DEF StoreInv, FilesInv
<1>4. buf \in Seq(Bytes) /\ Len(buf) \in Nat /\ written <= Len(buf)
  BY <1>1 DEF TypeOK, LoopInv
<1>5. \A f \in Names : dir[f].size \in Nat /\ dir[f].cluster \in Table
  BY <1>1 DEF TypeOK
<1>6. \A f \in Names : dir[f].size <= Room(fat, dir[f].cluster)
  BY DEF StoreInv, FilesInv, Backed
<1> QED
  BY <1>1, <1>2, <1>3, <1>4, <1>5, <1>6

(* The steps between two clusters change no byte of any file.              *)
LEMMA BetweenClusters ==
  ASSUME StoreInv, Inv', pc \in Writing, pc' \in Writing, pc # "wsector",
         fat' \in FatType, Extends(fat, fat'), sector' = 0,
         UNCHANGED <<data, dir, fds, fd, buf, stable, written>>
  PROVE  WritesOK'
<1> DEFINE c == fds[fd].cluster
           pos == fds[fd].position
           far == pos + Reach'
<1>1. /\ fat \in FatType /\ c \in Table /\ pos \in Nat /\ written \in Nat
      /\ \A f \in Names : /\ dir[f].size \in Nat /\ dir[f].cluster \in Table
                          /\ dir[f].size <= Room(fat, dir[f].cluster)
  BY WritingFile
<1>2. Reach = written
  BY DEF Reach
<1>3. Reach' \in Nat /\ written <= Reach'
  <2>1. CASE pc' = "wsector"
    <3>1. /\ WriteOffset' \in Offs /\ written' < Len(buf') /\ buf' \in Seq(Bytes)
      BY <2>1 DEF Inv, TypeOK, LoopInv
    <3>2. Reach' = written' + WriteSize'
      BY <2>1 DEF Reach
    <3>3. WriteSize' = Smaller(Len(buf') - written', ClusterSize - WriteOffset')
      BY DEF WriteSize
    <3> DEFINE o == WriteOffset'
               w == WriteSize'
    <3> HIDE DEF o, w
    <3>4. w \in Nat
      <4>1. o \in Offs /\ w = Smaller(Len(buf) - written, ClusterSize - o)
        BY <3>1, <3>3 DEF o, w
      <4>2. Len(buf) \in Nat /\ written < Len(buf)
        BY <3>1
      <4> QED
        BY <1>1, <4>1, <4>2, ClusterSizeType DEF Smaller, Offs
    <3>5. Reach' = written + w
      BY <3>2 DEF w
    <3> QED
      BY <1>1, <3>4, <3>5
  <2>2. CASE pc' # "wsector"
    BY <1>1, <2>2 DEF Reach
  <2> QED
    BY <2>1, <2>2
<1>4. /\ buf \in Payloads /\ stable \in [Names -> Seq(Bytes)]
      /\ \A f \in Names : Len(stable[f]) = dir[f].size
      /\ Put(fat, data, c, pos, buf, written)
  BY DEF StoreInv, WritesOK
<1>5. ASSUME NEW f \in Names, dir[f].cluster # c
      PROVE  stable[f] = BytesOf(fat', data, dir[f].cluster, dir[f].size)
  <2>1. stable[f] = BytesOf(fat, data, dir[f].cluster, dir[f].size)
    BY <1>5 DEF StoreInv, WritesOK
  <2>2. BytesOf(fat', data, dir[f].cluster, dir[f].size)
          = BytesOf(fat, data, dir[f].cluster, dir[f].size)
    BY <1>1, BytesGrow
  <2> QED
    BY <2>1, <2>2
<1>6. ASSUME NEW f \in Names, dir[f].cluster = c
      PROVE  Kept(fat', data, c, dir[f].size, stable[f], pos, far)
  <2>1. Kept(fat, data, c, dir[f].size, stable[f], pos, pos + written)
    BY <1>2, <1>6 DEF StoreInv, WritesOK
  <2>2. /\ pos + written \in Nat /\ far \in Nat /\ pos + written <= far
        /\ dir[f].size \in Nat /\ dir[f].size <= Room(fat, c)
    BY <1>1, <1>3, <1>6
  <2> HIDE DEF c, pos, far
  <2> DEFINE near == pos + written
  <2> HIDE DEF near
  <2>3. /\ Kept(fat, data, c, dir[f].size, stable[f], pos, near)
        /\ near \in Nat /\ far \in Nat /\ near <= far
    BY <2>1, <2>2 DEF near
  <2> QED
    BY <1>1, <2>2, <2>3, KeptGrows
<1>7. Put(fat', data, c, pos, buf, written)
  <2>1. \A i \in Nat : i >= pos /\ i < pos + written => i \div ClusterSize \in Places(fat, c)
    BY WrittenPlaces DEF StoreInv, FilesInv
  <2> HIDE DEF c, pos
  <2> QED
    BY <1>1, <1>4, <2>1, PutGrows
<1>8. \A o \in Offs : ~ (o \div SectorSize < 0)
  <2>1. \A o \in Nat, s \in Nat \ {0} : o \div s \in Nat
    BY Multiples
  <2> QED
    BY <2>1, GeometryAssumption DEF Offs
<1>9. /\ fds[fd].cluster' = c /\ fds[fd].position' = pos
      /\ (fds[fd].position + Reach)' = far
  OBVIOUS
<1> HIDE DEF far
<1>10. \A f \in Names :
         /\ Len(stable'[f]) = dir'[f].size
         /\ dir'[f].cluster # c =>
              stable'[f] = BytesOf(fat', data', dir'[f].cluster, dir'[f].size)
         /\ dir'[f].cluster = c =>
              Kept(fat', data', c, dir'[f].size, stable'[f], pos, far)
  BY <1>4, <1>5, <1>6
<1> QED
  BY <1>4, <1>7, <1>8, <1>9, <1>10 DEF WritesOK

LEMMA WriteBeginOK ==
  ASSUME StoreInv, NEW d \in FdArgs, NEW p \in Payloads, WriteBegin(d, p)
  PROVE  WritesOK'
<1>1. /\ pc = "idle" /\ d \in FdTable /\ fds[d] # Closed
      /\ pc' = "wseek" /\ fd' = d /\ buf' = p /\ stable' = Contents
      /\ UNCHANGED <<fat, data, dir, fds, written>>
  BY DEF WriteBegin, IsOpen, disk
<1>2. TypeOK /\ LoopInv
  BY DEF StoreInv, FilesInv, RoomInv, Inv
<1>3. written = 0
  BY <1>1, <1>2 DEF LoopInv
<1>4. fat \in FatType /\ data \in DataType
  BY <1>2 DEF TypeOK, FatType, DataType
<1>5. \A f \in Names : /\ dir[f].size \in Nat /\ dir[f].cluster \in Table
                       /\ dir[f].size <= Room(fat, dir[f].cluster)
  BY <1>2 DEF TypeOK, StoreInv, FilesInv, Backed
<1>6. \A f \in Names :
        /\ Contents[f] = BytesOf(fat, data, dir[f].cluster, dir[f].size)
        /\ Contents[f] \in Seq(Bytes) /\ Len(Contents[f]) = dir[f].size
        /\ \A i \in 1 .. dir[f].size :
             Contents[f][i] = ByteAt(fat, data, dir[f].cluster, i - 1)
  <2> SUFFICES ASSUME NEW f \in Names
               PROVE  /\ Contents[f] = BytesOf(fat, data, dir[f].cluster, dir[f].size)
                      /\ Contents[f] \in Seq(Bytes) /\ Len(Contents[f]) = dir[f].size
                      /\ \A i \in 1 .. dir[f].size :
                           Contents[f][i] = ByteAt(fat, data, dir[f].cluster, i - 1)
    OBVIOUS
  <2>1. Contents[f] = BytesOf(fat, data, dir[f].cluster, dir[f].size)
    BY ContentIs DEF Contents
  <2> QED
    BY <1>4, <1>5, <2>1, BytesType
<1>7. Contents \in [Names -> Seq(Bytes)]
  BY <1>6 DEF Contents
<1>8. fds[d].position \in Nat
  BY <1>1, <1>2 DEF TypeOK, Descriptor
<1>9. ASSUME NEW f \in Names, dir[f].cluster = fds[d].cluster, NEW lo \in Nat, NEW hi
      PROVE  Kept(fat, data, fds[d].cluster, dir[f].size, Contents[f], lo, hi)
  <2> SUFFICES ASSUME NEW i \in Nat, i < dir[f].size
               PROVE  ByteAt(fat, data, fds[d].cluster, i) = Contents[f][i + 1]
    BY DEF Kept
  <2> DEFINE k == i + 1
  <2>1. k \in 1 .. dir[f].size /\ k - 1 = i
    BY <1>5
  <2> HIDE DEF k
  <2>2. Contents[f][k] = ByteAt(fat, data, dir[f].cluster, k - 1)
    BY <1>6, <2>1
  <2> QED
    BY <1>9, <2>1, <2>2 DEF k
<1>10. Put(fat, data, fds[d].cluster, fds[d].position, p, 0)
  BY DEF Put
<1> HIDE DEF Contents
<1> QED
  BY <1>1, <1>3, <1>6, <1>7, <1>8, <1>9, <1>10 DEF WritesOK

-----------------------------------------------------------------------------
(* Offset o of a cluster is in one of its sectors.                         *)
LEMMA SectorOf ==
  ASSUME NEW o \in Offs
  PROVE  o \div SectorSize \in 0 .. (SectorsPerCluster - 1)
<1> DEFINE q == o \div SectorSize
           s == SectorSize
           n == SectorsPerCluster
<1>1. s \in Nat \ {0} /\ n \in Nat \ {0} /\ o \in Nat /\ o < n * s
  BY GeometryAssumption DEF Offs, ClusterSize
<1>2. q \in Nat /\ o % s \in 0 .. (s - 1) /\ o = s * q + (o % s)
  BY <1>1, Multiples
<1>3. n <= q => s * n <= s * q
  BY <1>1, <1>2, ProductGrows
<1>4. s * n = n * s /\ n * s \in Nat /\ s * q \in Nat
  BY <1>1, <1>2
<1> DEFINE a == n * s
           b == s * q
           r == o % s
<1>5. o < a /\ o = b + r /\ r \in 0 .. (s - 1) /\ a \in Nat /\ b \in Nat
      /\ (n <= q => a <= b)
  BY <1>1, <1>2, <1>3, <1>4
<1> HIDE DEF a, b, r, q, s, n
<1>6. ~ (n <= q)
  BY <1>1, <1>2, <1>5
<1> QED
  BY <1>1, <1>2, <1>6 DEF q, n

(* The byte of a file at offset o of place n, and of cluster x at o.       *)
InPlace(n, o) == StartOf(n) + o

ByteIn(b, x, o) == b[x][o]

LEMMA ByteHere ==
  ASSUME NEW t, NEW b, NEW c, NEW n \in Nat, NEW o \in Offs, InPlace(n, o) \in Nat
  PROVE  ByteAt(t, b, c, InPlace(n, o)) = ByteIn(b, ChainOf(t, c)[n], o)
<1> DEFINE i == InPlace(n, o)
<1>1. ClusterSize * n \in Nat /\ ClusterSize \in Nat /\ o \in Nat /\ o < ClusterSize
  BY NextPlace, ClusterSizeType DEF Offs
<1>2. i = ClusterSize * n + o /\ i \in Nat
  BY DEF StartOf, InPlace
<1> HIDE DEF i
<1> DEFINE here == ClusterSize * n
<1>3. here <= i /\ i < here + ClusterSize /\ i - here = o
  <2> HIDE DEF here
  <2>1. here \in Nat /\ i = here + o
    BY <1>1, <1>2 DEF here
  <2> QED
    BY <1>1, <2>1
<1>4. i \div ClusterSize = n /\ i % ClusterSize = i - here
  BY <1>2, <1>3, PlaceIs
<1> DEFINE q == i \div ClusterSize
           r == i % ClusterSize
<1>5. ByteAt(t, b, c, i) = b[ChainOf(t, c)[q]][r]
  BY DEF ByteAt
<1>6. q = n /\ r = o
  BY <1>3, <1>4
<1> HIDE DEF q, r
<1> QED
  BY <1>5, <1>6 DEF i, ByteIn

(* A byte of a chain keeps its value when the one cluster written keeps it *)
(* at that offset.                                                         *)
LEMMA ByteKept ==
  ASSUME NEW t \in FatType, NEW heads, Apart(t, heads), NEW c \in heads, c \in Table,
         NEW n \in Places(t, c), NEW b, NEW d, SameBut(b, d, ChainOf(t, c)[n]),
         NEW i \in Nat, i \div ClusterSize \in Places(t, c),
         \A o \in Offs : i = StartOf(n) + o =>
           d[ChainOf(t, c)[n]][o] = b[ChainOf(t, c)[n]][o]
  PROVE  ByteAt(t, d, c, i) = ByteAt(t, b, c, i)
<1> DEFINE q == i \div ClusterSize
           o == i % ClusterSize
           x == ChainOf(t, c)[n]
           y == ChainOf(t, c)[q]
<1>0. LastEntry \in Nat
  BY GeometryAssumption
<1>1. /\ q \in 0 .. LastEntry /\ n \in 0 .. LastEntry
      /\ y # None /\ x # None /\ y \in Table
  <2>1. q \in 0 .. LastEntry /\ n \in 0 .. LastEntry /\ y # None /\ x # None
    BY DEF Places
  <2> QED
    BY <2>1, ChainSteps
<1>2. o \in Offs /\ i = StartOf(q) + o
  BY PlaceOf DEF StartOf
<1>3. ByteAt(t, d, c, i) = d[y][o] /\ ByteAt(t, b, c, i) = b[y][o]
  BY DEF ByteAt
<1> HIDE DEF q, o
<1>4. q # n => y # x
  <2>1. CASE q < n
    BY <1>0, <1>1, <2>1, ChainIsSimple
  <2>2. CASE n < q
    BY <1>0, <1>1, <2>2, ChainIsSimple
  <2> QED
    BY <1>0, <1>1, <2>1, <2>2
<1>5. d[y][o] = b[y][o]
  <2>1. CASE y = x
    BY <1>2, <1>4, <2>1
  <2>2. CASE y # x
    BY <1>1, <2>2 DEF SameBut
  <2> QED
    BY <2>1, <2>2
<1> QED
  BY <1>3, <1>5

(* Where the sector written lies in the file.                              *)
LEMMA SectorPlace ==
  ASSUME StoreInv, WriteSector
  PROVE  /\ WriteOffset \in Offs /\ WriteSize \in Nat \ {0}
         /\ WriteOffset + WriteSize <= ClusterSize /\ written + WriteSize <= Len(buf)
         /\ \E n \in Places(fat, fds[fd].cluster) :
              /\ n \in Nat /\ ChainOf(fat, fds[fd].cluster)[n] = cur
              /\ StartOf(n) \in Nat
              /\ StartOf(n) + WriteOffset = fds[fd].position + written
              /\ written > 0 => StartOf(n) = fds[fd].position + written
<1> DEFINE c == fds[fd].cluster
           pos == fds[fd].position
<1>1. pc \in Writing /\ pc = "wsector"
  BY DEF WriteSector, Writing
<1>2. /\ RoomInv /\ TypeOK /\ LoopInv /\ written \in Nat /\ pos \in Nat /\ start \in Nat
      /\ cur \in Table /\ Len(buf) \in Nat /\ written < Len(buf) /\ WriteOffset \in Offs
  <2>1. RoomInv
    BY DEF StoreInv, FilesInv
  <2>2. TypeOK /\ LoopInv /\ pos \in Nat /\ written \in Nat /\ start \in Nat
    BY <1>1, <2>1, WritingChain DEF Inv
  <2> QED
    BY <1>1, <2>1, <2>2 DEF TypeOK, LoopInv
<1>3. PICK n \in 0 .. LastEntry : Walked(n)
  BY <1>1, <1>2, WritingChain
<1>4. n \in Nat /\ n \in Places(fat, c) /\ ChainOf(fat, c)[n] = cur
  BY <1>2, <1>3, TableFacts, GeometryAssumption DEF Walked, Places, None
<1>5. StartOf(n) \in Nat
  BY <1>4, NextPlace DEF StartOf
<1>6. /\ written = 0 => start = StartOf(n)
      /\ written > 0 => pos + written = StartOf(n)
  BY <1>1, <1>3 DEF Walked, StartOf
<1> DEFINE here == StartOf(n)
<1> HIDE DEF here
<1>7. here + WriteOffset = pos + written
  <2>1. CASE written = 0
    BY <1>2, <1>5, <1>6, <2>1 DEF WriteOffset, here
  <2>2. CASE written # 0
    BY <1>2, <1>5, <1>6, <2>2 DEF WriteOffset, here
  <2> QED
    BY <2>1, <2>2
<1>8. /\ WriteSize \in Nat \ {0} /\ WriteOffset + WriteSize <= ClusterSize
      /\ written + WriteSize <= Len(buf)
  <2> DEFINE o == WriteOffset
             w == WriteSize
  <2>1. w = Smaller(Len(buf) - written, ClusterSize - o) /\ o \in Offs
    BY <1>2 DEF WriteSize
  <2> HIDE DEF o, w
  <2>2. /\ w \in Nat \ {0} /\ o + w <= ClusterSize /\ written + w <= Len(buf)
    BY <1>2, <2>1, ClusterSizeType DEF Smaller, Offs
  <2> QED
    BY <2>2 DEF o, w
<1> QED
  BY <1>2, <1>4, <1>5, <1>6, <1>7, <1>8 DEF here

LEMMA WriteSectorOK ==
  ASSUME StoreInv, WriteSector
  PROVE  WritesOK'
<1> DEFINE c == fds[fd].cluster
           pos == fds[fd].position
           W == WriteOffset
           size == WriteSize
           far == pos + (written + size)
<1>1. /\ pc \in Writing /\ pc = "wsector" /\ written' \in {written, written + size}
      /\ UNCHANGED <<fat, dir, fds, fd, buf, cur, start, stable>>
  BY DEF WriteSector, Writing
<1>2. /\ fat \in FatType /\ data \in DataType /\ c \in Table /\ pos \in Nat
      /\ written \in Nat /\ buf \in Seq(Bytes) /\ Len(buf) \in Nat
      /\ \A f \in Names : /\ dir[f].size \in Nat /\ dir[f].cluster \in Table
                          /\ dir[f].size <= Room(fat, dir[f].cluster)
  BY <1>1, WritingFile
<1>3. RoomInv /\ Apart(fat, Heads) /\ c \in Heads /\ cur \in Table /\ sector \in Nat
      /\ \A f \in Names : dir[f].cluster \in Heads
  BY <1>1, WritingChain, GeometryAssumption, SMTT(30) DEF StoreInv, FilesInv, TypeOK, Heads
<1>4. /\ W \in Offs /\ size \in Nat \ {0} /\ W + size <= ClusterSize
      /\ written + size <= Len(buf) /\ W \in Nat
  BY SectorPlace DEF Offs
<1>5. PICK n \in Places(fat, c) :
        /\ n \in Nat /\ ChainOf(fat, c)[n] = cur /\ StartOf(n) \in Nat
        /\ StartOf(n) + W = pos + written
        /\ written > 0 => StartOf(n) = pos + written
  BY SectorPlace
<1> DEFINE here == StartOf(n)
<1>6. /\ \A e \in Table : e # cur => data'[e] = data[e]
      /\ \A o \in Offs :
           data'[cur][o] = IF o \div SectorSize = sector /\ o >= W /\ o < W + size
                           THEN buf[written + 1 + o - W] ELSE data[cur][o]
  BY <1>2, <1>3 DEF WriteSector, InSector, Covered, DataType
<1> HIDE DEF W, size, c, pos, here
<1>7. SameBut(data, data', ChainOf(fat, c)[n])
  BY <1>5, <1>6 DEF SameBut
<1>8. /\ buf \in Payloads /\ stable \in [Names -> Seq(Bytes)]
      /\ \A f \in Names :
           /\ Len(stable[f]) = dir[f].size
           /\ dir[f].cluster # c => stable[f] = BytesOf(fat, data, dir[f].cluster, dir[f].size)
           /\ dir[f].cluster = c => Kept(fat, data, c, dir[f].size, stable[f], pos, far)
      /\ Put(fat, data, c, pos, buf, written)
      /\ \A o \in Offs : o \div SectorSize < sector /\ o >= W /\ o < W + size =>
           data[cur][o] = buf[written + 1 + o - W]
  BY <1>1 DEF StoreInv, WritesOK, Reach, Covered, c, pos, W, size
<1>9. ASSUME NEW f \in Names, dir[f].cluster # c
      PROVE  stable[f] = BytesOf(fat, data', dir[f].cluster, dir[f].size)
  <2>1. BytesOf(fat, data', dir[f].cluster, dir[f].size)
          = BytesOf(fat, data, dir[f].cluster, dir[f].size)
    BY <1>2, <1>3, <1>7, <1>9, OthersKeepBytes
  <2> QED
    BY <1>8, <1>9, <2>1
<1>10. \A o \in Offs : o \in Nat /\ here + o < pos => o < W
  BY <1>2, <1>4, <1>5 DEF Offs, here
<1>11. ASSUME NEW i \in Nat, i \div ClusterSize \in Places(fat, c),
              i < pos + written \/ i >= far
       PROVE  ByteAt(fat, data', c, i) = ByteAt(fat, data, c, i)
  <2>1. ASSUME NEW o \in Offs, i = StartOf(n) + o
        PROVE  data'[ChainOf(fat, c)[n]][o] = data[ChainOf(fat, c)[n]][o]
    <3>1. ~ (o >= W /\ o < W + size)
      BY <1>2, <1>4, <1>5, <1>11, <2>1 DEF Offs
    <3> QED
      BY <1>5, <1>6, <3>1
  <2> DEFINE d == data'
             heads == Heads
  <2> HIDE DEF d, heads
  <2>2. /\ fat \in FatType /\ Apart(fat, heads) /\ c \in heads /\ c \in Table
        /\ n \in Places(fat, c) /\ SameBut(data, d, ChainOf(fat, c)[n])
        /\ i \in Nat /\ i \div ClusterSize \in Places(fat, c)
    BY <1>2, <1>3, <1>5, <1>7, <1>11 DEF d, heads
  <2>3. \A o \in Offs : i = StartOf(n) + o =>
           d[ChainOf(fat, c)[n]][o] = data[ChainOf(fat, c)[n]][o]
    BY <2>1 DEF d
  <2>4. ByteAt(fat, d, c, i) = ByteAt(fat, data, c, i)
    BY ONLY <2>2, <2>3, ByteKept, ZenonT(60)
  <2> QED
    BY <2>4 DEF d
<1>12. ASSUME NEW f \in Names, dir[f].cluster = c
       PROVE  Kept(fat, data', c, dir[f].size, stable[f], pos, far)
  <2> SUFFICES ASSUME NEW i \in Nat, i < dir[f].size, i < pos \/ i >= far
               PROVE  ByteAt(fat, data', c, i) = stable[f][i + 1]
    BY DEF Kept
  <2>1. ByteAt(fat, data, c, i) = stable[f][i + 1]
    BY <1>8, <1>12 DEF Kept
  <2>2. i < Room(fat, c)
    BY <1>2, <1>12, RoomType
  <2>3. i \div ClusterSize \in Places(fat, c)
    BY <1>2, <2>2, PlaceInRoom
  <2>4. i < pos + written \/ i >= far
    BY <1>2
  <2> QED
    BY <1>11, <2>1, <2>3, <2>4
<1>13. Put(fat, data', c, pos, buf, written)
  <2> SUFFICES ASSUME NEW j \in 1 .. written
               PROVE  ByteAt(fat, data', c, pos + j - 1) = buf[j]
    BY DEF Put
  <2> DEFINE i == pos + j - 1
  <2>1. i \in Nat /\ i >= pos /\ i < pos + written
    BY <1>2
  <2>2. ByteAt(fat, data, c, i) = buf[j]
    BY <1>8 DEF Put
  <2> HIDE DEF i
  <2>3. i \div ClusterSize \in Places(fat, c)
    BY <1>1, <1>3, <2>1, WrittenPlaces DEF c, pos
  <2>4. ByteAt(fat, data', c, i) = ByteAt(fat, data, c, i)
    BY <1>11, <2>1, <2>3
  <2> QED
    BY <2>2, <2>4 DEF i
<1>14. \A o \in Offs : o \div SectorSize < sector + 1 /\ o >= W /\ o < W + size =>
         data'[cur][o] = buf[written + 1 + o - W]
  <2> SUFFICES ASSUME NEW o \in Offs, o \div SectorSize < sector + 1, o >= W, o < W + size
               PROVE  data'[cur][o] = buf[written + 1 + o - W]
    OBVIOUS
  <2> DEFINE s == o \div SectorSize
  <2>1. s \in Nat
    BY SectorOf, GeometryAssumption
  <2> HIDE DEF s
  <2>2. s < sector \/ s = sector
    BY <1>3, <2>1 DEF s
  <2> QED
    BY <1>6, <1>8, <2>2 DEF s
<1>15. \A f \in Names :
         /\ Len(stable'[f]) = dir'[f].size
         /\ dir'[f].cluster # c =>
              stable'[f] = BytesOf(fat', data', dir'[f].cluster, dir'[f].size)
         /\ dir'[f].cluster = c =>
              Kept(fat', data', c, dir'[f].size, stable'[f], pos, far)
  BY <1>1, <1>8, <1>9, <1>12
<1>16. /\ buf' \in Payloads /\ stable' \in [Names -> Seq(Bytes)]
       /\ fds[fd].cluster' = c /\ fds[fd].position' = pos
  BY <1>1, <1>8 DEF c, pos
<1>17. CASE sector' = sector + 1 /\ pc' = pc /\ written' = written
  <2>1. WriteOffset' = W /\ WriteSize' = size /\ (written + WriteSize)' = written + size
    BY <1>1, <1>17 DEF WriteOffset, WriteSize, W, size
  <2>2. fds[fd].position' + Reach' = far
    BY <1>1, <1>16, <1>17, <2>1 DEF Reach
  <2>3. \A o : Covered(o)' <=> o >= W /\ o < W + size
    BY <2>1 DEF Covered
  <2> HIDE DEF far
  <2>4. Put(fat', data', c, pos, buf', written')
    BY <1>1, <1>13, <1>17
  <2>5. \A o \in Offs : o \div SectorSize < sector' /\ Covered(o)' =>
           data'[cur'][o] = buf'[written' + 1 + o - WriteOffset']
    BY <1>1, <1>14, <1>17, <2>1, <2>3
  <2> QED
    BY <1>15, <1>16, <2>2, <2>4, <2>5 DEF WritesOK
<1>18. CASE /\ ~ (sector + 1 < SectorsPerCluster)
            /\ written' = written + size /\ pc' # "wsector"
  <2>1. fds[fd].position' + Reach' = far
    BY <1>16, <1>18 DEF Reach
  <2>2. ASSUME NEW j \in 1 .. written + size
        PROVE  ByteAt(fat, data', c, pos + j - 1) = buf[j]
    <3>1. CASE j <= written
      BY <1>2, <1>4, <1>13, <3>1 DEF Put
    <3>2. CASE j > written
      <4> DEFINE i == pos + j - 1
                 o == W + (j - 1 - written)
      <4>1. /\ o \in Offs /\ o >= W /\ o < W + size /\ written + 1 + o - W = j
            /\ i \in Nat /\ i = StartOf(n) + o
        BY <1>2, <1>4, <1>5, <3>2, ClusterSizeType, SMTT(30) DEF Offs
      <4> HIDE DEF i, o
      <4>2. o \div SectorSize < sector + 1
        <5>1. o \div SectorSize \in 0 .. (SectorsPerCluster - 1)
          BY <4>1, SectorOf
        <5> DEFINE s == o \div SectorSize
        <5> HIDE DEF s
        <5>2. s \in 0 .. (SectorsPerCluster - 1)
          BY <5>1 DEF s
        <5>3. s < sector + 1
          BY <1>3, <1>18, <5>2, GeometryAssumption
        <5> QED
          BY <5>3 DEF s
      <4>3. data'[cur][o] = buf[written + 1 + o - W]
        BY <1>14, <4>1, <4>2
      <4>4. ByteAt(fat, data', c, i) = data'[cur][o]
        <5> DEFINE d == data'
        <5> HIDE DEF d
        <5>1. n \in Nat /\ o \in Offs /\ i \in Nat /\ i = StartOf(n) + o
          BY <1>5, <4>1
        <5>2. i = InPlace(n, o)
          BY <5>1 DEF InPlace
        <5>3. ByteAt(fat, d, c, InPlace(n, o)) = ByteIn(d, ChainOf(fat, c)[n], o)
          <6>1. InPlace(n, o) \in Nat
            BY <5>1, <5>2
          <6> QED
            BY ONLY <5>1, <6>1, ByteHere
        <5> QED
          BY <1>5, <5>2, <5>3 DEF d, ByteIn
      <4> QED
        BY <4>1, <4>3, <4>4 DEF i
    <3> QED
      BY <1>2, <1>4, <3>1, <3>2
  <2> HIDE DEF far
  <2>3. Put(fat', data', c, pos, buf', written')
    BY <1>1, <1>18, <2>2 DEF Put
  <2> QED
    BY <1>15, <1>16, <1>18, <2>1, <2>3 DEF WritesOK
<1>19. \/ sector' = sector + 1 /\ pc' = pc /\ written' = written
       \/ /\ ~ (sector + 1 < SectorsPerCluster)
          /\ written' = written + size /\ pc' # "wsector"
  BY DEF WriteSector, size
<1> QED
  BY <1>17, <1>18, <1>19

LEMMA NextWrites ==
  ASSUME StoreInv, [Next]_vars
  PROVE  WritesOK'
<1>0. RoomInv /\ Inv /\ TypeOK /\ LoopInv /\ Inv'
  BY NextInv DEF StoreInv, FilesInv, RoomInv, Inv
<1>1. CASE UNCHANGED vars
  <2>1. UNCHANGED <<pc, fat, data, dir, fds, fd, buf, cur, start, written, sector, stable>>
    BY <1>1 DEF vars, disk, locals
  <2>2. Reach' = Reach /\ WriteOffset' = WriteOffset /\ \A o : Covered(o)' <=> Covered(o)
    BY <2>1 DEF Reach, WriteOffset, WriteSize, Covered
  <2> QED
    BY <2>1, <2>2 DEF StoreInv, WritesOK
<1>2. CASE WriteSector
  BY <1>2, WriteSectorOK
<1>3. ASSUME NEW d \in FdArgs, NEW p \in Payloads, WriteBegin(d, p) PROVE WritesOK'
  BY <1>3, WriteBeginOK
<1>4. CASE WriteSeek \/ WriteSeekDone \/ AllocCluster \/ LinkCluster \/ TerminateChain
             \/ NextCluster \/ DiskFull
  <2>1. /\ pc \in Writing /\ pc' \in Writing /\ pc # "wsector" /\ sector' = sector
        /\ pc \in {"wseek", "wlink", "wterminate", "wmore"}
        /\ UNCHANGED <<data, dir, fds, fd, buf, stable, written>>
    BY <1>4 DEF WriteSeek, WriteSeekDone, AllocCluster, AtChainEnd, LinkCluster,
         TerminateChain, NextCluster, DiskFull, disk, locals, Writing
  <2>2. sector = 0
    BY <1>0, <2>1 DEF LoopInv
  <2>3. fat' \in FatType /\ Extends(fat, fat')
    BY <1>0, TableGrows
  <2> QED
    BY <1>0, <2>1, <2>2, <2>3, BetweenClusters
<1>5. CASE /\ Calls
           /\ ~ \E d \in FdArgs, p \in Payloads : WriteBegin(d, p)
  <2>1. pc' \notin Writing
    BY <1>5 DEF Calls, Open, OpenFails, Close, Fstat, Lseek, ReadNow, ReadBegin,
         WriteNow, Answer, Writing
  <2> QED
    BY <2>1 DEF WritesOK
<1>6. CASE ReadSeek \/ ReadCluster \/ ReadDone \/ GapDiskFull \/ WriteDone \/ Crash
  <2>1. pc' \notin Writing
    BY <1>6 DEF ReadSeek, ReadCluster, ReadDone, GapDiskFull, WriteDone, Crash, Writing
  <2> QED
    BY <2>1 DEF WritesOK
<1> QED
  BY <1>1, <1>2, <1>3, <1>4, <1>5, <1>6 DEF Next, Step

LEMMA NextStore ==
  ASSUME StoreInv, [Next]_vars, ~ SharedOpens, MaxCrashes = 0 \/ ~ WriteAfterCrash
  PROVE  StoreInv'
<1>1. RoomInv'
  BY NextRoom DEF StoreInv, FilesInv
<1>2. Backed(fat', dir') /\ FdsOK(dir', fds')
  BY NextBacked, NextFds DEF StoreInv, FilesInv
<1>3. ReadsOK' /\ WritesOK'
  BY NextReads, NextWrites DEF StoreInv
<1>4. Backed(fat, dir)' <=> Backed(fat', dir')
  BY DEF Backed
<1>5. FdsOK(dir, fds)' <=> FdsOK(dir', fds')
  BY DEF FdsOK, Distinct
<1> QED
  BY <1>1, <1>2, <1>3, <1>4, <1>5 DEF StoreInv, FilesInv

LEMMA InitStore ==
  ASSUME Init, SizeBacked, Distinct(FormattedDir)
  PROVE  StoreInv
<1>1. RoomInv /\ Backed(fat, dir)
  BY InitRoom, BackedIs
<1>2. FdsOK(dir, fds) /\ pc = "idle"
  BY DEF Init, FdsOK
<1>3. ReadsOK /\ WritesOK
  BY <1>2 DEF ReadsOK, WritesOK, Reading, Writing
<1> QED
  BY <1>1, <1>2, <1>3 DEF StoreInv, FilesInv

-----------------------------------------------------------------------------
(* The files as the disk has them. *)
Told(t, b, sizes) == [f \in Names |-> BytesOf(t, b, sizes[f].cluster, sizes[f].size)]

LEMMA ContentsAre == Contents = Told(fat, data, dir)
  BY ContentIs DEF Contents, Told

LEMMA BarIs == ContentBar = IF pc \in Writing THEN stable ELSE Told(fat, data, dir)
  BY ContentsAre DEF ContentBar

LEMMA BarWillBe ==
  /\ Contents' = Told(fat', data', dir')
  /\ ContentBar' = IF pc' \in Writing THEN stable' ELSE Told(fat', data', dir')
<1>1. Contents' = Told(fat', data', dir')
  BY DEF Contents, Content, Told, BytesOf, ByteAt, ClusterAt, ChainOf, Along,
         next_cluster, Follow
<1> QED
  BY <1>1 DEF ContentBar

LEMMA OpenStays == ASSUME UNCHANGED <<dir, fds>> PROVE OpenBar' = OpenBar
  BY OpenIs, OpenWillBe

LEMMA BarStays ==
  ASSUME UNCHANGED <<fat, data, dir, stable>>, pc \in Writing <=> pc' \in Writing
  PROVE  ContentBar' = ContentBar
  BY BarIs, BarWillBe

(* Each file is what its chain holds, and as long as its entry says.       *)
LEMMA ToldType ==
  ASSUME StoreInv, NEW f \in Names
  PROVE  /\ Told(fat, data, dir)[f] \in Seq(Bytes)
         /\ Len(Told(fat, data, dir)[f]) = dir[f].size /\ dir[f].size \in Nat
         /\ \A i \in 1 .. dir[f].size :
              Told(fat, data, dir)[f][i] = ByteAt(fat, data, dir[f].cluster, i - 1)
<1>1. fat \in FatType /\ data \in DataType
      /\ dir[f].size \in Nat /\ dir[f].cluster \in Table
  BY DEF StoreInv, FilesInv, RoomInv, Inv, TypeOK, FatType, DataType
<1>2. dir[f].size <= Room(fat, dir[f].cluster)
  BY DEF StoreInv, FilesInv, Backed
<1>3. Told(fat, data, dir)[f] = BytesOf(fat, data, dir[f].cluster, dir[f].size)
  BY DEF Told
<1> QED
  BY <1>1, <1>2, <1>3, BytesType

(* What the abstract store has for an open descriptor.                     *)
LEMMA OpenFile ==
  ASSUME StoreInv, NEW d \in FdTable, fds[d] # Closed
  PROVE  /\ d \in 3 .. MaxFd /\ OpenBar[d] # Closed
         /\ fds[d].position \in Nat /\ fds[d].file_size \in Nat /\ fds[d].cluster \in Table
         /\ \E f \in Names :
              /\ OpenBar[d] = [file |-> f, position |-> fds[d].position]
              /\ OpenBar[d].file = f /\ OpenBar[d].position = fds[d].position
              /\ fds[d].cluster = dir[f].cluster /\ fds[d].file_size = dir[f].size
<1>1. /\ d \in 3 .. MaxFd
      /\ fds[d].position \in Nat /\ fds[d].file_size \in Nat /\ fds[d].cluster \in Table
  BY DescriptorFile DEF StoreInv, FilesInv
<1>2. PICK f \in Names : /\ fds[d].cluster = dir[f].cluster
                         /\ fds[d].file_size = dir[f].size
                         /\ FileWith(dir, fds[d].cluster) = f
  BY DescriptorFile DEF StoreInv, FilesInv
<1>3. OpenBar[d] = [file |-> f, position |-> fds[d].position]
  BY <1>1, <1>2, OpenIs DEF OpenOf
<1>4. f \in Nat
  BY DiskAssumption DEF Names
<1>5. OpenBar[d] # Closed
  BY <1>1, <1>3, <1>4, ClosedAssumption
<1> QED
  BY <1>1, <1>2, <1>3, <1>5

(* The calls that fail.                                                    *)
LEMMA RefuseStep ==
  ASSUME StoreInv,
         \/ OpenFails \/ GapDiskFull
         \/ \E d \in FdArgs : Close(d) /\ d \notin 3 .. MaxFd
         \/ \E d \in FdArgs : Fstat(d) /\ ~ IsOpen(d)
         \/ \E d \in FdArgs, o \in Offsets, w \in 0 .. 3 : Lseek(d, o, w) /\ fds' = fds
                                                          /\ reply' = Failed
         \/ \E d \in FdArgs, k \in ReadSizes : ReadNow(d, k) /\ reply' = Failed
         \/ \E d \in FdArgs, p \in Payloads : WriteNow(d, p)
  PROVE  Store!Refuse
<1>1. UNCHANGED <<fat, data, dir, fds>> /\ reply' = Failed
  BY DEF OpenFails, GapDiskFull, Close, Fstat, Lseek, ReadNow, WriteNow, Answer, disk
<1>2. CASE ~ GapDiskFull
  <2>1. pc' = pc /\ stable' = stable
    BY <1>2 DEF OpenFails, Close, Fstat, Lseek, ReadNow, WriteNow, Answer
  <2> QED
    BY <1>1, <2>1, OpenStays, BarStays DEF Store!Refuse
<1>3. CASE GapDiskFull
  <2>1. /\ pc \in Writing /\ pc = "wseek" /\ pc' \notin Writing
    BY <1>3 DEF GapDiskFull, Writing
  <2>2. written = 0 /\ Reach = 0 /\ fds[fd].position \in Nat
    BY <2>1, WritingFile DEF StoreInv, FilesInv, RoomInv, Inv, LoopInv, Reach
  <2>3. ASSUME NEW f \in Names PROVE stable[f] = Told(fat, data, dir)[f]
    <3>1. /\ stable[f] \in Seq(Bytes) /\ Len(stable[f]) = dir[f].size
          /\ dir[f].cluster # fds[fd].cluster =>
               stable[f] = BytesOf(fat, data, dir[f].cluster, dir[f].size)
          /\ dir[f].cluster = fds[fd].cluster =>
               Kept(fat, data, fds[fd].cluster, dir[f].size, stable[f],
                    fds[fd].position, fds[fd].position + Reach)
      BY <2>1 DEF StoreInv, WritesOK
    <3>2. CASE dir[f].cluster # fds[fd].cluster
      BY <3>1, <3>2 DEF Told
    <3>3. CASE dir[f].cluster = fds[fd].cluster
      <4> DEFINE told == Told(fat, data, dir)[f]
      <4>1. /\ told \in Seq(Bytes) /\ Len(told) = dir[f].size /\ dir[f].size \in Nat
            /\ \A i \in 1 .. dir[f].size :
                 told[i] = ByteAt(fat, data, dir[f].cluster, i - 1)
        BY ToldType
      <4> HIDE DEF told
      <4>2. ASSUME NEW i \in 1 .. dir[f].size PROVE stable[f][i] = told[i]
        <5> DEFINE k == i - 1
        <5>1. k \in Nat /\ k < dir[f].size /\ k + 1 = i
              /\ (k < fds[fd].position \/ k >= fds[fd].position + Reach)
          BY <2>2, <4>1
        <5> HIDE DEF k
        <5>2. ByteAt(fat, data, fds[fd].cluster, k) = stable[f][k + 1]
          BY <3>1, <3>3, <5>1 DEF Kept
        <5>3. told[i] = ByteAt(fat, data, dir[f].cluster, k)
          BY <4>1 DEF k
        <5> QED
          BY <3>3, <5>1, <5>2, <5>3
      <4>3. stable[f] = told
        BY <3>1, <4>1, <4>2, SMTT(30)
      <4> QED
        BY <4>3 DEF told
    <3> QED
      BY <3>2, <3>3
  <2>4. stable \in [Names -> Seq(Bytes)]
    BY <2>1 DEF StoreInv, WritesOK
  <2>5. stable = Told(fat, data, dir)
    BY <2>3, <2>4 DEF Told
  <2>6. ContentBar' = ContentBar
    BY <1>1, <2>1, <2>5, BarIs, BarWillBe
  <2> QED
    BY <1>1, <2>6, OpenStays DEF Store!Refuse
<1> QED
  BY <1>2, <1>3

LEMMA FdClosed ==
  ASSUME StoreInv
  PROVE  \A d \in 3 .. MaxFd : /\ OpenBar[d] = Closed <=> fds[d] = Closed
                               /\ OpenBar[d] = Closed <=> ~ IsOpen(d)
<1> SUFFICES ASSUME NEW d \in 3 .. MaxFd
             PROVE  /\ OpenBar[d] = Closed <=> fds[d] = Closed
                    /\ OpenBar[d] = Closed <=> ~ IsOpen(d)
  OBVIOUS
<1>1. d \in FdTable
  BY DEF FdTable
<1>2. fds[d] = Closed => OpenBar[d] = Closed
  BY OpenIs DEF OpenOf
<1>3. fds[d] # Closed => OpenBar[d] # Closed
  BY <1>1, OpenFile
<1> QED
  BY <1>1, <1>2, <1>3 DEF IsOpen

(* A step that ends no write and changes no byte and no size.              *)
LEMMA CallKeepsFiles ==
  ASSUME NEW r, Answer(r)
  PROVE  ContentBar' = ContentBar /\ dir' = dir /\ reply' = r /\ pc = "idle"
<1>1. UNCHANGED <<fat, data, dir, pc, stable>> /\ reply' = r /\ pc = "idle"
  BY DEF Answer, disk
<1> QED
  BY <1>1, BarStays

LEMMA OpenStep ==
  ASSUME StoreInv, NEW f \in Names, Open(f)
  PROVE  Store!Open(f)
<1>1. PICK d \in 3 .. MaxFd :
        /\ allocate_fd(d) /\ Answer(Returned(d))
        /\ fds' = [fds EXCEPT ![d] = [cluster |-> dir[f].cluster, position |-> 0,
                                      file_size |-> dir[f].size]]
  BY DEF Open
<1>2. ContentBar' = ContentBar /\ dir' = dir /\ reply' = Store!Returned(d)
  BY <1>1, CallKeepsFiles DEF Returned, Store!Returned
<1>3. /\ OpenBar[d] = Closed
      /\ \A e \in 3 .. MaxFd : OpenBar[e] = Closed => d <= e
  BY <1>1, FdClosed DEF allocate_fd
<1>4. fds \in [FdTable -> Descriptor \union {Closed}] /\ d \in FdTable
      /\ dir \in [Names -> [cluster : Table, size : Nat]]
      /\ \A e \in 3 .. MaxFd : e \in FdTable
  BY DEF StoreInv, FilesInv, RoomInv, Inv, TypeOK, FdTable
<1> DEFINE new_open == [cluster |-> dir[f].cluster, position |-> 0,
                        file_size |-> dir[f].size]
<1>5. new_open \in Descriptor /\ new_open.cluster = dir[f].cluster /\ new_open.position = 0
  BY <1>4 DEF Descriptor
<1>6. fds'[d] = new_open /\ \A e \in 3 .. MaxFd : e # d => fds'[e] = fds[e]
  BY <1>1, <1>4
<1> HIDE DEF new_open
<1>7. FileWith(dir, dir[f].cluster) = f
  BY FileIs DEF StoreInv, FilesInv, FdsOK
<1>8. fds'[d] # Closed
  BY <1>5, <1>6, DescriptorOpen
<1> DEFINE old == OpenOf(dir, fds)
           to == OpenOf(dir, fds')
<1>9. /\ old = [e \in 3 .. MaxFd |-> old[e]] /\ to = [e \in 3 .. MaxFd |-> to[e]]
      /\ \A e \in 3 .. MaxFd : e # d => to[e] = old[e]
  BY <1>6 DEF OpenOf
<1>10. to[d] = [file |-> f, position |-> 0]
  BY <1>5, <1>6, <1>7, <1>8 DEF OpenOf
<1> HIDE DEF old, to
<1>11. to = [old EXCEPT ![d] = [file |-> f, position |-> 0]]
  BY <1>9, <1>10
<1>12. OpenBar' = [OpenBar EXCEPT ![d] = [file |-> f, position |-> 0]]
  BY <1>2, <1>11, OpenIs, OpenWillBe DEF old, to
<1> QED
  BY <1>2, <1>3, <1>12 DEF Store!Open

LEMMA CloseStep ==
  ASSUME StoreInv, NEW d \in 3 .. MaxFd, Close(d)
  PROVE  Store!Close(d)
<1>1. fds' = [fds EXCEPT ![d] = Closed] /\ Answer(Returned(1))
  BY DEF Close
<1>2. ContentBar' = ContentBar /\ dir' = dir /\ reply' = Store!Returned(1)
  BY <1>1, CallKeepsFiles DEF Returned, Store!Returned
<1>3. fds \in [FdTable -> Descriptor \union {Closed}] /\ d \in FdTable
      /\ \A e \in 3 .. MaxFd : e \in FdTable
  BY DEF StoreInv, FilesInv, RoomInv, Inv, TypeOK, FdTable
<1>4. fds'[d] = Closed /\ \A e \in 3 .. MaxFd : e # d => fds'[e] = fds[e]
  BY <1>1, <1>3
<1>5. OpenOf(dir, fds') = [OpenOf(dir, fds) EXCEPT ![d] = Closed]
  BY <1>4 DEF OpenOf
<1>6. OpenBar' = [OpenBar EXCEPT ![d] = Closed]
  BY <1>2, <1>5, OpenIs, OpenWillBe
<1> QED
  BY <1>2, <1>6 DEF Store!Close

LEMMA StatStep ==
  ASSUME StoreInv, NEW d, Fstat(d), IsOpen(d)
  PROVE  Store!Stat(d)
<1>1. Answer(Returned(fds[d].file_size)) /\ fds' = fds /\ d \in FdTable /\ fds[d] # Closed
  BY DEF Fstat, IsOpen
<1>2. /\ ContentBar' = ContentBar /\ dir' = dir /\ pc = "idle"
      /\ reply' = Store!Returned(fds[d].file_size)
  BY <1>1, CallKeepsFiles DEF Returned, Store!Returned
<1>3. PICK f \in Names : OpenBar[d].file = f /\ fds[d].file_size = dir[f].size
  BY <1>1, OpenFile
<1>4. Len(ContentBar[f]) = dir[f].size
  BY <1>2, BarIs, ToldType DEF Writing
<1>5. OpenBar[d] # Closed
  BY <1>1, OpenFile
<1>6. OpenBar' = OpenBar
  BY <1>1, <1>2, OpenStays
<1> QED
  BY <1>2, <1>3, <1>4, <1>5, <1>6 DEF Store!Stat

LEMMA SeekStep ==
  ASSUME StoreInv, NEW d, NEW o \in Offsets, NEW w \in 0 .. 3, Lseek(d, o, w)
  PROVE  \/ Store!Seek(d) /\ d \in 3 .. MaxFd
         \/ fds' = fds /\ reply' = Failed
<1>1. CASE ~ (IsOpen(d) /\ Target(d, o, w) >= 0)
  BY <1>1 DEF Lseek, Answer
<1>2. CASE IsOpen(d) /\ Target(d, o, w) >= 0
  <2> DEFINE place == Target(d, o, w)
  <2>1. /\ d \in FdTable /\ fds[d] # Closed /\ place >= 0 /\ Answer(Returned(place))
        /\ fds' = MovedTo(fds, d, place)
    BY <1>2 DEF Lseek, IsOpen, MovedTo
  <2>2. /\ fds[d].position \in Nat /\ fds[d].file_size \in Nat /\ d \in 3 .. MaxFd
        /\ OpenBar[d] # Closed
    BY <2>1, OpenFile
  <2>3. place \in Nat
    BY <1>2, <2>2, GeometryAssumption, SMTT(30) DEF Target
  <2> HIDE DEF place
  <2>4. /\ ContentBar' = ContentBar /\ dir' = dir
        /\ reply' = Store!Returned(place)
    BY <2>1, CallKeepsFiles DEF Returned, Store!Returned
  <2>5. fds \in [FdTable -> Descriptor \union {Closed}] /\ FdsOK(dir, fds)
    BY DEF StoreInv, FilesInv, RoomInv, Inv, TypeOK
  <2>6. OpenOf(dir, MovedTo(fds, d, place)) = MovedTo(OpenOf(dir, fds), d, place)
    BY <2>1, <2>3, <2>5, FdMoves
  <2>7. OpenBar' = [OpenBar EXCEPT ![d].position = place]
    BY <2>1, <2>4, <2>6, OpenIs, OpenWillBe DEF MovedTo
  <2>8. reply'.ret = place
    BY <2>4 DEF Store!Returned
  <2>9. Store!SeekTo(d, place)
    BY <2>2, <2>4, <2>7 DEF Store!SeekTo
  <2>10. Store!SeekTo(d, reply'.ret)
    BY <2>8, <2>9
  <2>11. reply'.ret \in Nat
    BY <2>3, <2>8
  <2>12. Store!Seek(d)
    BY <2>10, <2>11, Zenon DEF Store!Seek
  <2> QED
    BY <2>2, <2>12
<1> QED
  BY <1>1, <1>2

(* The abstract read's answer, from what was copied.                       *)
LEMMA PartIs ==
  ASSUME NEW all \in Seq(Bytes), NEW s \in Seq(Bytes), NEW pos \in Nat, NEW end \in Nat,
         end = pos + Len(s), end <= Len(all),
         \A j \in 1 .. Len(s) : s[j] = all[pos + j]
  PROVE  SubSeq(all, pos + 1, end) = s
<1> DEFINE m == pos + 1
           len == Len(s)
           part == SubSeq(all, m, end)
<1>1. m \in Int /\ end \in Int /\ len \in Nat /\ m = pos + 1 /\ end = pos + len
  OBVIOUS
<1>2. \A i \in m .. end : all[i] \in Bytes
  OBVIOUS
<1> HIDE DEF m
<1>3. /\ part \in Seq(Bytes) /\ Len(part) = IF m <= end THEN end - m + 1 ELSE 0
      /\ \A i \in 1 .. end - m + 1 : part[i] = all[m + i - 1]
  BY <1>1, <1>2, SubSeqProperties
<1> HIDE DEF part
<1>4. Len(part) = len /\ \A i \in 1 .. len : part[i] = s[i]
  BY <1>1, <1>3
<1>5. part = s
  BY <1>3, <1>4
<1> QED
  BY <1>5 DEF part, m

LEMMA ReadNothingStep ==
  ASSUME StoreInv, NEW d, NEW k \in ReadSizes, ReadNow(d, k)
  PROVE  \/ d \in 3 .. MaxFd /\ Store!Read(d, k)
         \/ reply' = Failed
<1>1. CASE ~ IsOpen(d) \/ k = 0
  BY <1>1 DEF ReadNow, Answer
<1>2. CASE ~ (~ IsOpen(d) \/ k = 0)
  <2>1. /\ IsOpen(d) /\ fds[d].position >= fds[d].file_size
        /\ Answer(ReadBytes(<<>>)) /\ fds' = fds
    BY <1>2 DEF ReadNow
  <2>2. /\ d \in 3 .. MaxFd /\ OpenBar[d] # Closed
        /\ fds[d].position \in Nat /\ fds[d].file_size \in Nat
    BY <2>1, OpenFile DEF IsOpen
  <2>3. PICK f \in Names :
          /\ OpenBar[d] = [file |-> f, position |-> fds[d].position]
          /\ OpenBar[d].file = f /\ OpenBar[d].position = fds[d].position
          /\ fds[d].file_size = dir[f].size
    BY <2>1, OpenFile DEF IsOpen
  <2>4. /\ ContentBar' = ContentBar /\ dir' = dir /\ pc = "idle"
        /\ reply' = ReadBytes(<<>>)
    BY <2>1, CallKeepsFiles
  <2>5. Len(ContentBar[f]) = dir[f].size
    BY <2>4, BarIs, ToldType DEF Writing
  <2> DEFINE pos == fds[d].position
             bytes == ContentBar[f]
             end == Store!Smaller(pos + k, Len(bytes))
             got == SubSeq(bytes, pos + 1, end)
  <2>6. end \in Int /\ end < pos + 1
    BY <2>1, <2>2, <2>3, <2>5, GeometryAssumption DEF Store!Smaller
  <2> HIDE DEF end
  <2>7. got = <<>>
    BY <2>2, <2>6, SubSeqEmpty
  <2> HIDE DEF got
  <2>8. reply' = Store!ReadBytes(got)
    BY <2>4, <2>7 DEF ReadBytes, Store!ReadBytes
  <2>9. OpenBar' = [OpenBar EXCEPT ![d].position = pos + Len(got)]
    <3>1. OpenBar' = OpenBar
      BY <2>1, <2>4, OpenStays
    <3>2. pos + Len(got) = pos
      BY <2>2, <2>7
    <3>3. OpenBar = [e \in 3 .. MaxFd |-> OpenBar[e]]
      BY OpenIs DEF OpenOf
    <3>4. [OpenBar[d] EXCEPT !.position = pos] = OpenBar[d]
      BY <2>3
    <3> QED
      BY <3>1, <3>2, <3>3, <3>4
  <2> QED
    BY <2>2, <2>3, <2>4, <2>8, <2>9 DEF Store!Read, got, end
<1> QED
  BY <1>1, <1>2

LEMMA ReadDoneStep ==
  ASSUME StoreInv, ReadDone
  PROVE  fd \in 3 .. MaxFd /\ \E k \in ReadSizes : Store!Read(fd, k)
<1> DEFINE c == fds[fd].cluster
           pos == fds[fd].position
           size == fds[fd].file_size
<1>1. /\ pc = "rdone" /\ pc \in Reading /\ pc \notin Writing /\ pc' \notin Writing
      /\ UNCHANGED <<fat, data, dir>> /\ reply' = ReadBytes(buf)
      /\ fds' = MovedTo(fds, fd, pos + Len(buf))
  BY DEF ReadDone, disk, Reading, Writing, MovedTo
<1>2. /\ fd \in FdTable /\ fds[fd] # Closed /\ buf \in Seq(Bytes) /\ Len(buf) \in Nat
      /\ want \in Nat /\ want <= size - pos
  BY <1>1, ReadingFile DEF StoreInv
<1>3. /\ pos < size /\ Copied(fat, data, c, pos, buf) /\ Len(buf) = want
      /\ \E k \in ReadSizes : want = Smaller(k, size - pos)
  BY <1>1 DEF StoreInv, FilesInv, ReadsOK
<1>4. PICK k \in ReadSizes : want = Smaller(k, size - pos)
  BY <1>3
<1>5. /\ fd \in 3 .. MaxFd /\ OpenBar[fd] # Closed /\ pos \in Nat /\ size \in Nat
  BY <1>2, OpenFile
<1>6. PICK f \in Names :
        /\ OpenBar[fd].file = f /\ OpenBar[fd].position = pos
        /\ c = dir[f].cluster /\ size = dir[f].size
  BY <1>2, OpenFile
<1> DEFINE all == ContentBar[f]
           end == Store!Smaller(pos + k, Len(all))
<1>7. /\ all \in Seq(Bytes) /\ Len(all) = size
      /\ \A i \in 1 .. size : all[i] = ByteAt(fat, data, c, i - 1)
  BY <1>1, <1>6, BarIs, ToldType
<1>8. ContentBar' = ContentBar
  BY <1>1, BarIs, BarWillBe
<1> HIDE DEF c, pos, size, all
<1>9. end = pos + Len(buf) /\ end \in Nat /\ end <= Len(all)
  BY <1>2, <1>3, <1>4, <1>5, <1>7, GeometryAssumption DEF Store!Smaller, Smaller
<1> HIDE DEF end
<1>10. ASSUME NEW j \in 1 .. Len(buf) PROVE buf[j] = all[pos + j]
  <2> DEFINE i == pos + j
  <2>1. i \in 1 .. size /\ i - 1 = pos + j - 1
    BY <1>2, <1>3, <1>5
  <2>2. buf[j] = ByteAt(fat, data, c, pos + j - 1)
    BY <1>3 DEF Copied
  <2> HIDE DEF i
  <2>3. all[i] = ByteAt(fat, data, c, i - 1)
    BY <1>7, <2>1
  <2> QED
    BY <2>1, <2>2, <2>3 DEF i
<1>11. SubSeq(all, pos + 1, end) = buf
  BY <1>2, <1>5, <1>7, <1>9, <1>10, PartIs
<1>12. /\ reply' = Store!ReadBytes(buf)
       /\ OpenBar' = [OpenBar EXCEPT ![fd].position = pos + Len(buf)]
  <2> DEFINE place == pos + Len(buf)
  <2>1. place \in Nat
    BY <1>2, <1>5
  <2>2. fds \in [FdTable -> Descriptor \union {Closed}] /\ FdsOK(dir, fds)
    BY DEF StoreInv, FilesInv, RoomInv, Inv, TypeOK
  <2>3. fds' = MovedTo(fds, fd, place) /\ dir' = dir
    BY <1>1 DEF pos
  <2> HIDE DEF place
  <2>4. OpenOf(dir, MovedTo(fds, fd, place)) = MovedTo(OpenOf(dir, fds), fd, place)
    BY <1>2, <2>1, <2>2, FdMoves
  <2>5. OpenBar' = [OpenBar EXCEPT ![fd].position = place]
    BY <2>3, <2>4, OpenIs, OpenWillBe DEF MovedTo
  <2> QED
    BY <1>1, <2>5 DEF place, ReadBytes, Store!ReadBytes
<1>13. Store!Read(fd, k)
  BY <1>5, <1>6, <1>8, <1>11, <1>12 DEF Store!Read, all, end
<1> QED
  BY <1>5, <1>13

LEMMA WriteDoneStep ==
  ASSUME StoreInv, WriteDone
  PROVE  fd \in 3 .. MaxFd /\ \E payload \in Payloads : Store!Write(fd, payload)
<1> DEFINE c == fds[fd].cluster
           pos == fds[fd].position
           end == pos + written
<1>1. /\ pc = "wdone" /\ pc \in Writing /\ pc' \notin Writing
      /\ UNCHANGED <<fat, data>> /\ reply' = Store!Returned(written)
  BY DEF WriteDone, Writing, Returned, Store!Returned
<1>2. /\ RoomInv /\ FdsOK(dir, fds) /\ Backed(fat, dir) /\ Next
      /\ dir \in [Names -> [cluster : Table, size : Nat]]
  BY DEF StoreInv, FilesInv, RoomInv, Inv, TypeOK, Next, Step
<1>3. /\ fd \in FdTable /\ fds[fd] # Closed /\ fd \in 3 .. MaxFd
      /\ fat \in FatType /\ data \in DataType /\ c \in Table /\ pos \in Nat
      /\ written \in Nat /\ written <= Len(buf) /\ Len(buf) \in Nat /\ end \in Nat
      /\ \A f \in Names : dir[f].size \in Nat /\ dir[f].cluster \in Table
  BY <1>1, WritingFile
<1>4. written > 0
  BY <1>1, <1>2, WritingChain DEF Walked
<1>5. PICK f \in Names : /\ OpenBar[fd].file = f /\ OpenBar[fd].position = pos
                         /\ c = dir[f].cluster
  BY <1>3, OpenFile
<1>6. /\ \A g \in Names : dir'[g].cluster = dir[g].cluster
      /\ \A g \in Names : dir[g].cluster # c => dir'[g].size = dir[g].size
      /\ dir'[f].size = IF end > dir[f].size THEN end ELSE dir[f].size
      /\ OpenOf(dir', fds') = [OpenOf(dir, fds) EXCEPT ![fd].position = end]
  BY <1>2, <1>5, WriteDoneFds
<1>7. /\ buf \in Payloads /\ ContentBar = stable
      /\ \A g \in Names :
           /\ Len(stable[g]) = dir[g].size
           /\ dir[g].cluster # c => stable[g] = BytesOf(fat, data, dir[g].cluster, dir[g].size)
      /\ Kept(fat, data, c, dir[f].size, stable[f], pos, end)
      /\ Put(fat, data, c, pos, buf, written)
  BY <1>1, <1>5, BarIs DEF StoreInv, WritesOK, Reach
<1>8. ContentBar' = Told(fat, data, dir')
  BY <1>1, BarWillBe
<1>9. Backed(fat, dir')
  BY <1>1, <1>2, NextBacked
<1> DEFINE size == dir'[f].size
           old == stable[f]
           to == BytesOf(fat, data, c, size)
<1>10. size \in Nat /\ size <= Room(fat, c)
  BY <1>3, <1>5, <1>6, <1>9 DEF Backed
<1> HIDE DEF c, pos, end, size
<1>11. /\ to \in Seq(Bytes) /\ Len(to) = size
       /\ \A p \in 1 .. size : to[p] = ByteAt(fat, data, c, p - 1)
  BY <1>3, <1>10, BytesType
<1>12. ContentBar'[f] = to
  BY <1>5, <1>6, <1>8 DEF Told, size
<1> HIDE DEF to, old
<1>13. ASSUME NEW g \in Names \ {f} PROVE ContentBar'[g] = ContentBar[g]
  <2>1. dir[g].cluster # c
    BY <1>2, <1>5 DEF FdsOK, Distinct
  <2> QED
    BY <1>6, <1>7, <1>8, <2>1 DEF Told
<1>14. Len(old) = dir[f].size /\ Len(to) = IF end > Len(old) THEN end ELSE Len(old)
  BY <1>6, <1>7, <1>11 DEF old, size
<1>15. ASSUME NEW p \in 1 .. Len(to), p \in (pos + 1) .. end PROVE to[p] = buf[p - pos]
  <2> DEFINE j == p - pos
  <2>1. j \in 1 .. written /\ pos + j - 1 = p - 1
    BY <1>3, <1>15 DEF end
  <2> HIDE DEF j
  <2>2. ByteAt(fat, data, c, pos + j - 1) = buf[j]
    BY <1>7, <2>1 DEF Put
  <2>3. to[p] = ByteAt(fat, data, c, p - 1)
    BY <1>11
  <2> QED
    BY <2>1, <2>2, <2>3 DEF j
<1>16. ASSUME NEW p \in 1 .. Len(to), p <= Len(old), p \notin (pos + 1) .. end
       PROVE  to[p] = old[p]
  <2> DEFINE i == p - 1
  <2>1. i \in Nat /\ i + 1 = p /\ i < dir[f].size /\ (i < pos \/ i >= end)
    BY <1>3, <1>10, <1>11, <1>14, <1>16
  <2> HIDE DEF i
  <2>2. ByteAt(fat, data, c, i) = old[p]
    BY <1>7, <2>1 DEF Kept, old
  <2>3. to[p] = ByteAt(fat, data, c, i)
    BY <1>11 DEF i
  <2> QED
    BY <2>2, <2>3
<1>17. Store!Overwritten(old, to, pos, buf, written)
  <2>1. end = pos + written
    BY DEF end
  <2>2. Len(to) = Store!Larger(Len(old), end)
    BY <1>3, <1>14 DEF Store!Larger
  <2> QED
    BY <1>15, <1>16, <2>1, <2>2, Zenon DEF Store!Overwritten
<1>18. OpenBar' = [OpenBar EXCEPT ![fd].position = pos + written]
  BY <1>6, OpenIs, OpenWillBe DEF end
<1>19. written \in 1 .. Len(buf) /\ OpenBar[fd] # Closed
  BY <1>3, <1>4, OpenFile
<1>20. Store!Write(fd, buf)
  <2>1. Store!Overwritten(ContentBar[f], ContentBar'[f], pos, buf, written)
    BY <1>7, <1>12, <1>17 DEF old
  <2>2. \E n \in 1 .. Len(buf) :
          /\ Store!Overwritten(ContentBar[f], ContentBar'[f], pos, buf, n)
          /\ \A g \in Names \ {f} : ContentBar'[g] = ContentBar[g]
          /\ OpenBar' = [OpenBar EXCEPT ![fd].position = pos + n]
          /\ reply' = Store!Returned(n)
    BY <1>1, <1>13, <1>18, <1>19, <2>1
  <2>3. OpenBar[fd].file = f /\ OpenBar[fd].position = pos
    BY <1>5 DEF pos
  <2> QED
    BY <1>19, <2>2, <2>3, Zenon DEF Store!Write
<1> QED
  BY <1>3, <1>7, <1>20

LEMMA CrashStep ==
  ASSUME StoreInv, Crash
  PROVE  Store!Crash \/ UNCHANGED <<ContentBar, OpenBar, reply>>
<1>1. /\ UNCHANGED <<fat, data, dir, reply>> /\ pc' \notin Writing
      /\ fds' = [d \in FdTable |-> Closed]
  BY DEF Crash, disk, Writing
<1>2. ContentBar' = Told(fat, data, dir)
  BY <1>1, BarWillBe
<1>3. OpenBar' = [d \in 3 .. MaxFd |-> Closed]
  <2>1. \A d \in 3 .. MaxFd : fds'[d] = Closed
    BY <1>1 DEF FdTable
  <2> QED
    BY <2>1, OpenWillBe DEF OpenOf
<1>4. CASE pc \in Writing
  <2> DEFINE c == fds[fd].cluster
  <2>1. fds[fd] # Closed /\ fd \in FdTable
    BY <1>4, WritingFile
  <2>2. PICK f \in Names : c = dir[f].cluster
    BY <2>1, OpenFile
  <2>3. /\ ContentBar = stable
        /\ \A g \in Names :
             /\ Len(stable[g]) = dir[g].size
             /\ dir[g].cluster # c =>
                  stable[g] = BytesOf(fat, data, dir[g].cluster, dir[g].size)
    BY <1>4, BarIs DEF StoreInv, WritesOK
  <2>4. Len(ContentBar'[f]) = Len(ContentBar[f])
    BY <1>2, <2>3, ToldType
  <2>5. ASSUME NEW g \in Names \ {f} PROVE ContentBar'[g] = ContentBar[g]
    <3>1. dir[g].cluster # c
      BY <2>2 DEF StoreInv, FilesInv, FdsOK, Distinct
    <3> QED
      BY <1>2, <2>3, <3>1 DEF Told
  <2> QED
    BY <1>1, <1>3, <2>4, <2>5 DEF Store!Crash
<1>5. CASE pc \notin Writing
  <2>1. ContentBar' = ContentBar
    BY <1>2, <1>5, BarIs
  <2>2. CASE Names # {}
    BY <1>1, <1>3, <2>1, <2>2 DEF Store!Crash
  <2>3. CASE Names = {}
    <3>1. \A d \in 3 .. MaxFd : fds[d] = Closed
      BY <2>3 DEF StoreInv, FilesInv, FdsOK, FdTable
    <3>2. OpenBar = [d \in 3 .. MaxFd |-> Closed]
      BY <3>1, OpenIs DEF OpenOf
    <3> QED
      BY <1>1, <1>3, <2>1, <3>2
  <2> QED
    BY <2>2, <2>3
<1> QED
  BY <1>4, <1>5

(* The steps that a program does not see.                                  *)
LEMMA HiddenStep ==
  ASSUME \/ UNCHANGED vars
         \/ \E d \in FdArgs, k \in ReadSizes : ReadBegin(d, k)
         \/ \E d \in FdArgs, p \in Payloads : WriteBegin(d, p)
         \/ ReadSeek \/ ReadCluster
         \/ WriteSeek \/ WriteSeekDone \/ AllocCluster \/ LinkCluster
         \/ TerminateChain \/ WriteSector \/ NextCluster \/ DiskFull
  PROVE  UNCHANGED <<ContentBar, OpenBar, reply>>
<1>1. UNCHANGED <<dir, fds, reply>>
  BY DEF vars, disk, locals, ReadBegin, WriteBegin, ReadSeek, ReadCluster, WriteSeek,
         WriteSeekDone, AllocCluster, LinkCluster, TerminateChain, WriteSector,
         NextCluster, DiskFull
<1>2. \/ pc \in Writing /\ pc' \in Writing /\ stable' = stable
      \/ UNCHANGED <<fat, data, dir, stable>> /\ pc \notin Writing /\ pc' \notin Writing
      \/ pc \notin Writing /\ pc' \in Writing /\ stable' = Contents
  BY DEF vars, disk, locals, ReadBegin, WriteBegin, ReadSeek, ReadCluster, WriteSeek,
         WriteSeekDone, AllocCluster, AtChainEnd, LinkCluster, TerminateChain,
         WriteSector, NextCluster, DiskFull, Writing
<1>3. ContentBar' = ContentBar
  BY <1>2, BarIs, BarWillBe, ContentsAre
<1> QED
  BY <1>1, <1>3, OpenStays

LEMMA EveryStepStores ==
  ASSUME StoreInv, [Next]_vars
  PROVE  Store!Next \/ UNCHANGED <<ContentBar, OpenBar, reply>>
<1>1. ASSUME NEW f \in Names, Open(f) PROVE Store!Next
  BY <1>1, OpenStep DEF Store!Next
<1>2. CASE OpenFails \/ GapDiskFull \/ \E d \in FdArgs, p \in Payloads : WriteNow(d, p)
  BY <1>2, RefuseStep DEF Store!Next
<1>3. ASSUME NEW d \in FdArgs, Close(d) PROVE Store!Next
  BY <1>3, CloseStep, RefuseStep DEF Store!Next
<1>4. ASSUME NEW d \in FdArgs, Fstat(d) PROVE Store!Next
  <2>1. CASE IsOpen(d)
    <3>1. Store!Stat(d)
      BY <1>4, <2>1, StatStep
    <3>2. d \in 3 .. MaxFd
      BY <2>1, OpenFile DEF IsOpen
    <3> QED
      BY <3>1, <3>2 DEF Store!Next
  <2>2. CASE ~ IsOpen(d)
    BY <1>4, <2>2, RefuseStep DEF Store!Next
  <2> QED
    BY <2>1, <2>2
<1>5. ASSUME NEW d \in FdArgs, NEW o \in Offsets, NEW w \in 0 .. 3, Lseek(d, o, w)
      PROVE  Store!Next
  <2>1. CASE Store!Seek(d) /\ d \in 3 .. MaxFd
    BY <2>1 DEF Store!Next
  <2>2. CASE fds' = fds /\ reply' = Failed
    BY <1>5, <2>2, RefuseStep DEF Store!Next
  <2> QED
    BY <1>5, <2>1, <2>2, SeekStep
<1>6. ASSUME NEW d \in FdArgs, NEW k \in ReadSizes, ReadNow(d, k) PROVE Store!Next
  <2>1. CASE d \in 3 .. MaxFd /\ Store!Read(d, k)
    BY <2>1 DEF Store!Next
  <2>2. CASE reply' = Failed
    BY <1>6, <2>2, RefuseStep DEF Store!Next
  <2> QED
    BY <1>6, <2>1, <2>2, ReadNothingStep
<1>7. CASE ReadDone
  BY <1>7, ReadDoneStep DEF Store!Next
<1>8. CASE WriteDone
  BY <1>8, WriteDoneStep DEF Store!Next
<1>9. CASE Crash
  BY <1>9, CrashStep DEF Store!Next
<1> QED
  BY <1>1, <1>2, <1>3, <1>4, <1>5, <1>6, <1>7, <1>8, <1>9, HiddenStep
  DEF Next, Calls, Step

LEMMA FirstFiles ==
  ASSUME Init, StoreInv
  PROVE  Store!Init
<1>1. pc \notin Writing /\ reply = Failed /\ fds = [d \in FdTable |-> Closed]
  BY DEF Init, Writing
<1>2. ContentBar = Told(fat, data, dir)
  BY <1>1, BarIs
<1>3. ContentBar \in [Names -> Seq(Bytes)]
  BY <1>2, ToldType DEF Told
<1>4. OpenBar = [d \in 3 .. MaxFd |-> Closed]
  BY <1>1, OpenIs DEF OpenOf, FdTable
<1> QED
  BY <1>1, <1>3, <1>4 DEF Store!Init

(* The FAT32 code implements the abstract file store, when no file is      *)
(* opened again while it is open and no two share a first cluster: a read  *)
(* returns what was written, a write changes one file in one place, and    *)
(* power that fails at any sector damages at most the file being written   *)
(* and leaves its length.                                                  *)
THEOREM FilesAreKept ==
  ASSUME ~ SharedOpens, MaxCrashes = 0 \/ ~ WriteAfterCrash,
         \A f, g \in Names : FormattedDir[f].cluster = FormattedDir[g].cluster => f = g
  PROVE  Spec /\ SizeBacked => FileStoreSpec
<1>1. Distinct(FormattedDir)
  BY DEF Distinct
<1>2. Init /\ SizeBacked => StoreInv /\ Store!Init
  BY <1>1, InitStore, FirstFiles
<1>3. StoreInv /\ [Next]_vars => StoreInv'
  BY NextStore
<1>4. StoreInv /\ [Next]_vars => [Store!Next]_<<ContentBar, OpenBar, reply>>
  BY EveryStepStores
<1> QED
  BY <1>2, <1>3, <1>4, PTL DEF Spec, FileStoreSpec, Store!Spec
=============================================================================
