---------------------------- MODULE KernelProofs ----------------------------
(***************************************************************************)
(* The end of kmain proved for every directory tree, every number of keys  *)
(* and packets and every timing: block_on never polls a future again that  *)
(* was ready, and the debug shell never leaves the directories of the      *)
(* disk.                                                                   *)
(*                                                                         *)
(* Neither is inductive.  What is polled depends on which of the two modes *)
(* is running and on how far its one thread has come; where the shell is   *)
(* depends on what it has walked over.                                     *)
(***************************************************************************)
EXTENDS Kernel, TLAPS, WellFoundedInduction

(* How far the boot has come tells which futures are over.                 *)
NapOver == {"await_shift", "run", "running", "halt"}

Finished ==
  IF pc = "halt" THEN {"nap", "contained"}
  ELSE IF pc \in NapOver THEN {"nap"} ELSE {}

(* block_on has one user, and that one only where it waits for it.         *)
OneFuture ==
  /\ boot_mode = 1 =>
       future = CASE pc = "sleeping" -> "nap"
                  [] pc = "running" -> "contained"
                  [] OTHER -> "none"
  /\ boot_mode # 1 => pc = "find_nic" /\ future \in {"none", "shell"}
  /\ boot_mode = 0 => future = "none"

(* The program is entered from the one poll that finds it not running.     *)
OneRun ==
  /\ runs \in {0, 1}
  /\ pc \notin {"running", "halt"} => runs = 0 /\ ~ app
  /\ pc = "running" /\ ~ app => runs = 0

BootInv ==
  /\ boot_mode \in {0, 1, 2}
  /\ OneFuture /\ OneRun
  /\ finished = Finished

LEMMA BootInitInvariant == Init => BootInv
  BY DEF Init, BootInv, OneFuture, OneRun, Finished, NapOver, Boot!Init,
     Boot!Timer!Init, Boot!Exec!Init

(* What the boot's steps on the way to the sleep, and the ones behind it,  *)
(* do to the invariant; all of them know that this is the standard boot.   *)
LEMMA BootStepInvariant ==
  ASSUME BootInv, boot_mode = 1, UNCHANGED boot_mode, Boot!Boot
  PROVE  BootInv'
<1> USE DEF BootInv, OneFuture, OneRun, Finished, NapOver
<1>1. CASE Boot!FindNic \/ Boot!NewNic \/ Boot!SendArp \/ Boot!Listen \/ Boot!Calibrate
  BY <1>1 DEF Boot!FindNic, Boot!NewNic, Boot!SendArp, Boot!Listen,
     Boot!Calibrate, Boot!Goto, Boot!exec, Boot!rest
<1>2. CASE Boot!CreateContainer
  BY <1>2 DEF Boot!CreateContainer, Boot!exec
<1>3. CASE Boot!Sleep
  BY <1>3 DEF Boot!Sleep, Boot!Exec!BlockOn, Boot!rest, Boot!Nap
<1>4. CASE Boot!SleepFutureNew \/ Boot!SleepPending
  BY <1>4 DEF Boot!SleepFutureNew, Boot!SleepPending, Boot!Exec!Pending,
     Boot!exec, Boot!rest
<1>5. CASE Boot!SleepReady
  BY <1>5 DEF Boot!SleepReady, Boot!Exec!Ready, Boot!Exec!Polling, Boot!Nap
<1>6. CASE Boot!AwaitShift
  BY <1>6 DEF Boot!AwaitShift, Boot!exec, Boot!rest
<1>7. CASE Boot!RunInContainer
  BY <1>7 DEF Boot!RunInContainer, Boot!Exec!BlockOn, Boot!rest, Boot!Contained
<1>8. CASE Boot!PollContainer
  BY <1>8 DEF Boot!PollContainer, Boot!Exec!Polling, Boot!exec, Boot!Contained
<1>9. CASE Boot!LoadFails
  BY <1>9 DEF Boot!LoadFails, Boot!Finish, Boot!Exec!Ready, Boot!Exec!Polling,
     Boot!Contained
<1>10. CASE Boot!Round
  BY <1>10 DEF Boot!Round, Boot!Exec!ClearWoken, Boot!Exec!CheckWoken, Boot!rest
<1> QED
  BY <1>1, <1>2, <1>3, <1>4, <1>5, <1>6, <1>7, <1>8, <1>9, <1>10 DEF Boot!Boot

(* block_on runs the shell's future, and that one has no end.              *)
LEMMA ShellKeepsFuture ==
  ASSUME Debug!CiClears \/ Debug!Start \/ Debug!Step
  PROVE  future' \in {future, "shell"}
<1>1. CASE Debug!CiClears \/ Debug!Start
  BY <1>1 DEF Debug!CiClears, Debug!Start, Debug!Exec!BlockOn, Debug!exec
<1>2. CASE Debug!NoKey \/ Debug!Round
  BY <1>2 DEF Debug!NoKey, Debug!Round, Debug!Exec!Pending,
     Debug!Exec!ClearWoken, Debug!Exec!CheckWoken
<1>3. CASE Debug!ShowSector \/ Debug!WaitCi \/ Debug!Found \/ Debug!FindOn
           \/ Debug!NotFound \/ Debug!ListOn \/ Debug!ListDone
  BY <1>3 DEF Debug!ShowSector, Debug!WaitCi, Debug!Found, Debug!FindOn,
     Debug!NotFound, Debug!ListOn, Debug!ListDone, Debug!Searching,
     Debug!Listing, Debug!At, Debug!exec
<1>4. ASSUME NEW code, Debug!Takes(code) PROVE UNCHANGED future
  BY <1>4 DEF Debug!Takes, Debug!At, Debug!exec
<1>5. CASE (\E code \in Debug!Codes : Debug!TakeKey(code)) \/ Debug!OtherCommand
           \/ Debug!Reboot \/ Debug!CdRoot
  BY <1>5, <1>4 DEF Debug!TakeKey, Debug!OtherCommand, Debug!Reboot,
     Debug!CdRoot, Debug!Obey
<1>6. CASE Debug!Cd \/ Debug!Ls
  BY <1>6, <1>4 DEF Debug!Cd, Debug!Ls, Debug!NoFileSystem, Debug!Walk, Debug!Obey
<1> QED
  BY <1>1, <1>2, <1>3, <1>5, <1>6 DEF Debug!Step

LEMMA BootNextInvariant == BootInv /\ [Next]_vars => BootInv'
<1> SUFFICES ASSUME BootInv, [Next]_vars PROVE BootInv'
  OBVIOUS
<1> USE DEF BootInv, OneFuture, OneRun, Finished, NapOver
<1>1. CASE KeyPressed
  BY <1>1 DEF KeyPressed, boot, exec
<1>2. CASE Menu
  BY <1>2 DEF Menu, boot, exec
<1>3. CASE InBoot(Surroundings)
  BY <1>3 DEF InBoot, Surroundings, Boot!NicComesUp, Boot!PacketArrives,
     Boot!Tick, Boot!exec, Boot!rest
<1>4. CASE InBoot(Boot!Yield)
  BY <1>4 DEF InBoot, Boot!Yield, Boot!Exec!wake, Boot!rest
<1>5. CASE InBoot(Boot!AppReturns)
  BY <1>5 DEF InBoot, Boot!AppReturns, Boot!Finish, Boot!Exec!Ready,
     Boot!Exec!Polling, Boot!Contained
<1>6. CASE BootStep
  BY <1>6, BootStepInvariant DEF BootStep, InBoot
<1>7. CASE InShell(Debug!CiClears \/ Debug!Start \/ Debug!Step)
  <2>1. UNCHANGED <<boot_mode, boot>> /\ boot_mode = 2
    BY <1>7 DEF InShell
  <2>2. future' \in {"none", "shell"}
    BY <1>7, <2>1, ShellKeepsFuture DEF InShell
  <2> QED
    BY <2>1, <2>2 DEF boot
<1>8. CASE UNCHANGED vars
  BY <1>8 DEF vars, boot, exec
<1> QED
  BY <1>1, <1>2, <1>3, <1>4, <1>5, <1>6, <1>7, <1>8
     DEF Next, Program, ShellStep, InBoot, InShell

LEMMA BootInvariant == Spec => []BootInv
  BY BootInitInvariant, BootNextInvariant, PTL DEF Spec

(* Whatever the menu starts, and whoever presses keys meanwhile: block_on  *)
(* returns with the first Ready, so that a future that was ready is not    *)
(* polled again, and the program is entered once.                          *)
THEOREM NoFuturePolledAgain == Spec => []NoPollAfterReady
<1>1. BootInv => NoPollAfterReady
  BY DEF BootInv, OneFuture, OneRun, Finished, NapOver, NoPollAfterReady,
     Boot!NoPollAfterReady
<1> QED
  BY <1>1, BootInvariant, PTL

-----------------------------------------------------------------------------
(* A walk stays among the clusters that the root leads to.                 *)
WalkInv ==
  /\ CURRENT_DIR_CLUSTER \in Debug!Directories
  /\ current \in Debug!Reached \union {0, EndOfChain}

LEMMA LeastNumber ==
  ASSUME NEW S \in SUBSET Nat, S # {}
  PROVE  Debug!Min(S) \in S
<1>1. \E x \in S : \A y \in S : ~ (<<y, x>> \in OpToRel(<, Nat))
  BY NatLessThanWellFounded, WFMin
<1>2. \A x, y \in S : ~ (<<y, x>> \in OpToRel(<, Nat)) => x <= y
  BY DEF OpToRel
<1>3. \E x \in S : \A y \in S : x <= y
  BY <1>1, <1>2
<1> QED
  BY <1>3 DEF Debug!Min

(* The least set with the root that is closed under entries and the FAT.   *)
LEMMA ReachedIsClosed ==
  /\ Debug!Reached \subseteq DOMAIN Entries
  /\ RootCluster \in Debug!Reached
  /\ \A c \in Debug!Reached :
       (Debug!DirsOf(c) \union {Following[c]}) \intersect DOMAIN Entries
         \subseteq Debug!Reached
  BY DirectoriesAssumption DEF Debug!Reached

(* The entries and the FAT do not leave what the root leads to.            *)
LEMMA DirsLeadOn ==
  ASSUME NEW c \in Debug!Reached
  PROVE  Debug!DirsOf(c) \subseteq Debug!Reached \union {0, EndOfChain}
<1>1. c \in DOMAIN Entries
  BY ReachedIsClosed
<1>2. Debug!Live(c) \subseteq DOMAIN Entries[c]
  BY DEF Debug!Live
<1>3. Debug!DirsOf(c) \subseteq DOMAIN Entries \union {0, EndOfChain}
  BY <1>1, <1>2, DirectoriesAssumption DEF Debug!DirsOf
<1> QED
  BY <1>3, ReachedIsClosed

(* A command begins its walk where the user is.                            *)
LEMMA StartIsReached ==
  ASSUME WalkInv
  PROVE  Debug!StartCluster \in Debug!Reached \union {0, EndOfChain}
  BY ReachedIsClosed, DirsLeadOn DEF Debug!StartCluster, WalkInv, Debug!Directories

(* What find_directory finds is an entry of a directory in this cluster.   *)
LEMMA FoundIsDir ==
  ASSUME NEW c \in Debug!Reached, NEW word, Debug!Hits(c, word) # {}
  PROVE  Entries[c][Debug!Min(Debug!Hits(c, word))].cluster \in Debug!DirsOf(c)
<1>1. Debug!Live(c) \subseteq Nat
  BY ReachedIsClosed, DirectoriesAssumption DEF Debug!Live
<1>2. Debug!Min(Debug!Hits(c, word)) \in Debug!Hits(c, word)
  BY <1>1, LeastNumber DEF Debug!Hits
<1> QED
  BY <1>2 DEF Debug!Hits, Debug!DirsOf

LEMMA WalkInitInvariant == Init => WalkInv
  BY DEF Init, WalkInv, Debug!Init, Debug!Directories

(* Everything but a walk, and the "cd" that goes to the root.              *)
LEMMA ShellStandsStill ==
  ASSUME WalkInv,
         \/ Debug!CiClears \/ Debug!Start \/ Debug!ShowSector \/ Debug!WaitCi
         \/ Debug!NoKey \/ Debug!Round \/ Debug!OtherCommand \/ Debug!Reboot
         \/ Debug!CdRoot
         \/ \E code \in Debug!Codes : Debug!TakeKey(code)
  PROVE  WalkInv'
<1>1. CASE UNCHANGED <<CURRENT_DIR_CLUSTER, current>>
  BY <1>1 DEF WalkInv
<1>2. CASE CURRENT_DIR_CLUSTER' = 0 /\ UNCHANGED current
  BY <1>2 DEF WalkInv, Debug!Directories
<1> QED
  BY <1>1, <1>2 DEF Debug!CiClears, Debug!Start, Debug!ShowSector, Debug!WaitCi,
     Debug!NoKey, Debug!Round, Debug!OtherCommand, Debug!Reboot, Debug!CdRoot,
     Debug!TakeKey, Debug!walk, Debug!shell

LEMMA WalkStepInvariant ==
  ASSUME WalkInv, Debug!Step
  PROVE  WalkInv'
<1>1. CASE Debug!Cd \/ Debug!Ls
  <2>1. UNCHANGED CURRENT_DIR_CLUSTER
    BY <1>1 DEF Debug!Cd, Debug!Ls
  <2>2. current' \in {current, Debug!StartCluster}
    BY <1>1 DEF Debug!Cd, Debug!Ls, Debug!NoFileSystem, Debug!Walk, Debug!walk
  <2> QED
    BY <2>1, <2>2, StartIsReached DEF WalkInv
<1>2. CASE Debug!Found
  <2>1. current \in Debug!Reached /\ Debug!Hits(current, target) # {}
    BY <1>2 DEF Debug!Found, Debug!Open, WalkInv
  <2> DEFINE c == Entries[current][Debug!Min(Debug!Hits(current, target))].cluster
  <2>2. c \in Debug!DirsOf(current)
    BY <2>1, FoundIsDir
  <2>3. c \in Debug!Directories
    BY <2>1, <2>2 DEF Debug!Directories
  <2>4. c \in Debug!Reached \union {0, EndOfChain}
    BY <2>1, <2>2, DirsLeadOn
  <2>5. \/ CURRENT_DIR_CLUSTER' = c /\ current' = 0
        \/ UNCHANGED CURRENT_DIR_CLUSTER /\ current' = c
    BY <1>2 DEF Debug!Found, Debug!WalkEnds
  <2> QED
    BY <2>3, <2>4, <2>5 DEF WalkInv
<1>3. CASE Debug!FindOn \/ Debug!ListOn
  <2>1. current \in Debug!Reached
    BY <1>3 DEF Debug!FindOn, Debug!ListOn, Debug!Open, WalkInv
  <2>2. current' = Following[current] /\ UNCHANGED CURRENT_DIR_CLUSTER
    BY <1>3 DEF Debug!FindOn, Debug!ListOn, Debug!NextCluster
  <2>3. Following[current] \in Debug!Reached \union {EndOfChain}
    BY <2>1, ReachedIsClosed, DirectoriesAssumption
  <2> QED
    BY <2>2, <2>3 DEF WalkInv
<1>4. CASE Debug!NotFound \/ Debug!ListDone
  <2>1. UNCHANGED CURRENT_DIR_CLUSTER /\ current' \in {0, Debug!StartCluster}
    BY <1>4 DEF Debug!NotFound, Debug!ListDone, Debug!WalkEnds
  <2> QED
    BY <2>1, StartIsReached DEF WalkInv
<1> QED
  BY <1>1, <1>2, <1>3, <1>4, ShellStandsStill DEF Debug!Step

LEMMA WalkNextInvariant == WalkInv /\ [Next]_vars => WalkInv'
<1> SUFFICES ASSUME WalkInv, [Next]_vars PROVE WalkInv'
  OBVIOUS
<1>1. CASE UNCHANGED shell
  BY <1>1 DEF shell, WalkInv
<1>2. CASE InShell(Debug!CiClears) \/ ShellStep
  BY <1>2, ShellStandsStill, WalkStepInvariant DEF InShell, ShellStep
<1> QED
  BY <1>1, <1>2 DEF Next, KeyPressed, Menu, InBoot, BootStep, vars

(* Whatever words are typed, with "cd" and "ls" in any order and over any  *)
(* chain of clusters: find_directory only follows entries of directories,  *)
(* so the current directory is one that the root leads to.                 *)
THEOREM ShellStaysInDirectories == Spec => []DirIsDirectory
<1>1. WalkInv => DirIsDirectory
  BY DEF WalkInv, DirIsDirectory, Debug!DirIsDirectory
<1> QED
  BY <1>1, WalkInitInvariant, WalkNextInvariant, PTL DEF Spec
=============================================================================
