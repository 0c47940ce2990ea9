-------------------------------- MODULE Kernel --------------------------------
(***************************************************************************)
(* The end of kmain in kernel/src/main.rs: the boot menu, and what it      *)
(* starts, standard_boot or the debug shell.  All three take their keys    *)
(* from the one keyboard controller, and both modes run their futures in   *)
(* block_on.  The search for a disk in between is AhciPort's subject.      *)
(***************************************************************************)
EXTENDS Integers, Sequences

CONSTANTS
  Byte, TargetCount, MaxTicks, SleepPeriods, RingSize, KeyQueue, MaxPackets,
  MaxKeys, ScanCodes,                       (* see StandardBoot            *)
  Words, MaxInput, RootCluster, Entries, Following, EndOfChain (* see Shell *)

(* Neither the FAT nor an entry of a directory leads out of the volume.    *)
ASSUME DirectoriesAssumption ==
  /\ RootCluster \in DOMAIN Entries /\ 0 \notin DOMAIN Entries
  /\ Following \in [DOMAIN Entries -> DOMAIN Entries \union {EndOfChain}]
  /\ \A c \in DOMAIN Entries :
       /\ DOMAIN Entries[c] \subseteq Nat
       /\ \A k \in DOMAIN Entries[c] :
            Entries[c][k].cluster \in DOMAIN Entries \union {0, EndOfChain}

VARIABLES
  boot_mode,     (* 0 while the menu is up, 1 standard boot, 2 shell       *)
  pc, nic, nic_up, queue, arrivals, pit, since, cal, low, target_count,
  frequency, asleep, containers, app, runs, finished,
  sh, disk, ci, IS_SHIFT, input, CURRENT_DIR_CLUSTER, job, target, current,
  keys, presses, future, round, WOKEN

Boot == INSTANCE StandardBoot
Debug == INSTANCE Shell WITH ShellFuture <- "shell", Idle <- "none"

boot == <<pc, nic, nic_up, queue, arrivals, pit, since, cal, low, target_count,
          frequency, asleep, containers, app, runs, finished>>
shell == <<sh, disk, ci, IS_SHIFT, input, CURRENT_DIR_CLUSTER, job, target, current>>
exec == <<future, round, WOKEN>>
vars == <<boot_mode, boot, shell, keys, presses, exec>>

Init == boot_mode = 0 /\ Boot!Init /\ Debug!Init

-----------------------------------------------------------------------------
(* Before the mode is known only the keys that tell the menu what to do    *)
(* are pressed, in either mode those that it can tell apart.               *)
KeyPressed ==
  /\ Len(keys) < KeyQueue
  /\ \E k \in IF boot_mode = 2 THEN Debug!Codes ELSE ScanCodes :
       keys' = Append(keys, k)
  /\ IF boot_mode = 2 THEN UNCHANGED presses
                      ELSE presses < MaxKeys /\ presses' = presses + 1
  /\ UNCHANGED <<boot_mode, boot, shell, exec>>

(* Any key but F1 starts the shell; a key that is let go starts nothing.   *)
Menu ==
  /\ boot_mode = 0 /\ keys # <<>>
  /\ keys' = Tail(keys)
  /\ boot_mode' = CASE Head(keys) = "shift_up" -> 0
                    [] Head(keys) = "F1" -> 1
                    [] OTHER -> 2
  /\ presses' = 0
  /\ UNCHANGED <<boot, shell, exec>>

Surroundings == Boot!NicComesUp \/ Boot!PacketArrives \/ Boot!Tick
Program == Boot!Yield \/ Boot!AppReturns

InBoot(A) == boot_mode = 1 /\ A /\ UNCHANGED <<boot_mode, shell>>

InShell(A) == boot_mode = 2 /\ A /\ UNCHANGED <<boot_mode, boot, presses>>

BootStep == InBoot(Boot!Boot)
ShellStep == InShell(Debug!Start \/ Debug!Step)

Next ==
  \/ KeyPressed \/ Menu
  \/ InBoot(Surroundings) \/ InBoot(Program) \/ BootStep
  \/ InShell(Debug!CiClears) \/ ShellStep

(* The processor goes on and time passes; card, network, user, program and *)
(* disk owe nothing.                                                       *)
Spec ==
  /\ Init /\ [][Next]_vars
  /\ WF_vars(Menu) /\ WF_vars(BootStep) /\ WF_vars(ShellStep)
  /\ WF_vars(InBoot(Boot!Tick))

-----------------------------------------------------------------------------
(* See StandardBoot: no future is polled again after it was ready, so the  *)
(* program runs once.                                                      *)
NoPollAfterReady == Boot!NoPollAfterReady

(* See StandardBoot: if the menu has started it, the boot comes to its end *)
(* under BootEnds' premises.                                               *)
BootEnds == <>(boot_mode = 1) => Boot!BootEnds

(* See Shell: whatever is typed, the current directory is a directory.     *)
DirIsDirectory == Debug!DirIsDirectory

(* See Shell: a key is taken whatever the shell is doing.                  *)
KeysAreTaken == Debug!KeysAreTaken
=============================================================================
