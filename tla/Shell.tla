-------------------------------- MODULE Shell --------------------------------
(***************************************************************************)
(* The debug shell of kernel/src/main.rs: one future that block_on polls.  *)
(* It shows a sector, waits for a key and obeys a line, without an end.    *)
(*                                                                         *)
(* A key types a whole word; which sector is shown and what is written to  *)
(* the screen are left out, and with them the arrow keys, "set lba" and    *)
(* "clear".  Nothing changes the disk in this mode, so it is a constant.   *)
(***************************************************************************)
EXTENDS Integers, Sequences, SequencesExt, FiniteSetsExt

CONSTANTS
  Words,          (* what a key types: commands and names                  *)
  MaxInput,       (* words a line holds: 63 characters                     *)
  RootCluster,
  Entries,        (* of each cluster of a directory, up to the end mark    *)
  Following,      (* the FAT: the next cluster of the directory            *)
  EndOfChain,
  ShellFuture, Idle

(* "F1" stands for the keys without a character.                           *)
Codes == Words \union {"shift", "shift_up", "enter", "backspace", "F1"}
Shifted == "?"                       (* any word typed with Shift held     *)

VARIABLES
  sh,                    (* the next step of the loop                      *)
  disk,                  (* what was found: no port, no FAT32, or FAT32    *)
  ci,                    (* PxCI bit 0, as a read that gave up may leave it *)
  IS_SHIFT,
  input,                 (* input_buf[..input_len]                         *)
  CURRENT_DIR_CLUSTER,   (* 0 for the root                                 *)
  job, target,           (* the command that walks a directory             *)
  current,               (* the cluster the walk is at                     *)
  keys,                  (* scan codes in the keyboard controller          *)
  future, round, WOKEN

Exec == INSTANCE Executor WITH Futures <- {ShellFuture}, NoFuture <- Idle

exec == <<future, round, WOKEN>>
line == <<IS_SHIFT, input>>
walk == <<job, target, current>>
shell == <<sh, disk, ci, line, CURRENT_DIR_CLUSTER, walk>>
vars == <<shell, keys, exec>>

Init ==
  /\ sh = "off" /\ disk = "none" /\ ci = FALSE
  /\ IS_SHIFT = FALSE /\ input = <<>> /\ CURRENT_DIR_CLUSTER = 0
  /\ job = "none" /\ target = "none" /\ current = 0

(* The search for a disk is over.                                          *)
Start ==
  /\ sh = "off" /\ sh' = "read"
  /\ disk' \in {"none", "other", "FAT32"}
  /\ Exec!BlockOn(ShellFuture)
  /\ UNCHANGED <<ci, line, CURRENT_DIR_CLUSTER, walk, keys>>

(* A device that was slow clears the bit after all.                        *)
CiClears ==
  /\ ci /\ ci' = FALSE
  /\ UNCHANGED <<sh, disk, line, CURRENT_DIR_CLUSTER, walk, keys, exec>>

-----------------------------------------------------------------------------
(* All else happens inside a poll.                                         *)
At(step) == Exec!Polling(ShellFuture) /\ sh = step /\ UNCHANGED exec

ShowSector ==
  /\ At("read")
  /\ IF disk = "none" THEN sh' = "await" /\ UNCHANGED ci
                      ELSE sh' = "wait" /\ ci' \in BOOLEAN
  /\ UNCHANGED <<disk, line, CURRENT_DIR_CLUSTER, walk, keys>>

WaitCi ==
  /\ At("wait") /\ ~ ci /\ sh' = "await"
  /\ UNCHANGED <<disk, ci, line, CURRENT_DIR_CLUSTER, walk, keys>>

(* The interrupt that would wake the future never comes: interrupts are    *)
(* off, so the poll looks at the controller itself.                        *)
NoKey ==
  /\ sh = "await" /\ keys = <<>>
  /\ Exec!Pending(ShellFuture, FALSE)
  /\ UNCHANGED <<shell, keys>>

Takes(code) ==
  /\ At("await") /\ keys # <<>> /\ Head(keys) = code
  /\ keys' = Tail(keys)
  /\ UNCHANGED <<disk, ci>>

Typed(word) == IF IS_SHIFT THEN Shifted ELSE word

TakeKey(code) ==
  /\ Takes(code) /\ code # "enter"
  /\ sh' = "read"
  /\ IS_SHIFT' = CASE code = "shift" -> TRUE
                   [] code = "shift_up" -> FALSE
                   [] OTHER -> IS_SHIFT
  /\ input' = CASE code = "backspace" /\ input # <<>> -> Front(input)
                [] code \in Words /\ Len(input) < MaxInput -> Append(input, Typed(code))
                [] OTHER -> input
  /\ UNCHANGED <<CURRENT_DIR_CLUSTER, walk>>

Arg(k, default) == IF Len(input) < k THEN default ELSE input[k]

(* The line is read and gone; the command has the next step.               *)
Obey(next) == Takes("enter") /\ sh' = next /\ input' = <<>> /\ UNCHANGED IS_SHIFT

OtherCommand ==
  /\ Obey("read") /\ Arg(1, "") \notin {"reboot", "cd", "ls"}
  /\ UNCHANGED <<CURRENT_DIR_CLUSTER, walk>>

Reboot ==
  /\ Obey("reset") /\ Arg(1, "") = "reboot"
  /\ UNCHANGED <<CURRENT_DIR_CLUSTER, walk>>

(* "cd ..", too, goes to the root.                                         *)
CdRoot ==
  /\ Obey("read") /\ Arg(1, "") = "cd" /\ Arg(2, "/") \in {"/", ".."}
  /\ CURRENT_DIR_CLUSTER' = 0
  /\ UNCHANGED walk

StartCluster == IF CURRENT_DIR_CLUSTER = 0 THEN RootCluster ELSE CURRENT_DIR_CLUSTER

(* SimpleFileSystem::init indexes the ports of the controller with -1 if   *)
(* there is no disk, which panics; on another file system it gives up.     *)
NoFileSystem ==
  /\ disk # "FAT32"
  /\ Obey(IF disk = "none" THEN "panic" ELSE "read")
  /\ UNCHANGED walk

Walk(command, name, next) ==
  /\ disk = "FAT32"
  /\ Obey(next)
  /\ job' = command /\ target' = name /\ current' = StartCluster

Cd ==
  /\ Arg(1, "") = "cd" /\ Arg(2, "/") \notin {"/", ".."}
  /\ NoFileSystem \/ Walk("cd", Arg(2, "/"), "find")
  /\ UNCHANGED CURRENT_DIR_CLUSTER

Ls ==
  /\ Arg(1, "") = "ls"
  /\ NoFileSystem \/ Walk("ls", Arg(2, ""), IF Len(input) < 2 THEN "list" ELSE "find")
  /\ UNCHANGED CURRENT_DIR_CLUSTER

-----------------------------------------------------------------------------
(* find_directory and list_directory, a cluster per step.                  *)
Open == current \notin {0, EndOfChain}
HasEnd(c) == \E k \in DOMAIN Entries[c] : Entries[c][k].kind = "end"
Live(c) ==
  {k \in DOMAIN Entries[c] : \A j \in 1 .. k : Entries[c][j].kind # "end"}

(* A slip: the attribute is not looked at. *)
HitsAnything(c, word) == {k \in Live(c) : word \in Entries[c][k].starts}

(* A directory whose name begins with the word will do.                    *)
Hits(c, word) ==
  {k \in Live(c) : Entries[c][k].kind = "dir" /\ word \in Entries[c][k].starts}

WalkEnds ==
  /\ job' = "none" /\ target' = "none" /\ current' = 0
  /\ sh' = "read"

NextCluster ==
  /\ current' = Following[current]
  /\ UNCHANGED <<sh, CURRENT_DIR_CLUSTER, job, target>>

Searching == At("find") /\ UNCHANGED <<disk, ci, line, keys>>

Found ==
  /\ Searching /\ Open /\ Hits(current, target) # {}
  /\ LET c == Entries[current][Min(Hits(current, target))].cluster
     IN  \/ job = "cd" /\ CURRENT_DIR_CLUSTER' = c /\ WalkEnds
         \/ job = "ls" /\ sh' = "list" /\ current' = c
            /\ UNCHANGED <<CURRENT_DIR_CLUSTER, job, target>>

FindOn ==
  /\ Searching /\ Open /\ Hits(current, target) = {} /\ ~ HasEnd(current)
  /\ NextCluster

(* "ls" then lists the directory it started from.                          *)
NotFound ==
  /\ Searching
  /\ Open => Hits(current, target) = {} /\ HasEnd(current)
  /\ \/ job = "cd" /\ WalkEnds
     \/ job = "ls" /\ sh' = "list" /\ current' = StartCluster
        /\ UNCHANGED <<job, target>>
  /\ UNCHANGED CURRENT_DIR_CLUSTER

Listing == At("list") /\ UNCHANGED <<disk, ci, line, keys>>

ListOn == Listing /\ Open /\ ~ HasEnd(current) /\ NextCluster

ListDone ==
  /\ Listing /\ (Open => HasEnd(current))
  /\ WalkEnds
  /\ UNCHANGED CURRENT_DIR_CLUSTER

Round ==
  /\ future = ShellFuture
  /\ Exec!ClearWoken \/ Exec!CheckWoken
  /\ UNCHANGED <<shell, keys>>

Step ==
  \/ ShowSector \/ WaitCi \/ NoKey
  \/ \E code \in Codes : TakeKey(code)
  \/ OtherCommand \/ Reboot \/ CdRoot \/ Cd \/ Ls
  \/ Found \/ FindOn \/ NotFound \/ ListOn \/ ListDone \/ Round

-----------------------------------------------------------------------------
DirsOf(c) == {Entries[c][k].cluster :
                k \in {j \in Live(c) : Entries[c][j].kind = "dir"}}

(* The directories of the disk: the root and what is named as a directory  *)
(* in a cluster that the root leads to.                                    *)
Reached ==
  {c \in DOMAIN Entries : \A S \in SUBSET DOMAIN Entries :
     /\ RootCluster \in S
     /\ \A d \in S : (DirsOf(d) \union {Following[d]}) \intersect DOMAIN Entries \subseteq S
     => c \in S}

Directories == {0, RootCluster} \union UNION {DirsOf(c) : c \in Reached}

(* Whatever is typed, with and without Shift, and whichever lines came     *)
(* before: the current directory is a directory of the disk.               *)
DirIsDirectory == CURRENT_DIR_CLUSTER \in Directories

Ended == sh = "reset" \/ (sh = "panic" /\ disk = "none")

(* A key that was pressed is taken, whatever the shell is doing, unless    *)
(* the disk keeps a command for ever or the line before was "reboot"; "cd" *)
(* and "ls" without a disk end in a panic.                                 *)
KeysAreTaken ==
  []<>(~ ci) =>
    (sh # "off" /\ keys # <<>> ~> keys = <<>> \/ Ended)
=============================================================================
