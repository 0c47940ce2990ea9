-------------------------------- MODULE Ahci --------------------------------
(***************************************************************************)
(* Sector reads and writes over AHCI: read_sector of kernel/src/ahci.rs,   *)
(* write_sector of kernel/src/boot/sys_write_file.rs, and the port of the  *)
(* host bus adapter (HBA) they drive, which is the one that AhciPort has   *)
(* found; a reset that was given up may end at any time, in the middle of  *)
(* a transfer too.                                                         *)
(*                                                                         *)
(* Both use command slot 0, its one command table and one DMA buffer.      *)
(* A command is issued by setting bit 0 of PxCI, which the HBA clears when *)
(* it is done.  read_sector polls that bit, a bounded number of times.     *)
(* write_sector polls bit 0 of the first word of the port, PxCLB, where    *)
(* init_port has put a page-aligned address: that loop never waits, and    *)
(* only the fixed delay behind it separates the write from the next call.  *)
(* The first three constants say what the device makes of these waits.     *)
(***************************************************************************)
EXTENDS AhciPort

CONSTANTS
  DelayIsEnough,     (* are writes done within the delay of write_sector?    *)
  PollingIsEnough,   (* are commands done within the polls of read_sector?   *)
  MayFail,           (* may the device report an error, or hang?             *)
  Lbas, Values,
  Zero,              (* what the sectors and the buffer hold at first        *)
  MaxCalls           (* bound: calls in a behaviour                          *)

ASSUME DeviceAssumption ==
  /\ Zero \in Values
  /\ {DelayIsEnough, PollingIsEnough, MayFail} \subseteq BOOLEAN
  /\ MaxCalls \in Nat

Commands == [op : {"read", "write"}, lba : Lbas]
NoCommand == [op |-> "none"]

VARIABLES
  disk,      (* the sectors                                                *)
  data,      (* the DMA buffer at data_ptr                                 *)
  table,     (* the command table of slot 0                                *)
  ci,        (* bit 0 of PxCI                                              *)
  tfes,      (* PxIS.TFES                                                  *)
  hba,       (* the HBA: "idle", "fetched", "moved", "halted" or "hung"    *)
  command,   (* what the HBA has fetched                                   *)
  step,      (* where the call in progress is                              *)
  call,      (* its operation and sector                                   *)
  ok,        (* what the last read_sector returned                         *)
  calls,     (* history: calls begun                                       *)
  latest     (* history: what was last written to each sector by callers   *)

slot == <<disk, ci, tfes, hba, command>>
transfer == <<slot, data, table, step, call, ok, calls, latest>>
diskVars == <<vars, transfer>>

DiskInit ==
  /\ Init
  /\ disk = [l \in Lbas |-> Zero] /\ latest = disk
  /\ data = Zero
  /\ table = NoCommand /\ command = NoCommand /\ call = NoCommand
  /\ ci = FALSE /\ tfes = FALSE /\ hba = "idle"
  /\ step = "idle" /\ ok = FALSE
  /\ calls = 0

-----------------------------------------------------------------------------
(* The HBA.  PxTFD shows BSY from the fetching of a command to its end.    *)
Busy == hba \in {"fetched", "moved", "hung"}
Broken == hba \in {"halted", "hung"}
InService == ae /\ port[active].cr

Fetch ==
  /\ ci /\ hba = "idle" /\ InService
  /\ hba' = "fetched"
  /\ command' = table
  /\ UNCHANGED <<vars, disk, data, table, ci, tfes, step, call, ok, calls, latest>>

MoveData ==
  /\ hba = "fetched"
  /\ hba' = "moved"
  /\ \/ command.op = "read" /\ data' = disk[command.lba] /\ UNCHANGED disk
     \/ command.op = "write" /\ disk' = [disk EXCEPT ![command.lba] = data]
                             /\ UNCHANGED data
  /\ UNCHANGED <<vars, table, ci, tfes, command, step, call, ok, calls, latest>>

Complete ==
  /\ hba = "moved"
  /\ hba' = "idle" /\ ci' = FALSE /\ command' = NoCommand
  /\ UNCHANGED <<vars, disk, data, table, tfes, step, call, ok, calls, latest>>

(* An error halts the port, PxCI as it is, until somebody restarts it; a   *)
(* device may also never answer.                                           *)
Fail ==
  /\ MayFail /\ hba = "fetched"
  /\ \/ hba' = "halted" /\ tfes' = TRUE
     \/ hba' = "hung" /\ UNCHANGED tfes
  /\ command' = NoCommand
  /\ UNCHANGED <<vars, disk, data, table, ci, step, call, ok, calls, latest>>

(* A reset clears PxCI and PxIS and drops the command.                     *)
ResetDropsCommand ==
  /\ ResetEnds
  /\ ci' = FALSE /\ tfes' = FALSE /\ hba' = "idle" /\ command' = NoCommand
  /\ UNCHANGED <<disk, data, table, step, call, ok, calls, latest>>

-----------------------------------------------------------------------------
(* read_sector: wait until the device is neither busy nor asks for data.   *)
Call(c) ==
  /\ pc = "done" /\ active # NoPort
  /\ step = "idle" /\ calls < MaxCalls
  /\ calls' = calls + 1
  /\ call' = c

ReadSector(l) ==
  /\ Call([op |-> "read", lba |-> l])
  /\ step' = "ready"
  /\ UNCHANGED <<vars, slot, data, table, ok, latest>>

Returns ==
  /\ step' = "idle"
  /\ call' = NoCommand

(* A device may still be busy with the reset of its port.                  *)
NotReady ==
  /\ step = "ready"
  /\ port[active].busy \/ (Busy /\ (Broken \/ ~ PollingIsEnough))
  /\ ok' = FALSE
  /\ Returns
  /\ UNCHANGED <<vars, slot, data, table, calls, latest>>

Ready ==
  /\ step = "ready" /\ ~ Busy /\ ~ port[active].busy
  /\ tfes' = FALSE
  /\ step' = "table"
  /\ UNCHANGED <<vars, disk, ci, hba, command, data, table, call, ok, calls, latest>>

(* The command table is cleared and filled. *)
FillTable ==
  /\ step = "table"
  /\ table' = call
  /\ step' = "issue"
  /\ UNCHANGED <<vars, slot, data, call, ok, calls, latest>>

(* A port that is not switched on may ignore it.                           *)
Issue ==
  /\ step = "issue"
  /\ \/ ci' = TRUE
     \/ ~ port[active].st /\ UNCHANGED ci
  /\ step' = IF call.op = "read" THEN "poll" ELSE "delay"
  /\ UNCHANGED <<vars, disk, tfes, hba, command, data, table, call, ok, calls, latest>>

ReadDone ==
  /\ step = "poll" /\ ~ ci
  /\ ok' = TRUE
  /\ Returns
  /\ UNCHANGED <<vars, slot, data, table, calls, latest>>

(* The error bits are acknowledged, the port is not restarted. *)
ReadError ==
  /\ step = "poll" /\ ci /\ tfes
  /\ tfes' = FALSE
  /\ ok' = FALSE
  /\ Returns
  /\ UNCHANGED <<vars, disk, ci, hba, command, data, table, calls, latest>>

(* A slip: on a port that has failed the read polls without limit. *)
ReadTimeoutMissing ==
  /\ step = "poll" /\ ci /\ ~ tfes
  /\ ~ PollingIsEnough /\ ~ Broken
  /\ ok' = FALSE
  /\ Returns
  /\ UNCHANGED <<vars, slot, data, table, calls, latest>>

ReadTimeout ==
  /\ step = "poll" /\ ci /\ ~ tfes
  /\ Broken \/ ~ InService \/ ~ PollingIsEnough
  /\ ok' = FALSE
  /\ Returns
  /\ UNCHANGED <<vars, slot, data, table, calls, latest>>

-----------------------------------------------------------------------------
(* write_sector of what the caller has put into the buffer: no wait for    *)
(* the device before, a fixed delay after.                                 *)
WriteSector(l, v) ==
  /\ Call([op |-> "write", lba |-> l])
  /\ data' = v
  /\ latest' = [latest EXCEPT ![l] = v]
  /\ step' = "table"
  /\ UNCHANGED <<vars, slot, table, ok>>

(* A slip: the write returns without the delay. *)
WriteReturnsAtOnce ==
  /\ step = "delay"
  /\ Returns
  /\ UNCHANGED <<vars, slot, data, table, ok, calls, latest>>

WriteReturns ==
  /\ step = "delay"
  /\ ~ ci \/ Broken \/ ~ InService \/ ~ DelayIsEnough
  /\ Returns
  /\ UNCHANGED <<vars, slot, data, table, ok, calls, latest>>

-----------------------------------------------------------------------------
Calls ==
  \/ \E l \in Lbas : ReadSector(l)
  \/ \E l \in Lbas, v \in Values : WriteSector(l, v)

Transfer ==
  \/ NotReady \/ Ready \/ FillTable \/ Issue
  \/ ReadDone \/ ReadError \/ ReadTimeout
  \/ WriteReturns

Work == Fetch \/ MoveData \/ Complete

BringUp == Driver /\ UNCHANGED transfer

PortChanges ==
  /\ \E q \in Ports : EngineFollows(q) \/ LinkComesUp(q) \/ DeviceReports(q)
  /\ UNCHANGED transfer

DiskNext ==
  \/ BringUp \/ PortChanges \/ ResetDropsCommand
  \/ Calls \/ Transfer \/ Work \/ Fail

(* The HBA finishes what it is asked unless it fails; the processor goes   *)
(* on.                                                                     *)
DiskSpec ==
  /\ DiskInit /\ [][DiskNext]_diskVars
  /\ WF_diskVars(BringUp) /\ WF_diskVars(Transfer) /\ WF_diskVars(Work)

-----------------------------------------------------------------------------
(* A read that returns true leaves in the buffer what was last written to  *)
(* its sector: no write is lost, however the device fails, and             *)
(* the data is not that of another command.  (A reset that ends late       *)
(* clears PxCI, which read_sector takes for success.)                      *)
ReadsWhatWasWritten ==
  [][step = "poll" /\ step' = "idle" /\ ok' =>
       data' = latest[call.lba] \/ late]_diskVars

(* Whatever the bring-up has gone through, read_sector returns false only  *)
(* on a device that has failed, or, from its first wait, on one that still *)
(* shows BSY for the reset of its port, which init_port does not insist    *)
(* on: the port takes commands, and none is left over from an earlier call *)
(* for that wait to run out on.  (A reset that ends late excuses all.)     *)
ReadsSucceed ==
  [][step' = "idle" /\ step \in {"ready", "poll"} =>
       ok' \/ Broken \/ late \/ (step = "ready" /\ port[active].busy)]_diskVars

(* Every call returns, also when the device has failed or the controller   *)
(* was reset in the middle.                                                *)
EveryCallReturns == step # "idle" ~> step = "idle"
=============================================================================
