------------------------------- MODULE AhciPort -------------------------------
(***************************************************************************)
(* How kmain finds its disk: reset_hba and init_port of kernel/src/ahci.rs *)
(* and the search over the implemented ports in kernel/src/main.rs,        *)
(* against a controller the firmware has used before.                      *)
(*                                                                         *)
(* Each access to a register is a step; the controller changes its own     *)
(* bits in between, when it likes or never.  All ports are given the same  *)
(* command list and the same area for received FISes.  Ahci goes on with   *)
(* what is done with the port once it was selected.                        *)
(***************************************************************************)
EXTENDS Integers, FiniteSets

CONSTANTS
  Ports,      (* the ports set in PxPI                                     *)
  PollLimit   (* the polls of a wait before it is given up                 *)

ASSUME PortAssumption ==
  Ports \subseteq Nat /\ Ports # {} /\ IsFiniteSet(Ports)

ASSUME PollAssumption == PollLimit \in Nat

NoPort == -1
Kinds == {"absent", "disk", "atapi"}

VARIABLES
  kind,      (* what is plugged into each port                             *)
  port,      (* the registers of each port                                 *)
  ae, hr,    (* GHC: AHCI enabled, reset under way                         *)
  pc,        (* the next step of kmain, reset_hba or init_port             *)
  resets,    (* calls of reset_hba begun                                   *)
  at,        (* port_idx                                                   *)
  timeout,   (* the local of the wait under way                            *)
  active,    (* active_port                                                *)
  late,      (* history: the last reset was given up, it may end any time  *)
  gaveUp     (* history: ports given up while they were being started      *)

device == <<kind, port, ae, hr>>
driver == <<pc, resets, at, timeout, active, late, gaveUp>>
vars == <<device, driver>>

(* PxCMD.ST and FRE are the driver's, CR and FR the controller's answers;  *)
(* "list" stands for the pointers PxCLB and PxFB, "link" for PxSSTS.DET    *)
(* being 3, "busy" for BSY or DRQ of PxTFD.                                *)
Registers ==
  [st : BOOLEAN, fre : BOOLEAN, cr : BOOLEAN, fr : BOOLEAN,
   list : {"other", "ours"}, link : BOOLEAN,
   sig : Kinds, busy : BOOLEAN]

(* The firmware may have left each port stopped or running, never on the   *)
(* kernel's memory.                                                        *)
FirmwareLeaves(q, r) ==
  /\ r.cr = r.st /\ r.fr = r.fre /\ (r.st => r.fre)
  /\ r.list = "other"
  /\ r.link = (kind[q] # "absent") /\ r.sig = kind[q] /\ ~ r.busy

Init ==
  /\ kind \in [Ports -> Kinds]
  /\ port \in [Ports -> Registers]
  /\ \A q \in Ports : FirmwareLeaves(q, port[q])
  /\ ae \in BOOLEAN /\ hr = FALSE
  /\ pc = "reset_hba" /\ resets = 1
  /\ at = NoPort /\ timeout = 0 /\ active = NoPort
  /\ late = FALSE /\ gaveUp = {}

-----------------------------------------------------------------------------
(* The controller.                                                         *)
Changes(q, r) ==
  /\ port' = [port EXCEPT ![q] = r]
  /\ UNCHANGED <<kind, ae, hr, driver>>

(* The command engine and the FIS receiver follow their switches.          *)
EngineFollows(q) ==
  \/ port[q].cr # port[q].st /\ Changes(q, [port[q] EXCEPT !.cr = @ = FALSE])
  \/ port[q].fr # port[q].fre /\ Changes(q, [port[q] EXCEPT !.fr = @ = FALSE])

LinkComesUp(q) ==
  /\ kind[q] # "absent" /\ ~ port[q].link
  /\ Changes(q, [port[q] EXCEPT !.link = TRUE])

(* The first FIS of the device tells what it is.                           *)
DeviceReports(q) ==
  /\ port[q].link /\ port[q].busy
  /\ Changes(q, [port[q] EXCEPT !.sig = kind[q], !.busy = FALSE])

Blank == [st |-> FALSE, fre |-> FALSE, cr |-> FALSE, fr |-> FALSE,
          list |-> "other", link |-> FALSE, sig |-> "absent", busy |-> TRUE]

(* A reset sets every register back; AE stays set in a controller that     *)
(* knows no other mode.                                                    *)
ResetEnds ==
  /\ hr
  /\ hr' = FALSE /\ ae' \in BOOLEAN
  /\ port' = [q \in Ports |-> Blank]
  /\ UNCHANGED <<kind, driver>>

-----------------------------------------------------------------------------
Goto(next) == pc' = next /\ UNCHANGED <<resets, at, active, late, gaveUp>>
SetTimeout == timeout' = PollLimit
SetPort(q, r) == port' = [port EXCEPT ![q] = r] /\ UNCHANGED <<kind, ae, hr>>

(* The counted waits: what each looks for and what comes after it.         *)
Seen ==
  \/ pc = "await_reset" /\ ~ hr
  \/ pc = "await_link" /\ port[at].link
  \/ pc = "await_commands_off" /\ ~ port[at].cr
  \/ pc = "await_fis_off" /\ ~ port[at].fr
  \/ pc = "await_fis_on" /\ port[at].fr
  \/ pc = "await_idle" /\ ~ port[at].busy
  \/ pc = "await_commands_on" /\ port[at].cr

AfterWait ==
  [await_reset |-> "enable_again", await_link |-> "check_signature",
   await_commands_off |-> "await_fis_off", await_fis_off |-> "set_pointers",
   await_fis_on |-> "await_idle", await_idle |-> "start_commands",
   await_commands_on |-> "selected"]

Waits == DOMAIN AfterWait

PollsAgain == ~ Seen /\ timeout > 0

(* A slip: the polls are not counted. *)
PollUncounted ==
  /\ pc \in Waits /\ PollsAgain
  /\ UNCHANGED vars

Poll ==
  /\ pc \in Waits /\ PollsAgain
  /\ timeout' = timeout - 1
  /\ UNCHANGED <<device, pc, resets, at, active, late, gaveUp>>

(* A wait has ended well only if its count was not used up, even when the  *)
(* last look found what it waited for.                                     *)
WaitOver ==
  /\ pc \in Waits /\ Seen /\ timeout > 0
  /\ SetTimeout        (* two waits follow on another *)
  /\ pc' = AfterWait[pc]
  /\ late' = (late /\ pc # "await_reset")
  /\ UNCHANGED <<device, resets, at, active, gaveUp>>

GivenUp(wait) == pc = wait /\ ~ PollsAgain /\ ~ timeout > 0

-----------------------------------------------------------------------------
(* reset_hba, called twice; what it returns is ignored.                    *)
EnableAhci ==
  /\ pc = "reset_hba"
  /\ ae' = TRUE
  /\ Goto("reset")
  /\ UNCHANGED <<kind, port, hr, timeout>>

(* A reset that is still under way is not begun again.                     *)
BeginReset ==
  /\ pc = "reset"
  /\ hr' = TRUE
  /\ SetTimeout
  /\ Goto(IF hr THEN "reset_returns" ELSE "await_reset")
  /\ UNCHANGED <<kind, port, ae>>

ResetTimeout ==
  /\ GivenUp("await_reset")
  /\ late' = TRUE
  /\ pc' = "reset_returns"
  /\ UNCHANGED <<device, resets, at, timeout, active, gaveUp>>

(* A slip: the reset has cleared AE. *)
EnableAgainForgotten ==
  /\ pc = "enable_again"
  /\ Goto("reset_returns")
  /\ UNCHANGED <<device, timeout>>

EnableAgain ==
  /\ pc = "enable_again"
  /\ ae' = TRUE
  /\ Goto("reset_returns")
  /\ UNCHANGED <<kind, port, hr, timeout>>

(* Between its two resets kmain writes GHC itself; then it turns to the    *)
(* first port.                                                             *)
ResetReturns ==
  /\ pc = "reset_returns"
  /\ IF resets = 1
     THEN resets' = 2 /\ ae' = TRUE /\ pc' = "reset_hba"
     ELSE UNCHANGED <<resets, ae>> /\ pc' = "next_port"
  /\ UNCHANGED <<kind, port, hr, at, timeout, active, late, gaveUp>>

-----------------------------------------------------------------------------
(* The search: the ports in ascending order until one comes up.            *)
Behind(q) == {p \in Ports : p > q}

TryPort ==
  /\ pc = "next_port"
  /\ \E q \in Behind(at) :
       /\ \A p \in Behind(at) : q <= p
       /\ at' = q
       /\ pc' = "stop_commands"
  /\ UNCHANGED <<device, resets, timeout, active, late, gaveUp>>

NoPortLeft ==
  /\ pc = "next_port" /\ Behind(at) = {}
  /\ Goto("done")
  /\ UNCHANGED <<device, timeout>>

(* A slip: the search goes on behind a port that came up. *)
SelectGoesOn ==
  /\ pc = "selected"
  /\ active' = at
  /\ pc' = "next_port"
  /\ UNCHANGED <<device, resets, at, timeout, late, gaveUp>>

Select ==
  /\ pc = "selected"
  /\ active' = at
  /\ pc' = "done"
  /\ UNCHANGED <<device, resets, at, timeout, late, gaveUp>>

-----------------------------------------------------------------------------
(* init_port for the port "at".                                            *)
StopCommands ==
  /\ pc = "stop_commands"
  /\ SetPort(at, [port[at] EXCEPT !.st = FALSE])
  /\ Goto("comreset")
  /\ UNCHANGED timeout

(* PxSCTL.DET is set to 1 and, 10 ms later, back to 0.                     *)
Comreset ==
  /\ pc = "comreset"
  /\ SetPort(at, [port[at] EXCEPT !.link = FALSE, !.sig = "absent",
                                  !.busy = TRUE])
  /\ SetTimeout
  /\ Goto("await_link")

(* Only the signature of an ATAPI device is refused, one that has not come *)
(* yet is not.  Then the shared memory is zeroed and the port's interrupts *)
(* are cleared.                                                            *)
CheckSignature ==
  /\ pc = "check_signature"
  /\ Goto(IF port[at].sig = "atapi" THEN "next_port" ELSE "stop_engines")
  /\ UNCHANGED <<device, timeout>>

StopEngines ==
  /\ pc = "stop_engines"
  /\ SetPort(at, [port[at] EXCEPT !.st = FALSE, !.fre = FALSE])
  /\ SetTimeout
  /\ Goto("await_commands_off")

(* Nothing on this port, or an engine of it that does not stop: init_port  *)
(* returns false.                                                          *)
NoDevice ==
  /\ GivenUp("await_link")
  /\ Goto("next_port")
  /\ UNCHANGED <<device, timeout>>

(* A slip: an engine that did not stop is taken for stopped. *)
NotStoppedGoesOn ==
  /\ GivenUp("await_commands_off") \/ GivenUp("await_fis_off")
  /\ Goto("set_pointers")
  /\ UNCHANGED <<device, timeout>>

NotStopped ==
  /\ GivenUp("await_commands_off") \/ GivenUp("await_fis_off")
  /\ Goto("next_port")
  /\ UNCHANGED <<device, timeout>>

(* PxCLB and PxFB, and the header of the only command slot.                *)
SetPointers ==
  /\ pc = "set_pointers"
  /\ SetPort(at, [port[at] EXCEPT !.list = "ours"])
  /\ Goto("enable_fis")
  /\ UNCHANGED timeout

EnableFis ==
  /\ pc = "enable_fis"
  /\ SetPort(at, [port[at] EXCEPT !.fre = TRUE])
  /\ SetTimeout
  /\ Goto("await_fis_on")

(* A device that stays busy is only reported.                              *)
StaysBusy ==
  /\ GivenUp("await_idle")
  /\ Goto("start_commands")
  /\ UNCHANGED <<device, timeout>>

StartCommands ==
  /\ pc = "start_commands"
  /\ SetPort(at, [port[at] EXCEPT !.st = TRUE])
  /\ SetTimeout
  /\ Goto("await_commands_on")

(* A slip: an engine that did not start is only reported, too.             *)
NotStartedReported ==
  /\ GivenUp("await_fis_on") \/ GivenUp("await_commands_on")
  /\ Goto(AfterWait[pc])
  /\ UNCHANGED <<device, timeout>>

(* The port is left with its switches on.                                  *)
NotStarted ==
  /\ GivenUp("await_fis_on") \/ GivenUp("await_commands_on")
  /\ gaveUp' = gaveUp \union {at}
  /\ pc' = "next_port"
  /\ UNCHANGED <<device, resets, at, timeout, active, late>>

-----------------------------------------------------------------------------
ResetHba == EnableAhci \/ BeginReset \/ ResetTimeout \/ EnableAgain

InitPort ==
  \/ StopCommands \/ Comreset \/ NoDevice \/ CheckSignature
  \/ StopEngines \/ NotStopped \/ SetPointers
  \/ EnableFis \/ StaysBusy \/ StartCommands \/ NotStarted

Driver ==
  \/ ResetHba \/ ResetReturns
  \/ TryPort \/ NoPortLeft \/ Select
  \/ InitPort \/ Poll \/ WaitOver

Controller ==
  \/ \E q \in Ports : EngineFollows(q) \/ LinkComesUp(q) \/ DeviceReports(q)
  \/ ResetEnds

Next == Driver \/ Controller

(* The processor goes on; the controller need not do anything.             *)
Spec == Init /\ [][Next]_vars /\ WF_vars(Driver)

-----------------------------------------------------------------------------
Steps ==
  Waits \union
  {"reset_hba", "reset", "enable_again", "reset_returns", "next_port",
   "stop_commands", "comreset", "check_signature", "stop_engines",
   "set_pointers", "enable_fis", "start_commands", "selected", "done"}

(* Every variable has its type.                                            *)
TypeOK ==
  /\ kind \in [Ports -> Kinds] /\ port \in [Ports -> Registers]
  /\ {ae, hr, late} \subseteq BOOLEAN
  /\ pc \in Steps /\ resets \in 1 .. 2 /\ timeout \in 0 .. PollLimit
  /\ {at, active} \subseteq Ports \union {NoPort} /\ gaveUp \subseteq Ports

Running(q) == port[q].cr \/ port[q].fr

(* The pointers of a port are changed only while neither of its engines    *)
(* runs, and its command engine is switched on only when it has the        *)
(* kernel's pointers and receives FISes; a reset that was given up may end *)
(* in between.                                                             *)
EnginesInOrder ==
  [][\A q \in Ports :
       /\ port[q].list = "other" /\ port'[q].list = "ours" => ~ Running(q)
       /\ ~ port[q].st /\ port'[q].st /\ ~ late =>
            port[q].fr /\ port[q].list = "ours"]_vars

(* A port that was selected is connected and runs on the kernel's memory,  *)
(* in a controller that is in AHCI mode.                                   *)
SelectedPortRuns ==
  active # NoPort /\ ~ late =>
    /\ ae
    /\ port[active].cr /\ port[active].fr
    /\ port[active].list = "ours" /\ port[active].link

(* The one command list has one user: the port being brought up or         *)
(* selected; beside it only a port that was given up while it started,     *)
(* and may come up late.                                                   *)
MemoryNotShared ==
  \A q \in Ports : port[q].list = "ours" /\ Running(q) => q = at \/ q \in gaveUp

(* However the controller behaves, kmain comes to an end of its search.    *)
BringUpEnds == <>(pc = "done")
=============================================================================
