----------------------------- MODULE AhciProofs -----------------------------
(***************************************************************************)
(* Bring-up and transfers of the disk proved for every set of ports and    *)
(* sectors, every length of the waits, any number of calls and every       *)
(* behaviour of the controller.                                            *)
(*                                                                         *)
(* AhciPort: engines are stopped and started in order, the shared command  *)
(* list has one user, and a port that was selected runs.  None of the      *)
(* three is inductive: each rests on what the waits before have seen,      *)
(* which stays true only because the controller follows switches that      *)
(* nobody turns in the meantime, and because no reset is under way.        *)
(*                                                                         *)
(* Ahci, on top of it: while the driver's waits are long enough and no     *)
(* reset is late, a read that returns true has the sector's last contents, *)
(* and only a device that has failed makes a read fail.  Neither is        *)
(* inductive.  The invariant follows the one command through the slot:     *)
(* where it is tells what disk and buffer hold.                            *)
(***************************************************************************)
EXTENDS Ahci, TLAPS

Resetting == {"reset_hba", "reset", "await_reset", "enable_again"}

(* The steps of init_port between which the engines are off, are receiving *)
(* FISes again, and so on: each set holds the steps behind one event.      *)
SwitchedOff == {"await_commands_off", "await_fis_off", "set_pointers"}
Started == {"await_commands_on", "selected"}
Receiving == Started \union {"await_idle", "start_commands"}
FisSwitched == Receiving \union {"await_fis_on"}
Pointed == FisSwitched \union {"enable_fis"}
Connected == Pointed \union SwitchedOff \union {"check_signature", "stop_engines"}
InPort == Connected \union {"stop_commands", "comreset", "await_link"}
Unpointed == (InPort \ Pointed) \union {"next_port"}

(* Outside of reset_hba's own wait a reset is under way only after one was *)
(* given up, and without one the controller is in AHCI mode.               *)
NoReset ==
  ~ late =>
    /\ hr => pc = "await_reset"
    /\ pc \notin Resetting => ae

Place ==
  /\ pc \in InPort \union {"selected"} => at \in Ports
  /\ pc \in Resetting \union {"reset_returns"} => at = NoPort

(* What the wait for each engine to stop leaves behind.                    *)
Stopping ==
  /\ pc \in SwitchedOff => ~ port[at].st /\ ~ port[at].fre
  /\ pc \in {"await_fis_off", "set_pointers"} => ~ port[at].cr
  /\ pc = "set_pointers" => ~ port[at].fr

(* What a port has gone through when it is started.                        *)
Starting ==
  ~ late =>
    /\ pc \in Connected => port[at].link
    /\ pc \in Pointed => port[at].list = "ours"
    /\ pc \in FisSwitched => port[at].fre
    /\ pc \in Receiving => port[at].fr
    /\ pc \in Started => port[at].st
    /\ pc = "selected" => port[at].cr

Runs(q) ==
  /\ port[q].link /\ port[q].list = "ours"
  /\ port[q].st /\ port[q].cr /\ port[q].fre /\ port[q].fr

Chosen ==
  active # NoPort =>
    /\ pc = "done" /\ active = at
    /\ ~ late => Runs(active)

(* Ports with the kernel's pointers are behind or at the search, and all   *)
(* but the one being started were given up.                                *)
Owners ==
  \A q \in Ports :
    port[q].list = "ours" =>
      /\ q <= at
      /\ q \in gaveUp \/ (q = at /\ pc \notin Unpointed)

IInv ==
  /\ TypeOK /\ NoReset /\ Place /\ Stopping /\ Starting /\ Chosen /\ Owners

-----------------------------------------------------------------------------
(* The waits, listed.                                                      *)
LEMMA WaitSteps ==
  Waits = {"await_reset", "await_link", "await_commands_off", "await_fis_off",
           "await_fis_on", "await_idle", "await_commands_on"}
  BY DEF Waits, AfterWait

LEMMA NoPortIsNone == NoPort \notin Ports
  BY PortAssumption DEF NoPort

LEMMA PortsAreNumbers == \A q \in Ports \union {NoPort} : q \in Int
  BY PortAssumption DEF NoPort

(* The ways in which driver and controller write the registers of a port.  *)
LEMMA RegistersUpdated ==
  ASSUME NEW r \in Registers, NEW k \in Kinds
  PROVE  /\ [r EXCEPT !.st = FALSE] \in Registers
         /\ [r EXCEPT !.st = TRUE] \in Registers
         /\ [r EXCEPT !.fre = TRUE] \in Registers
         /\ [r EXCEPT !.st = FALSE, !.fre = FALSE] \in Registers
         /\ [r EXCEPT !.cr = @ = FALSE] \in Registers
         /\ [r EXCEPT !.fr = @ = FALSE] \in Registers
         /\ [r EXCEPT !.list = "ours"] \in Registers
         /\ [r EXCEPT !.link = TRUE] \in Registers
         /\ [r EXCEPT !.sig = k, !.busy = FALSE] \in Registers
         /\ [r EXCEPT !.link = FALSE, !.sig = "absent", !.busy = TRUE]
              \in Registers
         /\ Blank \in Registers
  BY DEF Registers, Kinds, Blank

LEMMA PortUpdated ==
  ASSUME port \in [Ports -> Registers], NEW q \in Ports, NEW r \in Registers
  PROVE  [port EXCEPT ![q] = r] \in [Ports -> Registers]
  OBVIOUS

LEMMA InitInvariant == Init => IInv
<1> SUFFICES ASSUME Init PROVE IInv
  OBVIOUS
<1> USE PortAssumption, PollAssumption, NoPortIsNone, WaitSteps
    DEF Init, FirmwareLeaves, Resetting, SwitchedOff, Started, Receiving,
        FisSwitched, Pointed, Connected, InPort, Unpointed
<1>1. TypeOK
  <2>1. kind \in [Ports -> Kinds] /\ port \in [Ports -> Registers]
    OBVIOUS
  <2>2. {ae, hr, late} \subseteq BOOLEAN
    OBVIOUS
  <2>3. pc \in Steps
    BY DEF Steps
  <2>4. resets \in 1 .. 2 /\ timeout \in 0 .. PollLimit
    OBVIOUS
  <2>5. {at, active} \subseteq Ports \union {NoPort} /\ gaveUp \subseteq Ports
    OBVIOUS
  <2> QED
    BY <2>1, <2>2, <2>3, <2>4, <2>5 DEF TypeOK
<1>2. NoReset /\ Place /\ Stopping /\ Starting /\ Chosen
  BY DEF NoReset, Place, Stopping, Starting, Chosen
<1>3. Owners
  BY DEF Owners
<1> QED
  BY <1>1, <1>2, <1>3 DEF IInv

(* Every step leaves every variable in its type.                           *)
LEMMA TypeStep == TypeOK /\ Place /\ [Next]_vars => TypeOK'
<1> SUFFICES ASSUME TypeOK, Place, [Next]_vars PROVE TypeOK'
  OBVIOUS
<1> USE PollAssumption, WaitSteps DEF TypeOK, Steps
<1>0. pc \in InPort => at \in Ports /\ port[at] \in Registers
  BY DEF Place
<1>1. CASE EnableAhci
  BY <1>1 DEF EnableAhci, Goto, device
<1>2. CASE BeginReset
  BY <1>2 DEF BeginReset, SetTimeout, Goto, device
<1>3. CASE ResetTimeout
  BY <1>3 DEF ResetTimeout, GivenUp, PollsAgain, Seen, Goto, device
<1>4. CASE EnableAgain
  BY <1>4 DEF EnableAgain, Goto, device
<1>5. CASE ResetReturns
  <2>1. CASE resets = 1
    BY <1>5, <2>1 DEF ResetReturns
  <2>2. CASE resets # 1
    BY <1>5, <2>2 DEF ResetReturns
  <2> QED
    BY <2>1, <2>2
<1>6. CASE TryPort
  BY <1>6 DEF TryPort, Behind, Goto, device
<1>7. CASE NoPortLeft
  BY <1>7 DEF NoPortLeft, Behind, Goto, device
<1>8. CASE Select
  BY <1>8 DEF Select, Goto, device
<1>9. CASE StopCommands
  <2>1. at \in Ports /\ port[at] \in Registers
    BY <1>0, <1>9, Zenon DEF StopCommands, InPort, Connected, Pointed, FisSwitched, Receiving,
       Started, SwitchedOff
  <2>2. port' \in [Ports -> Registers]
    BY <1>9, <2>1, RegistersUpdated, PortUpdated, Zenon DEF StopCommands, SetPort, Kinds
  <2> QED
    BY <1>9, <2>2 DEF StopCommands, SetPort, Goto, device
<1>10. CASE Comreset
  <2>1. at \in Ports /\ port[at] \in Registers
    BY <1>0, <1>10, Zenon DEF Comreset, InPort, Connected, Pointed, FisSwitched, Receiving,
       Started, SwitchedOff
  <2>2. port' \in [Ports -> Registers]
    BY <1>10, <2>1, RegistersUpdated, PortUpdated, Zenon DEF Comreset, SetPort, Kinds
  <2> QED
    BY <1>10, <2>2 DEF Comreset, SetPort, SetTimeout, Goto, device
<1>11. CASE NoDevice
  BY <1>11 DEF NoDevice, GivenUp, PollsAgain, Seen, Goto, device
<1>12. CASE CheckSignature
  BY <1>12 DEF CheckSignature, Goto, device
<1>13. CASE StopEngines
  <2>1. at \in Ports /\ port[at] \in Registers
    BY <1>0, <1>13, Zenon DEF StopEngines, InPort, Connected, Pointed, FisSwitched, Receiving,
       Started, SwitchedOff
  <2>2. port' \in [Ports -> Registers]
    BY <1>13, <2>1, RegistersUpdated, PortUpdated, Zenon DEF StopEngines, SetPort, Kinds
  <2> QED
    BY <1>13, <2>2 DEF StopEngines, SetPort, SetTimeout, Goto, device
<1>14. CASE NotStopped
  BY <1>14 DEF NotStopped, GivenUp, PollsAgain, Seen, Goto, device
<1>15. CASE SetPointers
  <2>1. at \in Ports /\ port[at] \in Registers
    BY <1>0, <1>15, Zenon DEF SetPointers, InPort, Connected, Pointed, FisSwitched, Receiving,
       Started, SwitchedOff
  <2>2. port' \in [Ports -> Registers]
    BY <1>15, <2>1, RegistersUpdated, PortUpdated, Zenon DEF SetPointers, SetPort, Kinds
  <2> QED
    BY <1>15, <2>2 DEF SetPointers, SetPort, Goto, device
<1>16. CASE EnableFis
  <2>1. at \in Ports /\ port[at] \in Registers
    BY <1>0, <1>16, Zenon DEF EnableFis, InPort, Connected, Pointed, FisSwitched, Receiving,
       Started, SwitchedOff
  <2>2. port' \in [Ports -> Registers]
    BY <1>16, <2>1, RegistersUpdated, PortUpdated, Zenon DEF EnableFis, SetPort, Kinds
  <2> QED
    BY <1>16, <2>2 DEF EnableFis, SetPort, SetTimeout, Goto, device
<1>17. CASE StaysBusy
  BY <1>17 DEF StaysBusy, GivenUp, PollsAgain, Seen, Goto, device
<1>18. CASE StartCommands
  <2>1. at \in Ports /\ port[at] \in Registers
    BY <1>0, <1>18, Zenon DEF StartCommands, InPort, Connected, Pointed, FisSwitched, Receiving,
       Started, SwitchedOff
  <2>2. port' \in [Ports -> Registers]
    BY <1>18, <2>1, RegistersUpdated, PortUpdated, Zenon DEF StartCommands, SetPort, Kinds
  <2> QED
    BY <1>18, <2>2 DEF StartCommands, SetPort, SetTimeout, Goto, device
<1>19. CASE NotStarted
  <2>1. at \in Ports
    BY <1>0, <1>19 DEF NotStarted, GivenUp, InPort, Connected, Pointed,
       FisSwitched, Receiving, Started
  <2> QED
    BY <1>19, <2>1 DEF NotStarted, device
<1>20. CASE Poll
  BY <1>20 DEF Poll, PollsAgain, Seen, Goto, device
<1>21. CASE WaitOver
  BY <1>21 DEF WaitOver, AfterWait, Seen, SetTimeout, Goto, device
<1>22. ASSUME NEW q \in Ports, EngineFollows(q) PROVE TypeOK'
  <2>0. port[q] \in Registers /\ "disk" \in Kinds
    BY DEF Kinds
  <2>1. port' \in [Ports -> Registers]
    <3>1. CASE Changes(q, [port[q] EXCEPT !.cr = @ = FALSE])
      BY <2>0, <3>1, RegistersUpdated, PortUpdated, ZenonT(60) DEF Changes
    <3>2. CASE Changes(q, [port[q] EXCEPT !.fr = @ = FALSE])
      BY <2>0, <3>2, RegistersUpdated, PortUpdated DEF Changes
    <3> QED
      BY <1>22, <3>1, <3>2 DEF EngineFollows
  <2> QED
    BY <1>22, <2>1 DEF EngineFollows, Changes, driver
<1>23. ASSUME NEW q \in Ports, LinkComesUp(q) PROVE TypeOK'
  <2>1. port' \in [Ports -> Registers]
    BY <1>23, RegistersUpdated, PortUpdated, ZenonT(60) DEF LinkComesUp, Changes
  <2> QED
    BY <1>23, <2>1, SMTT(30) DEF LinkComesUp, Changes, driver
<1>24. ASSUME NEW q \in Ports, DeviceReports(q) PROVE TypeOK'
  <2>1. port' \in [Ports -> Registers]
    BY <1>24, RegistersUpdated, PortUpdated, ZenonT(60) DEF DeviceReports, Changes
  <2> QED
    BY <1>24, <2>1 DEF DeviceReports, Changes, driver
<1>25. CASE ResetEnds
  BY <1>25, RegistersUpdated, ZenonT(60) DEF ResetEnds, driver, Kinds
<1>26. CASE UNCHANGED vars
  BY <1>26 DEF vars, device, driver
<1> QED
  BY <1>1, <1>2, <1>3, <1>4, <1>5, <1>6, <1>7, <1>8, <1>9, <1>10, <1>11, <1>12, <1>13, <1>14, <1>15, <1>16, <1>17, <1>18, <1>19, <1>20, <1>21, <1>22, <1>23, <1>24, <1>25, <1>26
  DEF Next, Driver, Controller, ResetHba, InitPort

(* Every step preserves the invariant.                                     *)
LEMMA StepInvariant == IInv /\ [Next]_vars => IInv'
<1> SUFFICES ASSUME IInv, [Next]_vars PROVE IInv'
  OBVIOUS
<1>0. TypeOK'
  BY TypeStep DEF IInv
<1> USE <1>0, PortAssumption, NoPortIsNone, WaitSteps
    DEF IInv, TypeOK, NoReset, Place, Stopping, Starting, Chosen, Owners, Runs,
        Registers, Steps, Resetting, SwitchedOff, Started, Receiving,
        FisSwitched, Pointed, Connected, InPort, Unpointed
<1>1. CASE EnableAhci
  BY <1>1 DEF EnableAhci, Goto, device
<1>2. CASE BeginReset
  BY <1>2 DEF BeginReset, SetTimeout, Goto, device
<1>3. CASE ResetTimeout
  BY <1>3 DEF ResetTimeout, GivenUp, PollsAgain, Seen, Goto, device
<1>4. CASE EnableAgain
  BY <1>4 DEF EnableAgain, Goto, device
<1>5. CASE ResetReturns
  BY <1>5 DEF ResetReturns, Goto, device
<1>6. CASE TryPort
  <2>1. NoReset' /\ Place' /\ Stopping' /\ Starting' /\ Chosen'
    BY <1>6 DEF TryPort, Behind, Goto, device
  <2>2. Owners'
    <3> SUFFICES ASSUME NEW p \in Ports, port'[p].list = "ours"
                 PROVE  p <= at' /\ p \in gaveUp'
      OBVIOUS
    <3>1. p <= at /\ p \in gaveUp
      BY <1>6 DEF TryPort, device
    <3>2. at' \in Ports /\ at < at' /\ gaveUp' = gaveUp
      BY <1>6 DEF TryPort, Behind
    <3>3. p \in Int /\ at \in Int /\ at' \in Int
      BY <3>2, PortsAreNumbers
    <3>4. p <= at'
      BY <3>1, <3>2, <3>3
    <3> QED
      BY <3>1, <3>2, <3>4
  <2> QED
    BY <2>1, <2>2
<1>7. CASE NoPortLeft
  BY <1>7 DEF NoPortLeft, Behind, Goto, device
<1>8. CASE Select
  BY <1>8 DEF Select, Goto, device
<1>9. CASE StopCommands
  BY <1>9 DEF StopCommands, SetPort, Goto, device
<1>10. CASE Comreset
  BY <1>10 DEF Comreset, SetPort, SetTimeout, Goto, device
<1>11. CASE NoDevice
  BY <1>11 DEF NoDevice, GivenUp, PollsAgain, Seen, Goto, device
<1>12. CASE CheckSignature
  BY <1>12 DEF CheckSignature, Goto, device
<1>13. CASE StopEngines
  BY <1>13 DEF StopEngines, SetPort, SetTimeout, Goto, device
<1>14. CASE NotStopped
  BY <1>14 DEF NotStopped, GivenUp, PollsAgain, Seen, Goto, device
<1>15. CASE SetPointers
  BY <1>15 DEF SetPointers, SetPort, Goto, device
<1>16. CASE EnableFis
  BY <1>16 DEF EnableFis, SetPort, SetTimeout, Goto, device
<1>17. CASE StaysBusy
  BY <1>17 DEF StaysBusy, GivenUp, PollsAgain, Seen, Goto, device
<1>18. CASE StartCommands
  BY <1>18 DEF StartCommands, SetPort, SetTimeout, Goto, device
<1>19. CASE NotStarted
  BY <1>19 DEF NotStarted, GivenUp, PollsAgain, Seen, Goto, device
<1>20. CASE Poll
  BY <1>20 DEF Poll, PollsAgain, Seen, Goto, device
<1>21. CASE WaitOver
  <2>1. NoReset'
    BY <1>21 DEF WaitOver, AfterWait, Seen, SetTimeout, Goto, device
  <2>2. Place'
    BY <1>21 DEF WaitOver, AfterWait, Seen, SetTimeout, Goto, device
  <2>3. Stopping'
    BY <1>21 DEF WaitOver, AfterWait, Seen, SetTimeout, Goto, device
  <2>4. Starting'
    BY <1>21 DEF WaitOver, AfterWait, Seen, SetTimeout, Goto, device
  <2>5. Chosen'
    BY <1>21 DEF WaitOver, AfterWait, Seen, SetTimeout, Goto, device
  <2>6. Owners'
    BY <1>21 DEF WaitOver, AfterWait, Seen, SetTimeout, Goto, device
  <2> QED
    BY <2>1, <2>2, <2>3, <2>4, <2>5, <2>6
<1>22. ASSUME NEW q \in Ports, EngineFollows(q) PROVE IInv'
  BY <1>22, SMTT(30) DEF EngineFollows, Changes, driver
<1>23. ASSUME NEW q \in Ports, LinkComesUp(q) PROVE IInv'
  BY <1>23 DEF LinkComesUp, Changes, driver
<1>24. ASSUME NEW q \in Ports, DeviceReports(q) PROVE IInv'
  BY <1>24 DEF DeviceReports, Changes, driver
<1>25. CASE ResetEnds
  BY <1>25 DEF ResetEnds, Blank, driver
<1>26. CASE UNCHANGED vars
  BY <1>26 DEF vars, device, driver
<1> QED
  BY <1>1, <1>2, <1>3, <1>4, <1>5, <1>6, <1>7, <1>8, <1>9, <1>10, <1>11, <1>12, <1>13, <1>14, <1>15, <1>16, <1>17, <1>18, <1>19, <1>20, <1>21, <1>22, <1>23, <1>24, <1>25, <1>26
  DEF Next, Driver, Controller, ResetHba, InitPort

LEMMA Invariant == Spec => []IInv
  BY InitInvariant, StepInvariant, PTL DEF Spec

-----------------------------------------------------------------------------
(* Driver and controller leave every variable in its type, for every set   *)
(* of ports and every length of the waits.                                 *)
THEOREM TypeCorrect == Spec => []TypeOK
<1>1. IInv => TypeOK
  BY DEF IInv
<1> QED
  BY <1>1, Invariant, PTL

(* However many ports kmain tries, and whatever their engines do late, the *)
(* one command list is used by the port it is at, and otherwise only by a  *)
(* port that init_port gave up while it was starting it.                   *)
THEOREM OneUser == Spec => []MemoryNotShared
<1>1. IInv => MemoryNotShared
  BY DEF IInv, Owners, MemoryNotShared
<1> QED
  BY <1>1, Invariant, PTL

(* The port kmain keeps as active_port has a device and both engines       *)
(* running on the kernel's memory, in AHCI mode.                           *)
THEOREM SelectedRuns == Spec => []SelectedPortRuns
<1>1. IInv => SelectedPortRuns
  BY DEF IInv, NoReset, Chosen, Runs, Resetting, SelectedPortRuns
<1> QED
  BY <1>1, Invariant, PTL

(* What a step may change of a port: its pointers only while both engines  *)
(* stand, its command switch only after the pointers and the FIS receiver. *)
InOrder(q) ==
  /\ port[q].list = "other" /\ port'[q].list = "ours" => ~ Running(q)
  /\ ~ port[q].st /\ port'[q].st /\ ~ late =>
       port[q].fr /\ port[q].list = "ours"

LEMMA StepInOrder ==
  ASSUME IInv, [Next]_vars, NEW q \in Ports
  PROVE  InOrder(q)
<1> USE DEF IInv, TypeOK, Registers, InOrder
<1>1. CASE UNCHANGED port
  BY <1>1
<1>2. CASE StopCommands \/ Comreset \/ StopEngines \/ EnableFis
  <2>1. /\ port'[q].list = port[q].list
        /\ port'[q].st => port[q].st
    <3>1. CASE StopCommands
      BY <3>1 DEF StopCommands, SetPort
    <3>2. CASE Comreset
      BY <3>2 DEF Comreset, SetPort
    <3>3. CASE StopEngines
      BY <3>3 DEF StopEngines, SetPort
    <3>4. CASE EnableFis
      BY <3>4 DEF EnableFis, SetPort
    <3> QED
      BY <1>2, <3>1, <3>2, <3>3, <3>4
  <2> QED
    BY <2>1
<1>3. CASE SetPointers
  <2>1. ~ port[at].cr /\ ~ port[at].fr
    BY <1>3 DEF SetPointers, Stopping
  <2> QED
    BY <1>3, <2>1 DEF SetPointers, SetPort, Running
<1>4. CASE StartCommands
  <2>1. ~ late => port[at].fr /\ port[at].list = "ours"
    BY <1>4 DEF StartCommands, Starting, Pointed, FisSwitched, Receiving
  <2> QED
    BY <1>4, <2>1 DEF StartCommands, SetPort
<1>5. ASSUME NEW p \in Ports,
             EngineFollows(p) \/ LinkComesUp(p) \/ DeviceReports(p)
      PROVE  InOrder(q)
  <2>1. port'[q].list = port[q].list /\ port'[q].st = port[q].st
    <3>1. CASE EngineFollows(p)
      BY <3>1 DEF EngineFollows, Changes
    <3>2. CASE LinkComesUp(p)
      BY <3>2 DEF LinkComesUp, Changes
    <3>3. CASE DeviceReports(p)
      BY <3>3 DEF DeviceReports, Changes
    <3> QED
      BY <1>5, <3>1, <3>2, <3>3
  <2> QED
    BY <2>1
<1>6. CASE ResetEnds
  BY <1>6 DEF ResetEnds, Blank
<1>7. \/ UNCHANGED port
      \/ StopCommands \/ Comreset \/ StopEngines \/ EnableFis
      \/ SetPointers \/ StartCommands \/ ResetEnds
      \/ \E p \in Ports :
           EngineFollows(p) \/ LinkComesUp(p) \/ DeviceReports(p)
  BY DEF Next, Driver, Controller, ResetHba, InitPort, EnableAhci, BeginReset,
     ResetTimeout, EnableAgain, ResetReturns, TryPort, NoPortLeft, Select,
     NoDevice, CheckSignature, NotStopped, StaysBusy, NotStarted, Poll,
     WaitOver, vars, device
<1> QED
  BY <1>1, <1>2, <1>3, <1>4, <1>5, <1>6, <1>7

(* init_port never moves the pointers of a running engine and never starts *)
(* a port that has nowhere to put what it receives.                        *)
THEOREM EnginesKeepOrder == Spec => EnginesInOrder
<1>1. IInv /\ [Next]_vars => [\A q \in Ports : InOrder(q)]_vars
  BY StepInOrder
<1>2. EnginesInOrder <=> [][\A q \in Ports : InOrder(q)]_vars
  BY DEF EnginesInOrder, InOrder
<1> QED
  BY <1>1, <1>2, Invariant, PTL DEF Spec

-----------------------------------------------------------------------------
(* The transfers.                                                          *)
DiskTypes ==
  /\ disk \in [Lbas -> Values] /\ latest \in [Lbas -> Values]
  /\ data \in Values
  /\ {table, command, call} \subseteq Commands \union {NoCommand}
  /\ {ci, tfes} \subseteq BOOLEAN
  /\ hba \in {"idle", "fetched", "moved", "halted", "hung"}
  /\ step \in {"idle", "ready", "table", "issue", "poll", "delay"}

(* There are calls only behind a search that has found a port.             *)
Serving ==
  /\ step # "idle" => pc = "done" /\ active # NoPort /\ call \in Commands
  /\ step \in {"ready", "poll"} => call.op = "read"
  /\ step = "delay" => call.op = "write"

Untouched ==
  pc # "done" \/ active = NoPort =>
    step = "idle" /\ hba = "idle" /\ ~ ci /\ ~ tfes /\ disk = latest

(* PxCI is set from the issuing of a command to its end, and for good if   *)
(* the device fails.                                                       *)
OneCommand ==
  ~ late =>
    /\ tfes => hba = "halted"
    /\ ci \/ hba = "idle"
    /\ ci => Broken \/ step \in {"poll", "delay"}

(* The write under way is in the buffer and not on the disk yet.           *)
Pending ==
  /\ data = latest[call.lba]
  /\ \A l \in Lbas : l # call.lba => disk[l] = latest[l]

Moved == hba = "moved" \/ ~ ci

Contents ==
  ~ late /\ ~ Broken =>
    /\ step \in {"issue", "poll", "delay"} => table = call
    /\ hba # "idle" => command = call
    /\ IF step = "idle" \/ call.op = "read" \/ (step = "delay" /\ Moved)
       THEN disk = latest ELSE Pending
    /\ step = "poll" /\ Moved => data = latest[call.lba]

DiskInv == IInv /\ DiskTypes /\ Serving /\ Untouched /\ OneCommand /\ Contents

-----------------------------------------------------------------------------
(* To the bring-up every step of a transfer is a stutter.                  *)
LEMMA StepOfPort == [DiskNext]_diskVars => [Next]_vars
  BY DEF DiskNext, BringUp, PortChanges, ResetDropsCommand, Calls, ReadSector,
     WriteSector, Transfer, NotReady, Ready, FillTable, Issue, ReadDone,
     ReadError, ReadTimeout, WriteReturns, Work, Fetch, MoveData, Complete, Fail,
     Next, Controller, diskVars

LEMMA SearchOver == Driver => pc # "done"
  BY DEF Driver, ResetHba, InitPort, EnableAhci, BeginReset, ResetTimeout,
     EnableAgain, ResetReturns, TryPort, NoPortLeft, Select, StopCommands,
     Comreset, NoDevice, CheckSignature, StopEngines, NotStopped, SetPointers,
     EnableFis, StaysBusy, StartCommands, NotStarted, Poll, WaitOver, GivenUp,
     Waits, AfterWait

(* A reset that was not given up is over before any transfer begins.       *)
LEMMA ResetInTime == IInv /\ ResetEnds /\ ~ late => pc = "await_reset"
  BY DEF IInv, NoReset, ResetEnds

(* The selected port takes commands.                                       *)
LEMMA PortServes ==
  IInv /\ active # NoPort /\ ~ late => InService /\ port[active].st
  BY DEF IInv, NoReset, Chosen, Runs, Resetting, InService

LEMMA DiskInitInvariant == DiskInit => DiskInv
<1> SUFFICES ASSUME DiskInit PROVE DiskInv
  OBVIOUS
<1>1. IInv
  BY InitInvariant DEF DiskInit
<1>2. DiskTypes
  BY DeviceAssumption DEF DiskInit, DiskTypes
<1> QED
  BY <1>1, <1>2 DEF DiskInit, DiskInv, Serving, Untouched, OneCommand, Contents

LEMMA DiskTypesStep == DiskTypes /\ [DiskNext]_diskVars => DiskTypes'
<1> SUFFICES ASSUME DiskTypes, [DiskNext]_diskVars PROVE DiskTypes'
  OBVIOUS
<1> USE DEF DiskTypes
<1>1. CASE BringUp \/ PortChanges \/ UNCHANGED diskVars
  BY <1>1 DEF BringUp, PortChanges, diskVars, transfer, slot
<1>2. CASE ResetDropsCommand
  BY <1>2 DEF ResetDropsCommand
<1>3. ASSUME NEW l \in Lbas, ReadSector(l) PROVE DiskTypes'
  BY <1>3 DEF ReadSector, Call, slot, Commands
<1>4. ASSUME NEW l \in Lbas, NEW v \in Values, WriteSector(l, v) PROVE DiskTypes'
  BY <1>4 DEF WriteSector, Call, slot, Commands
<1>5. CASE Transfer
  BY <1>5 DEF Transfer, NotReady, Ready, FillTable, Issue, ReadDone, ReadError,
     ReadTimeout, WriteReturns, Returns, slot
<1>6. CASE Fetch \/ Complete \/ Fail
  BY <1>6 DEF Fetch, Complete, Fail
<1>7. CASE MoveData
  <2>1. CASE command.op = "read" /\ data' = disk[command.lba] /\ UNCHANGED disk
    <3>1. command \in Commands
      BY <2>1 DEF NoCommand
    <3> QED
      BY <1>7, <2>1, <3>1 DEF MoveData, Commands
  <2>2. CASE command.op = "write" /\ UNCHANGED data
             /\ disk' = [disk EXCEPT ![command.lba] = data]
    BY <1>7, <2>2 DEF MoveData
  <2> QED
    BY <1>7, <2>1, <2>2 DEF MoveData
<1> QED
  BY <1>1, <1>2, <1>3, <1>4, <1>5, <1>6, <1>7 DEF DiskNext, Calls, Work

(* Steps that do not touch the slot.                                       *)
LEMMA BringUpStep ==
  ASSUME DiskInv, BringUp \/ PortChanges \/ ResetDropsCommand
  PROVE  Serving' /\ Untouched' /\ OneCommand' /\ Contents'
<1> USE DEF DiskInv, Serving, Untouched, OneCommand, Contents, Pending, Moved, Broken
<1>1. CASE BringUp
  BY <1>1, SearchOver DEF BringUp, transfer, slot
<1>2. CASE PortChanges
  <2>1. UNCHANGED <<pc, active, late>>
    BY <1>2 DEF PortChanges, EngineFollows, LinkComesUp, DeviceReports, Changes, driver
  <2> QED
    BY <1>2, <2>1 DEF PortChanges, transfer, slot
<1>3. CASE ResetDropsCommand
  <2>1. late \/ pc = "await_reset"
    BY <1>3, ResetInTime DEF ResetDropsCommand
  <2>2. UNCHANGED <<pc, active, late>>
    BY <1>3 DEF ResetDropsCommand, ResetEnds, driver
  <2> QED
    BY <1>3, <2>1, <2>2 DEF ResetDropsCommand
<1> QED
  BY <1>1, <1>2, <1>3

(* What a call and the HBA do is done behind the search.                   *)
LEMMA TransferStep ==
  ASSUME DiskInv, DelayIsEnough, PollingIsEnough,
         Calls \/ Transfer \/ Work \/ Fail
  PROVE  Serving' /\ Untouched' /\ OneCommand' /\ Contents'
<1> USE DEF DiskInv, Serving, Untouched, OneCommand, Contents, Pending, Moved, Broken
<1>1. UNCHANGED <<pc, active, late>>
  BY DEF Calls, ReadSector, WriteSector, Transfer, NotReady, Ready, FillTable,
     Issue, ReadDone, ReadError, ReadTimeout, WriteReturns, Work, Fetch, MoveData,
     Complete, Fail, vars, driver
<1>2. ASSUME NEW l \in Lbas, ReadSector(l)
      PROVE  Serving' /\ Untouched' /\ OneCommand' /\ Contents'
  BY <1>1, <1>2 DEF ReadSector, Call, slot, Commands
<1>3. ASSUME NEW l \in Lbas, NEW v \in Values, WriteSector(l, v)
      PROVE  Serving' /\ Untouched' /\ OneCommand' /\ Contents'
  BY <1>1, <1>3 DEF WriteSector, Call, slot, Commands, DiskTypes
<1>4. CASE NotReady \/ ReadDone \/ ReadError
  BY <1>1, <1>4 DEF NotReady, ReadDone, ReadError, Returns, slot, Busy
<1>5. CASE ReadTimeout \/ WriteReturns
  BY <1>1, <1>5, PortServes DEF ReadTimeout, WriteReturns, Returns, slot
<1>6. CASE Ready \/ FillTable
  BY <1>1, <1>6 DEF Ready, FillTable, slot, Busy
<1>7. CASE Issue
  <2>1. ~ late => ci'
    BY <1>7, PortServes DEF Issue
  <2>2. /\ step = "issue" /\ UNCHANGED <<disk, data, tfes, hba, command, table, call, latest>>
        /\ step' = IF call.op = "read" THEN "poll" ELSE "delay"
    BY <1>7 DEF Issue
  <2> QED
    BY <1>1, <2>1, <2>2, DeviceAssumption DEF DiskTypes, Commands
<1>8. CASE Fetch
  BY <1>1, <1>8 DEF Fetch
<1>9. CASE MoveData
  <2>1. CASE command.op = "read" /\ data' = disk[command.lba] /\ UNCHANGED disk
    BY <1>1, <1>9, <2>1 DEF MoveData
  <2>2. CASE command.op = "write" /\ UNCHANGED data
             /\ disk' = [disk EXCEPT ![command.lba] = data]
    BY <1>1, <1>9, <2>2 DEF MoveData, DiskTypes
  <2> QED
    BY <1>9, <2>1, <2>2 DEF MoveData
<1>10. CASE Complete \/ Fail
  BY <1>1, <1>10 DEF Complete, Fail
<1> QED
  BY <1>2, <1>3, <1>4, <1>5, <1>6, <1>7, <1>8, <1>9, <1>10
  DEF Calls, Transfer, Work

LEMMA DiskInvariant ==
  ASSUME DelayIsEnough, PollingIsEnough
  PROVE  DiskSpec => []DiskInv
<1>1. DiskInv /\ [DiskNext]_diskVars => DiskInv'
  <2> SUFFICES ASSUME DiskInv, [DiskNext]_diskVars PROVE DiskInv'
    OBVIOUS
  <2>1. IInv'
    BY StepOfPort, StepInvariant DEF DiskInv
  <2>2. DiskTypes'
    BY DiskTypesStep DEF DiskInv
  <2>3. Serving' /\ Untouched' /\ OneCommand' /\ Contents'
    <3>1. CASE UNCHANGED diskVars
      BY <3>1 DEF DiskInv, Serving, Untouched, OneCommand, Contents, Pending, Moved,
         Broken, diskVars, vars, driver, transfer, slot
    <3>2. CASE DiskNext
      BY <3>2, BringUpStep, TransferStep DEF DiskNext
    <3> QED
      BY <3>1, <3>2
  <2> QED
    BY <2>1, <2>2, <2>3 DEF DiskInv
<1> QED
  BY <1>1, DiskInitInvariant, PTL DEF DiskSpec

-----------------------------------------------------------------------------
(* While sectors are read and written, and however the device fails, what  *)
(* was proved of the bring-up stays true: the port in use is connected,    *)
(* runs on the kernel's memory, and nothing else uses that but ports that  *)
(* were given up.                                                          *)
THEOREM BringUpHolds == DiskSpec => [](SelectedPortRuns /\ MemoryNotShared)
<1>1. IInv => SelectedPortRuns /\ MemoryNotShared
  BY DEF IInv, NoReset, Chosen, Runs, Resetting, SelectedPortRuns, Owners,
     MemoryNotShared
<1>2. DiskInit => IInv
  BY InitInvariant DEF DiskInit
<1>3. IInv /\ [DiskNext]_diskVars => IInv'
  BY StepOfPort, StepInvariant
<1> QED
  BY <1>1, <1>2, <1>3, PTL DEF DiskSpec

(* While commands end within the driver's waits, a read that returns true  *)
(* has left in the buffer what was last written to its sector, for any     *)
(* number of calls and wherever the device fails.                          *)
THEOREM NoWriteLost ==
  ASSUME DelayIsEnough, PollingIsEnough
  PROVE  DiskSpec => ReadsWhatWasWritten
<1>1. DiskInv /\ [DiskNext]_diskVars =>
        [step = "poll" /\ step' = "idle" /\ ok' =>
           data' = latest[call.lba] \/ late]_diskVars
  <2> SUFFICES ASSUME DiskInv, DiskNext, step = "poll", step' = "idle", ok', ~ late
               PROVE  data' = latest[call.lba]
    BY DEF diskVars
  <2>1. ReadDone
    BY DEF DiskNext, BringUp, PortChanges, ResetDropsCommand, Calls, ReadSector,
       WriteSector, Call, Transfer, NotReady, Ready, FillTable, Issue, ReadError,
       ReadTimeout, WriteReturns, Work, Fetch, MoveData, Complete, Fail, transfer
  <2> QED
    BY <2>1 DEF ReadDone, DiskInv, OneCommand, Contents, Moved, Broken
<1> QED
  BY <1>1, DiskInvariant, PTL DEF ReadsWhatWasWritten, DiskSpec

(* The selected port takes commands, one at a time: read_sector returns    *)
(* false only if the device has failed, is still busy with the reset of    *)
(* its port, or was hit by a reset given up long ago.  That the first wait *)
(* never runs out on a command of an earlier call is OneCommand: when a    *)
(* call begins, PxCI is clear or the device has failed.                    *)
THEOREM WorkingDiskIsRead ==
  ASSUME DelayIsEnough, PollingIsEnough
  PROVE  DiskSpec => ReadsSucceed
<1>1. DiskInv /\ [DiskNext]_diskVars =>
        [step' = "idle" /\ step \in {"ready", "poll"} =>
           ok' \/ Broken \/ late \/ (step = "ready" /\ port[active].busy)]_diskVars
  <2> SUFFICES ASSUME DiskInv, DiskNext, step \in {"ready", "poll"}, step' = "idle",
                      ~ late, ~ Broken, ~ (step = "ready" /\ port[active].busy)
               PROVE  ok'
    BY DEF diskVars
  <2>1. ~ NotReady
    BY DEF NotReady, DiskInv, OneCommand, Broken, Busy
  <2>2. ~ ReadError
    BY DEF ReadError, DiskInv, OneCommand, Broken
  <2>3. ~ ReadTimeout
    BY PortServes DEF ReadTimeout, DiskInv, Serving
  <2>4. ReadDone
    BY <2>1, <2>2, <2>3 DEF DiskNext, BringUp, PortChanges, ResetDropsCommand,
       Calls, ReadSector, WriteSector, Call, Transfer, Ready, FillTable, Issue,
       WriteReturns, Work, Fetch, MoveData, Complete, Fail, transfer
  <2> QED
    BY <2>4 DEF ReadDone
<1> QED
  BY <1>1, DiskInvariant, PTL DEF ReadsSucceed, DiskSpec
=============================================================================
