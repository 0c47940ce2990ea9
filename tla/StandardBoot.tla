----------------------------- MODULE StandardBoot -----------------------------
(***************************************************************************)
(* standard_boot of kernel/src/boot/mod.rs from the network on: one thread *)
(* that waits for the link, for an ARP reply, for the PIT, for the TSC and *)
(* for a Shift key, one after the other and without a time limit, and then *)
(* runs the program in its container.                                      *)
(*                                                                         *)
(* It composes Executor with TscTimer.  Of the network card only what      *)
(* E1000 shows of it is left: the packets it has accepted come out one by  *)
(* one, in order.  The requests for memory in between are RamManager's     *)
(* subject, the loading of the program is ElfLoader's.                     *)
(***************************************************************************)
EXTENDS Integers, Sequences, SequencesExt

CONSTANTS
  Byte, TargetCount, MaxTicks,   (* see TscTimer                           *)
  SleepPeriods,   (* sleep_ms(1000) in periods of 100 ms: 10               *)
  RingSize,       (* packets the receive ring holds                        *)
  KeyQueue,       (* scan codes the keyboard holds back: 16                *)
  ScanCodes,      (* "shift" and others                                    *)
  MaxPackets,     (* bound: packets that arrive while someone listens      *)
  MaxKeys         (* bound: scan codes                                     *)

(* A packet, as far as the test for an ARP reply tells them apart: its     *)
(* length (42 bytes or more), its type and its operation.                  *)
Packets == [long : BOOLEAN, arp : BOOLEAN, op : {1, 2}]

VARIABLES
  pc,             (* the next step of standard_boot                        *)
  nic,            (* pci::find_e1000 has found a card                      *)
  nic_up,         (* its reset is over and its link is up                  *)
  queue,          (* packets in the receive ring                           *)
  arrivals,       (* history: packets accepted                             *)
  keys,           (* scan codes waiting in the keyboard controller         *)
  presses,        (* history: scan codes accepted                          *)
  pit, since, cal, low, target_count, frequency,
  future, round, WOKEN,
  asleep,         (* the first poll has made the SleepFuture               *)
  containers,     (* CONTAINERS                                            *)
  app,            (* the program is running, inside a poll                 *)
  runs,           (* history: how often it was entered                     *)
  finished        (* history: futures a poll of which was Ready            *)

Nap == "nap"
Contained == "contained"

Timer == INSTANCE TscTimer
Exec == INSTANCE Executor WITH Futures <- {Nap, Contained}, NoFuture <- "none"

net == <<nic, nic_up, queue, arrivals>>
keyboard == <<keys, presses>>
timer == <<pit, since, cal, low, target_count, frequency>>
exec == <<future, round, WOKEN>>
rest == <<asleep, containers, app, runs, finished>>
vars == <<pc, net, keyboard, timer, exec, rest>>

Init ==
  /\ pc = "find_nic" /\ nic = FALSE /\ nic_up = FALSE
  /\ queue = <<>> /\ arrivals = 0
  /\ keys = <<>> /\ presses = 0
  /\ Timer!Init /\ Exec!Init
  /\ asleep = FALSE /\ containers = <<>> /\ app = FALSE /\ runs = 0
  /\ finished = {}

-----------------------------------------------------------------------------
(* What happens meanwhile.                                                 *)
NicComesUp ==
  /\ pc = "new_nic" /\ ~ nic_up /\ nic_up' = TRUE
  /\ UNCHANGED <<pc, nic, queue, arrivals, keyboard, timer, exec, rest>>

(* The receiver is on before the request is out.  A full ring drops.       *)
PacketArrives ==
  /\ pc \in {"send_arp", "listen"}
  /\ Len(queue) < RingSize /\ arrivals < MaxPackets
  /\ \E p \in Packets : queue' = Append(queue, p)
  /\ arrivals' = arrivals + 1
  /\ UNCHANGED <<pc, nic, nic_up, keyboard, timer, exec, rest>>

KeyPressed ==
  /\ Len(keys) < KeyQueue /\ presses < MaxKeys
  /\ \E k \in ScanCodes : keys' = Append(keys, k)
  /\ presses' = presses + 1
  /\ UNCHANGED <<pc, net, timer, exec, rest>>

(* Time passes all along, but only here does anybody look.                 *)
Tick ==
  /\ pc = "calibrate" \/ asleep
  /\ Timer!Tick
  /\ UNCHANGED <<pc, net, keyboard, exec, rest>>

-----------------------------------------------------------------------------
Goto(next) == pc' = next /\ UNCHANGED <<keyboard, exec, rest>>

FindNic ==
  /\ pc = "find_nic" /\ nic' \in BOOLEAN
  /\ Goto(IF nic' THEN "new_nic" ELSE "create_container")
  /\ UNCHANGED <<nic_up, queue, arrivals, timer>>

(* E1000::new returns.                                                     *)
NewNic ==
  /\ pc = "new_nic" /\ nic_up
  /\ Goto("send_arp")
  /\ UNCHANGED <<net, timer>>

(* What send() answers is not looked at; the ring is empty.  The request   *)
(* is not repeated.                                                        *)
SendArp ==
  /\ pc = "send_arp"
  /\ Goto("listen")
  /\ UNCHANGED <<net, timer>>

IsReply(p) == p.long /\ p.arp /\ p.op = 2

(* A slip: the packets behind the first are thrown away with it. *)
ListenOnce ==
  /\ pc = "listen" /\ queue # <<>>
  /\ queue' = <<>> /\ arrivals' = 0
  /\ Goto(IF IsReply(Head(queue)) THEN "create_container" ELSE "listen")
  /\ UNCHANGED <<nic, nic_up, timer>>

(* One packet: the first reply ends the wait, whoever sent it; what is     *)
(* behind it in the ring is never looked at.                               *)
Listen ==
  /\ pc = "listen" /\ queue # <<>>
  /\ IF IsReply(Head(queue))
     THEN queue' = <<>> /\ arrivals' = 0 /\ Goto("create_container")
     ELSE queue' = Tail(queue) /\ UNCHANGED arrivals /\ Goto("listen")
  /\ UNCHANGED <<nic, nic_up, timer>>

(* container::init and create_container; the memory it was given, if any,  *)
(* is not looked at again.                                                 *)
CreateContainer ==
  /\ pc = "create_container" /\ pc' = "calibrate"
  /\ containers' = Append(<<>>, [id |-> 1, state |-> "Running"])
  /\ Timer!Elapse
  /\ UNCHANGED <<net, keyboard, exec, asleep, app, runs, finished>>

Calibrate ==
  /\ pc = "calibrate" /\ Timer!measure_frequency
  /\ Goto(IF cal' = "done" THEN "sleep" ELSE "calibrate")
  /\ UNCHANGED net

-----------------------------------------------------------------------------
(* block_on(async { sleep_ms(1000).await }).                               *)
Sleep ==
  /\ pc = "sleep" /\ pc' = "sleeping"
  /\ Exec!BlockOn(Nap)
  /\ UNCHANGED <<net, keyboard, timer, rest>>

ticks == frequency * SleepPeriods

(* The first poll makes the SleepFuture: target_tsc is ticks from now.     *)
SleepFutureNew ==
  /\ Exec!Polling(Nap) /\ ~ asleep
  /\ asleep' = TRUE /\ since' = 0
  /\ UNCHANGED <<pc, net, keyboard, pit, cal, low, target_count, frequency,
                 exec, containers, app, runs, finished>>

SleepPending ==
  /\ asleep /\ since < ticks
  /\ Exec!Pending(Nap, TRUE)
  /\ UNCHANGED <<pc, net, keyboard, timer, rest>>

SleepReady ==
  /\ asleep /\ since >= ticks
  /\ Exec!Ready(Nap)
  /\ pc' = "await_shift"
  /\ asleep' = FALSE /\ finished' = finished \union {Nap}
  /\ UNCHANGED <<net, keyboard, timer, containers, app, runs>>

(* A scan code is taken from the controller; a Shift that was pressed      *)
(* before counts too.                                                      *)
AwaitShift ==
  /\ pc = "await_shift" /\ keys # <<>>
  /\ keys' = Tail(keys)
  /\ pc' = IF Head(keys) = "shift" THEN "run" ELSE "await_shift"
  /\ UNCHANGED <<net, presses, timer, exec, rest>>

-----------------------------------------------------------------------------
(* block_on(run_in_container(container_id, ...)).                          *)
RunInContainer ==
  /\ pc = "run" /\ pc' = "running"
  /\ Exec!BlockOn(Contained)
  /\ UNCHANGED <<net, keyboard, timer, rest>>

get_container_state(id) ==
  {containers[k].state : k \in {j \in DOMAIN containers : containers[j].id = id}}

(* The poll enters the program and is not over before it returns.          *)
PollContainer ==
  /\ Exec!Polling(Contained) /\ ~ app
  /\ get_container_state(1) # {"Stopped"}
  /\ app' = TRUE /\ runs' = runs + 1
  /\ UNCHANGED <<pc, net, keyboard, timer, exec, asleep, containers, finished>>

(* SYS_YIELD sets the flag, and that is all.                               *)
Yield ==
  /\ app
  /\ Exec!wake
  /\ UNCHANGED <<pc, net, keyboard, timer, rest>>

Finish ==
  /\ pc' = "halt" /\ app' = FALSE
  /\ Exec!Ready(Contained)
  /\ finished' = finished \union {Contained}
  /\ UNCHANGED <<net, keyboard, timer, asleep, containers>>

LoadFails == ~ app /\ Finish /\ UNCHANGED runs
AppReturns == app /\ Finish /\ UNCHANGED runs

Round ==
  /\ Exec!ClearWoken \/ Exec!CheckWoken
  /\ UNCHANGED <<pc, net, keyboard, timer, rest>>

Boot ==
  \/ FindNic \/ NewNic \/ SendArp \/ Listen \/ CreateContainer \/ Calibrate
  \/ Sleep \/ SleepFutureNew \/ SleepPending \/ SleepReady \/ AwaitShift
  \/ RunInContainer \/ PollContainer \/ LoadFails \/ Round

Next ==
  \/ NicComesUp \/ PacketArrives \/ KeyPressed \/ Tick
  \/ Boot \/ Yield \/ AppReturns

(* The processor goes on and time passes; card, network, user and program  *)
(* owe nothing.                                                            *)
Spec == Init /\ [][Next]_vars /\ WF_vars(Boot) /\ WF_vars(Tick)

-----------------------------------------------------------------------------
(* A future that was ready is never polled again, in either poll of a      *)
(* round: the program is not entered a second time, and no async block is  *)
(* resumed after its end, which panics.                                    *)
NoPollAfterReady == future \notin finished /\ runs <= 1

Awake == pc \in {"await_shift", "run", "running", "halt"}

(* The boot does not go on before a second has passed: a count of the PIT  *)
(* is a tick, and TargetCount of them are 100 ms.                          *)
SleepsLongEnough == Awake => since >= SleepPeriods * TargetCount

(* The boot comes to its end if the link comes up, one reply is accepted   *)
(* by the card at any time, before or behind other packets, a calibration  *)
(* once begun ever reads the PIT at or below its target, a Shift key is    *)
(* pressed at any time, even before it is waited for, and the program      *)
(* returns.                                                                *)
BootEnds ==
  /\ <>(pc = "new_nic") => <>nic_up
  /\ <>(pc = "listen") => <>(\E k \in DOMAIN queue : IsReply(queue[k]))
  /\ pc = "calibrate" ~> cal = "done"
  /\ <>("shift" \in ToSet(keys))
  /\ <>[](~ app)
  => <>(pc = "halt")
=============================================================================
