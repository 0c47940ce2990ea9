------------------------------- MODULE TscTimer -------------------------------
(***************************************************************************)
(* The calibration of the TSC in kernel/src/boot/timer.rs: it counts TSC   *)
(* ticks while the PIT, a counter of two bytes that runs downwards and     *)
(* around, passes what should be 100 ms.                                   *)
(*                                                                         *)
(* One tick of the model is one count of the PIT; the TSC is as fast, as   *)
(* only their ratio matters.  frequency is counted in ticks per 100 ms,    *)
(* the code multiplies it by ten.                                          *)
(***************************************************************************)
EXTENDS Integers

CONSTANTS
  Byte,         (* 256: the values of a byte                               *)
  TargetCount,  (* pit_freq * target_ms / 1000 = 119318                    *)
  MaxTicks      (* bound: ticks of one measurement                         *)

PitRange == Byte * Byte

VARIABLES
  pit,          (* the counter of channel 2                                *)
  since,        (* TSC ticks since the reading others are compared with    *)
  cal,          (* the next step of measure_frequency                      *)
  low,          (* its locals                                              *)
  target_count,
  frequency

clock == <<pit, since>>
calibration == <<cal, low, target_count, frequency>>

Init ==
  /\ pit = 0 /\ since = 0
  /\ cal = "start_low" /\ low = 0 /\ target_count = 0 /\ frequency = 0

Tick ==
  /\ since < MaxTicks /\ since' = since + 1
  /\ pit' = (pit - 1) % PitRange
  /\ UNCHANGED calibration

(* Time that nobody measures: the counter may be anywhere.                 *)
Elapse == pit' \in 0 .. (PitRange - 1) /\ UNCHANGED <<since, calibration>>

(* The two bytes are read one after the other, and not latched: a tick in  *)
(* between may change both.                                                *)
ReadLow(next) ==
  /\ low' = pit % Byte /\ cal' = next
  /\ UNCHANGED <<clock, target_count, frequency>>

Current == (pit \div Byte) * Byte + low

StartLow == cal = "start_low" /\ ReadLow("start_high")

(* 119318 does not fit in 16 bits: "as u16" cuts it down, and the          *)
(* subtraction ends at 0.                                                  *)
Cut(count) == count % PitRange

SaturatingSub(a, b) == IF a > b THEN a - b ELSE 0

StartHigh ==
  /\ cal = "start_high" /\ cal' = "read_tsc"
  /\ target_count' = SaturatingSub(Current, Cut(TargetCount))
  /\ UNCHANGED <<clock, low, frequency>>

ReadTsc ==
  /\ cal = "read_tsc" /\ cal' = "poll_low"
  /\ since' = 0
  /\ UNCHANGED <<pit, low, target_count, frequency>>

PollLow == cal = "poll_low" /\ ReadLow("poll_high")

PollHigh ==
  /\ cal = "poll_high"
  /\ cal' = IF Current <= target_count THEN "read_end" ELSE "poll_low"
  /\ UNCHANGED <<clock, low, target_count, frequency>>

(* Once it has its answer, the locals are gone.                            *)
ReadEnd ==
  /\ cal = "read_end" /\ cal' = "done"
  /\ frequency' = since
  /\ low' = 0 /\ target_count' = 0
  /\ UNCHANGED clock

measure_frequency ==
  StartLow \/ StartHigh \/ ReadTsc \/ PollLow \/ PollHigh \/ ReadEnd

=============================================================================
