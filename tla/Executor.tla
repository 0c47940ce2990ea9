------------------------------- MODULE Executor -------------------------------
(***************************************************************************)
(* block_on of kernel/src/executor.rs: polls one future until it is ready, *)
(* twice a round, with the flag WOKEN in between.  There is one thread and *)
(* no nesting.  What a poll does is up to the module that uses this one.   *)
(***************************************************************************)
CONSTANTS Futures, NoFuture

VARIABLES
  future,    (* what block_on runs, NoFuture if it is not called           *)
  round,     (* where it is: "first" and "second" are its two polls        *)
  WOKEN

Init == future = NoFuture /\ round = "first" /\ WOKEN = FALSE

BlockOn(f) ==
  /\ future = NoFuture
  /\ future' = f /\ round' = "first"
  /\ UNCHANGED WOKEN

Polling(f) == future = f /\ round \in {"first", "second"}

(* A slip: the answer of the second poll is not looked at. *)
ReadyOnlyFirst(f) ==
  /\ Polling(f)
  /\ IF round = "first" THEN future' = NoFuture /\ UNCHANGED round
                        ELSE round' = "check" /\ UNCHANGED future
  /\ UNCHANGED WOKEN

(* A poll returns Ready: so does block_on, with the output.                *)
Ready(f) ==
  /\ Polling(f)
  /\ future' = NoFuture /\ round' = "first"
  /\ UNCHANGED WOKEN

(* A poll returns Pending, and has woken its waker or not.                 *)
Pending(f, wakes) ==
  /\ Polling(f)
  /\ round' = IF round = "first" THEN "clear" ELSE "check"
  /\ WOKEN' = (WOKEN \/ wakes)
  /\ UNCHANGED future

wake == WOKEN' = TRUE /\ UNCHANGED <<future, round>>

ClearWoken ==
  /\ round = "clear" /\ round' = "second"
  /\ WOKEN' = FALSE
  /\ UNCHANGED future

(* A slip: without a wake-up the processor halts. *)
CheckWokenHalts ==
  /\ round = "check" /\ WOKEN /\ round' = "first"
  /\ UNCHANGED <<future, WOKEN>>

(* Without a wake-up the processor pauses for a moment; it never stops.    *)
CheckWoken ==
  /\ round = "check" /\ round' = "first"
  /\ UNCHANGED <<future, WOKEN>>

=============================================================================
