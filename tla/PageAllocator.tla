---------------------------- MODULE PageAllocator ----------------------------
(***************************************************************************)
(* What the physical memory manager promises its callers: 4 KiB pages are  *)
(* handed out in runs, the lowest run that fits, a run is never handed out *)
(* twice while it is held, and a request fails only when no run fits.      *)
(*                                                                         *)
(* RamManager shows that kernel/src/ram.rs, which scans and updates a      *)
(* bitmap one page at a time, implements this specification.               *)
(***************************************************************************)
EXTENDS Integers

CONSTANTS
  Sectors,   (* indexes of the managed pages; ram.rs calls a page a sector *)
  Requests,  (* page counts a caller may ask for                           *)
  Alignments,(* alignments, in pages, a caller may ask for                 *)
  Nowhere    (* the answer of a request that fails                         *)

VARIABLES
  free,      (* pages nobody holds and the manager may hand out            *)
  held,      (* the runs handed out and not given back                     *)
  asked,     (* the page count of the request being served, if any         *)
  result     (* the answer to the last request                             *)

Span(s, k) == s .. (s + k - 1)

Region(s, k) == [start |-> s, pages |-> k]

(* What a caller holds after it was given k pages at s. *)
Given(s, k) == IF k = 0 THEN {} ELSE {Region(s, k)}

(* A run of k > 0 free pages starts at s. *)
Fits(s, k) == k > 0 /\ Span(s, k) \subseteq free

(* As Fits, on a boundary of a pages; page s itself must be free. *)
FitsAligned(s, k, a) ==
  /\ s \in free
  /\ s % a = 0
  /\ Span(s, k) \subseteq free

Take(s, k) ==
  /\ free' = free \ Span(s, k)
  /\ held' = held \union Given(s, k)
  /\ result' = s

Refuse == result' = Nowhere /\ UNCHANGED <<free, held>>

Ask(k) ==
  /\ asked = {}
  /\ asked' = {k}
  /\ UNCHANGED <<free, held, result>>

Allocate(k) ==
  /\ asked = {k}
  /\ asked' = {}
  /\ \/ \E s \in Sectors :
          /\ Fits(s, k)
          /\ \A t \in Sectors : t < s => ~ Fits(t, k)
          /\ Take(s, k)
     \/ (\A s \in Sectors : ~ Fits(s, k)) /\ Refuse

AllocateAligned(k, a) ==
  /\ asked = {} /\ UNCHANGED asked
  /\ \/ \E s \in Sectors :
          /\ FitsAligned(s, k, a)
          /\ \A t \in Sectors : t < s => ~ FitsAligned(t, k, a)
          /\ Take(s, k)
     \/ (\A s \in Sectors : ~ FitsAligned(s, k, a)) /\ Refuse

Release(r) ==
  /\ asked = {} /\ UNCHANGED asked
  /\ free' = free \union Span(r.start, r.pages)
  /\ held' = held \ {r}
  /\ UNCHANGED result

Init == free \subseteq Sectors /\ held = {} /\ asked = {} /\ result = Nowhere

Next ==
  \/ \E k \in Requests : Ask(k) \/ Allocate(k)
  \/ \E k \in Requests, a \in Alignments : AllocateAligned(k, a)
  \/ \E r \in held : Release(r)

Spec == Init /\ [][Next]_<<free, held, asked, result>>
=============================================================================
