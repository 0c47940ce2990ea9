------------------------------ MODULE FileStore ------------------------------
(***************************************************************************)
(* What the file system calls promise a program: each file is a sequence   *)
(* of bytes, a descriptor is a place in one file, a read returns the bytes *)
(* at that place and a write replaces them, in that file only.             *)
(*                                                                         *)
(* FileSystem shows that the FAT32 code (kernel/src/boot/fd.rs,            *)
(* sys_write_file.rs and file.rs), which works a sector at a time on a     *)
(* chain of clusters, implements this.                                     *)
(***************************************************************************)
EXTENDS Integers, Sequences

CONSTANTS
  Files,     (* the files of the root directory                         *)
  FdNumbers, (* descriptor numbers a program may be given               *)
  Bytes,     (* byte values                                             *)
  Payloads,  (* byte sequences a program may write                      *)
  ReadSizes, (* buffer sizes it may read into                           *)
  Closed,    (* an entry of the descriptor table that is free           *)
  Failed     (* the answer of a call that fails                         *)

VARIABLES
  content,   (* the bytes of each file                                  *)
  open,      (* the descriptor table: file and position, or Closed      *)
  reply      (* the answer to the last call                             *)

(* A call returns a number and may fill the caller's buffer.             *)
Returned(n) == [ret |-> n, bytes |-> <<>>]
ReadBytes(got) == [ret |-> Len(got), bytes |-> got]

Smaller(a, b) == IF a < b THEN a ELSE b
Larger(a, b) == IF a > b THEN a ELSE b

(* A call that fails changes nothing a program can see.                  *)
Refuse == reply' = Failed /\ UNCHANGED <<content, open>>

(* The lowest free descriptor is given out; two opens are independent.   *)
Open(f) ==
  \E d \in FdNumbers :
    /\ open[d] = Closed
    /\ \A e \in FdNumbers : open[e] = Closed => d <= e
    /\ open' = [open EXCEPT ![d] = [file |-> f, position |-> 0]]
    /\ reply' = Returned(d)
    /\ UNCHANGED content

Close(d) ==
  /\ open' = [open EXCEPT ![d] = Closed]
  /\ reply' = Returned(1)
  /\ UNCHANGED content

SeekTo(d, place) ==
  /\ open[d] # Closed
  /\ reply' = Returned(place)
  /\ open' = [open EXCEPT ![d].position = place]
  /\ UNCHANGED content

Seek(d) == reply'.ret \in Nat /\ SeekTo(d, reply'.ret)

Stat(d) ==
  /\ open[d] # Closed
  /\ reply' = Returned(Len(content[open[d].file]))
  /\ UNCHANGED <<content, open>>

Read(d, k) ==
  /\ open[d] # Closed
  /\ LET pos == open[d].position
         bytes == content[open[d].file]
         got == SubSeq(bytes, pos + 1, Smaller(pos + k, Len(bytes)))
     IN /\ reply' = ReadBytes(got)
        /\ open' = [open EXCEPT ![d].position = pos + Len(got)]
  /\ UNCHANGED content

(* "new" is "old" with the first n bytes of a payload from pos on; bytes   *)
(* between the old end and pos are whatever the disk holds there.          *)
Overwritten(old, new, pos, payload, n) ==
  /\ Len(new) = Larger(Len(old), pos + n)
  /\ \A p \in 1 .. Len(new) :
       /\ p \in (pos + 1) .. (pos + n) => new[p] = payload[p - pos]
       /\ p <= Len(old) /\ p \notin (pos + 1) .. (pos + n) => new[p] = old[p]

(* A write may be short when the disk fills up, and says so.             *)
Write(d, payload) ==
  /\ open[d] # Closed
  /\ LET f == open[d].file
         pos == open[d].position
     IN \E n \in 1 .. Len(payload) :
          /\ Overwritten(content[f], content'[f], pos, payload, n)
          /\ \A g \in Files \ {f} : content'[g] = content[g]
          /\ open' = [open EXCEPT ![d].position = pos + n]
          /\ reply' = Returned(n)

(* The power fails: nothing is open any more, and at most one file, the    *)
(* one being written, is damaged; it does not change its length.           *)
Crash ==
  /\ \E f \in Files :
       /\ Len(content'[f]) = Len(content[f])
       /\ \A g \in Files \ {f} : content'[g] = content[g]
  /\ open' = [d \in FdNumbers |-> Closed]
  /\ UNCHANGED reply

Init ==
  /\ content \in [Files -> Seq(Bytes)]
  /\ open = [d \in FdNumbers |-> Closed]
  /\ reply = Failed

Next ==
  \/ Refuse
  \/ \E f \in Files : Open(f)
  \/ \E d \in FdNumbers : Close(d) \/ Seek(d) \/ Stat(d)
  \/ \E d \in FdNumbers, k \in ReadSizes : Read(d, k)
  \/ \E d \in FdNumbers, payload \in Payloads : Write(d, payload)
  \/ Crash

Spec == Init /\ [][Next]_<<content, open, reply>>
=============================================================================
