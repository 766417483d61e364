------------------------------ MODULE AppendLog ------------------------------
(***************************************************************************)
(* What a caller of crates/marspot-term/src/async_writer.rs is promised.   *)
(*                                                                         *)
(* The bytes a caller writes are numbered 1, 2, 3, ... in the order it     *)
(* wrote them; `next` is how many there are.  A file holds one contiguous  *)
(* run of them, so it is the pair [lo, hi]: bytes lo+1 .. hi.  Whatever    *)
(* order threads run in, a file only ever grows by the next bytes of the   *)
(* stream, a truncate leaves it empty of everything written before, and a  *)
(* file is retired only once it holds every byte written so far.           *)
(***************************************************************************)
EXTENDS Naturals, Sequences

VARIABLES next, file, closed

vars == <<next, file, closed>>

Run(lo, hi) == [lo |-> lo, hi |-> hi]

Init == /\ next = 0
        /\ file = Run(0, 0)
        /\ closed = <<>>

\* The caller appends bytes to the stream.
Write == /\ next' \in Nat
         /\ next' > next
         /\ UNCHANGED <<file, closed>>

\* Some more of the stream reaches the file, with no gap.
Persist == /\ file'.hi \in file.hi .. next
           /\ file' = Run(file.lo, file'.hi)
           /\ UNCHANGED <<next, closed>>

\* Everything written so far is gone, on disk and on its way there.
Cut == /\ file' = Run(next, next)
       /\ UNCHANGED <<next, closed>>

\* The file is complete, and the stream goes on in a new one.
Retire == /\ file.hi = next
          /\ closed' = Append(closed, file)
          /\ file' = Run(next, next)
          /\ UNCHANGED next

Next == Write \/ Persist \/ Cut \/ Retire

Spec == Init /\ [][Next]_vars
=============================================================================
