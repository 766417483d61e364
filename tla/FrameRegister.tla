---------------------------- MODULE FrameRegister ----------------------------
(***************************************************************************)
(* What the shared grid region promises (crates/marspot-term/src/          *)
(* grid_shm.rs:17-27): a register of whole frames.  Frames carry           *)
(* increasing numbers, 0 standing for "none yet"; a reader takes the       *)
(* newest frame in one step.                                               *)
(***************************************************************************)
EXTENDS Naturals

CONSTANT Readers

VARIABLES
    latest, \* the newest frame published
    shown   \* the frame each reader took last

Init == /\ latest = 0
        /\ shown = [r \in Readers |-> 0]

Publish == /\ latest' > latest
           /\ UNCHANGED shown

Take(r) == /\ latest > 0
           /\ shown' = [shown EXCEPT ![r] = latest]
           /\ UNCHANGED latest

Next == Publish \/ \E r \in Readers : Take(r)

Spec == Init /\ [][Next]_<<latest, shown>>
=============================================================================
