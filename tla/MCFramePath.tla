----------------------------- MODULE MCFramePath -----------------------------
(***************************************************************************)
(* FramePath with a blank screen and two others, and gates that hold for   *)
(* two ticks and for one: the shorter one can run out inside the longer.   *)
(***************************************************************************)
EXTENDS FramePath

MCScreens == {"blank", "a", "b"}
=============================================================================
