------------------------- MODULE MCScrollbackRestore -------------------------
(***************************************************************************)
(* ScrollbackRestore with a ring and a periodic snapshot of two lines each *)
(* (256 and 256 in the program), index buffers of four lines (512), and    *)
(* three processes: a snapshot over a gap, which a kill leaves, is met by  *)
(* the second one, and what it makes of it by the third.                   *)
(***************************************************************************)
EXTENDS ScrollbackRestore
=============================================================================
