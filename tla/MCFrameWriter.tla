---------------------------- MODULE MCFrameWriter ----------------------------
(***************************************************************************)
(* FrameWriter with frames of one and two bytes, room for three, and one   *)
(* hand-over: frames of either size are refused, and a frame can be cut.   *)
(***************************************************************************)
EXTENDS FrameWriter

MCSizes == {1, 2}
=============================================================================
