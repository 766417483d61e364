---------------------------- MODULE MCAsyncWriter ----------------------------
(***************************************************************************)
(* AsyncWriter with two-byte buffers, a channel of depth two and writes of *)
(* one or three bytes: a write can stop short of the cap, reach it, or     *)
(* overshoot it, and the channel fills before the thread has run.          *)
(***************************************************************************)
EXTENDS AsyncWriter

MCWriteSizes == {1, 3}
=============================================================================
