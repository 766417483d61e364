--------------------------- MODULE MCHistorySearch ---------------------------
(***************************************************************************)
(* FileScrollback, and a search in its first process, with a ring of one   *)
(* line and index buffers of two: lines leave the ring before their index  *)
(* entries leave memory, as 256 lines and 512 entries do in the program.   *)
(* Five lines are enough for two rotations, also under a search that is    *)
(* still reading.                                                          *)
(***************************************************************************)
EXTENDS HistorySearch
=============================================================================
