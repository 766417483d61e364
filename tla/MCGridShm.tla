------------------------------ MODULE MCGridShm ------------------------------
(***************************************************************************)
(* GridShm with one renderer, a frame of three parts, three publishes and  *)
(* two attempts per read: a read can be overtaken by two whole publishes,  *)
(* lose every attempt, and meet a writer that dies half-way.               *)
(***************************************************************************)
EXTENDS GridShm
=============================================================================
