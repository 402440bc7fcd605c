------------------------------- MODULE MCMemory -------------------------------
(* Frames and shared pages, for TLC.                                       *)
EXTENDS Memory
===============================================================================
