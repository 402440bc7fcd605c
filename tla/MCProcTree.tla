------------------------------ MODULE MCProcTree ------------------------------
(* Parents and children, for TLC.                                          *)
EXTENDS ProcTree

CONSTANT LastFrame

\* The idle task has the frame below the init task's.
MCTask == 0..LastFrame
MCNode == {"children_blocked", "children_unblocked", "sibiling"} \X (1..LastFrame)
===============================================================================
