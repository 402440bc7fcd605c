------------------------------ MODULE MCTaskList ------------------------------
(* The list of all processes, for TLC.                                     *)
EXTENDS TaskList

CONSTANTS head, idle, init, f1, f2, f3

MCNode == {head, idle, init, f1, f2, f3}
===============================================================================
