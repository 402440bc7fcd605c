---------------------------- MODULE MCKernelStack ----------------------------
(* Two processes and the idle task, for TLC.                               *)
EXTENDS KernelStack

CONSTANTS idle, init, a

MCTask == {idle, init, a}

\* exit, fork, write, block (as read, when it waits) and unblock.
MCCalls == {1, 2, 4, 21, 22}
===============================================================================
