------------------------------- MODULE MCKbdRead ------------------------------
(* sys_read, the scheduler and the keyboard together, for TLC.             *)
EXTENDS KbdRead

CONSTANTS idle, init, a, b

MCTask == {idle, init, a, b}
===============================================================================
