------------------------------ MODULE MCConsole -------------------------------
(* The screen, for TLC: 16 addresses, 8 pages of 2.                        *)
EXTENDS Console
===============================================================================
