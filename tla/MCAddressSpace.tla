---------------------------- MODULE MCAddressSpace ----------------------------
(* Address spaces, for TLC.                                                *)
EXTENDS AddressSpace
===============================================================================
