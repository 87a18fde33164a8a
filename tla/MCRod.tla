-------------------------------- MODULE MCRod --------------------------------
(* Instances of Rod: one axis, a stroke of a few steps, a window one step    *)
(* wide at either end.                                                       *)
EXTENDS Rod

NoShell == {}
=============================================================================
