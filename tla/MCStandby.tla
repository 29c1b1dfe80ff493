------------------------------- MODULE MCStandby -------------------------------
(* A small instance of Standby: two images with two urls each.                 *)
EXTENDS Standby

CONSTANTS i1, i2
MCImages == {i1, i2}
===============================================================================
