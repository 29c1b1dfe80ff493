---------------------------- MODULE MCHeartbeater ----------------------------
(* The heartbeat thread alone, with the delays of the code.                  *)
EXTENDS Heartbeater

MCForcers == {"command"}
MCMultipliers == {3, 6}
===============================================================================
