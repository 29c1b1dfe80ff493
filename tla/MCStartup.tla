------------------------------- MODULE MCStartup -------------------------------
(* Instance for TLC of Startup: two disks of which one is large enough, two  *)
(* interfaces, and a collector of each kind.                                 *)
EXTENDS Startup

CollectorsDef == <<"ipmi_setter", "default", "logs">>
DisksDef == {1, 5}
===============================================================================
