----------------------------- MODULE MCDiskErasure -----------------------------
(* Instance for TLC of DiskErasure: two disks and virtual media. *)
EXTENDS DiskErasure
================================================================================
