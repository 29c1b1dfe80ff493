----------------------------- MODULE MCBootLoader -----------------------------
(* Instance for TLC of BootLoader, which has no parameters. *)
EXTENDS BootLoader
===============================================================================
