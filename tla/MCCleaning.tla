------------------------------ MODULE MCCleaning ------------------------------
(* Instance for TLC of Cleaning: two managers. *)
EXTENDS Cleaning

ManagersDef == {1, 2}
PrioritiesDef == {10, 99}
================================================================================
