----------------------------- MODULE MCCommandAPI -----------------------------
(* A small instance of CommandAPI: the one thread of the WSGI server, and a  *)
(* few commands.                                                             *)
EXTENDS CommandAPI

CONSTANT server
MCCallers == {server}
===============================================================================
