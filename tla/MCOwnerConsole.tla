--------------------------- MODULE MCOwnerConsole ---------------------------
(***************************************************************************)
(* A small instance of OwnerConsole: enough generations to connect, act,   *)
(* lock while the action is under way, and connect and act again.          *)
(***************************************************************************)
EXTENDS OwnerConsole
=============================================================================
