-------------------------- MODULE MCManagerSession --------------------------
(* A small instance of ManagerSession.                                     *)
EXTENDS ManagerSession
=============================================================================
