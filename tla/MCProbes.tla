------------------------------ MODULE MCProbes ------------------------------
(* Small instances of Probes.                                              *)
EXTENDS Probes
=============================================================================
