----------------------------- MODULE MCTestForm -----------------------------
(* A small instance of TestForm.                                           *)
EXTENDS TestForm
=============================================================================
