------------------------------ MODULE MCVitals ------------------------------
(***************************************************************************)
(* An instance of Vitals for TLC.                                          *)
(***************************************************************************)
EXTENDS Vitals
=============================================================================
