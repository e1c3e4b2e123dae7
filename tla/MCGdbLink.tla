------------------------------ MODULE MCGdbLink ------------------------------
(***************************************************************************)
(* An instance of GdbLink for TLC: a few requests, one of which has a "-"  *)
(* in its body, and a few faults.                                          *)
(***************************************************************************)
EXTENDS GdbLink
=============================================================================
