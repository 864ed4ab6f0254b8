------------------------------- MODULE MCCiLab -------------------------------
(* A small instance of CiLab: a run with a subscriber, two workers.         *)
EXTENDS CiLab
=============================================================================
