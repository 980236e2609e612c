-------------------------- MODULE MCReductionBroker --------------------------
(* Model values for checking ReductionBroker with TLC.                     *)
EXTENDS ReductionBroker

CONSTANTS h1
=============================================================================
