------------------------------ MODULE MCContext ------------------------------
(* One session of a few messages in each mode, all limits scaled down.     *)
EXTENDS Context
==============================================================================
