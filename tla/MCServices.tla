------------------------------ MODULE MCServices ------------------------------
(* A one-shot and a recurring job, both durable; two commands of a runtime. *)
EXTENDS Services
CONSTANTS once, daily
==============================================================================
