----------------------------- MODULE MCSubagents -----------------------------
(* Two jobs, of which one at a time runs, and another writer.              *)
EXTENDS Subagents

MCAsked == {[paths |-> Paths, global |-> FALSE]}
===============================================================================
