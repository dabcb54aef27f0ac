----------------------------- MODULE MCWorkspace -----------------------------
(* The tools of the workspace: the Lead and two sub-agents write two files. *)
EXTENDS Workspace
===============================================================================
