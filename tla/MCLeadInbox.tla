----------------------------- MODULE MCLeadInbox -----------------------------
(* LeadInbox with one message of each sort and one task.                   *)
EXTENDS LeadInbox, TLC

Lead == {"turn", "tool"}
=============================================================================
