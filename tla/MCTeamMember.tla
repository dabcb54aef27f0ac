----------------------------- MODULE MCTeamMember -----------------------------
(* TeamMember with at most one message of each type.                       *)
EXTENDS TeamMember, TLC

CONSTANTS chat, halt, assign, verdict

Threads == 1..2

TypeOf(m) ==
    CASE m = chat -> "message"
      [] m = halt -> "shutdown_request"
      [] m = assign -> "task_assignment"
      [] OTHER -> "plan_approval_response"
KindOf == [m \in Messages |-> TypeOf(m)]
PlanOf == [m \in Messages \cap {verdict} |-> 1]
=============================================================================
