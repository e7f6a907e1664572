----------------------------- MODULE MCJobQueue -----------------------------
(* The instance of JobQueue for TLC: two instances serve a job without a      *)
(* priority, whose list stands above the last one, as NORMAL does above LOW. *)
EXTENDS JobQueue

CONSTANTS j1, i1, i2

MCPriorityOf == [j \in Jobs |-> 0]
=============================================================================
