--------------------------- MODULE ProcessStages ---------------------------
(***************************************************************************)
(* What the end of a process looks like from outside, and what             *)
(* ExportService takes it to be: it stops serving, closes its connections, *)
(* flushes the cache and exits, in this order, unless it ends before.      *)
(***************************************************************************)
VARIABLE stage

Stages == {"up", "draining", "closed", "flushed", "down"}

Init == stage = "up"

Drains == stage = "up" /\ stage' = "draining"
Closes == stage = "draining" /\ stage' = "closed"
Flushes == stage = "closed" /\ stage' = "flushed"
Ends == stage' = "down"

Next == Drains \/ Closes \/ Flushes \/ Ends

Spec == Init /\ [][Next]_stage

=============================================================================
