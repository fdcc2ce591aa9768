-------------------------- MODULE MCExportService ---------------------------
(* Small instances of ExportService for TLC. *)
EXTENDS ExportProperties, TLC

CONSTANTS r1, r2, r3, w1, w2, t1, t2, t3, n1, n2

\* r1 and r2 come from one user, for one channel, in one second.
SharedAndOwn == (r1 :> t1) @@ (r2 :> t1) @@ (r3 :> t2)

\* Every call has a second, a user or a channel of its own.
OwnTaskOf == (r1 :> t1) @@ (r2 :> t2) @@ (r3 :> t3)

LoneTaskOf == r1 :> t1

OneProcess == [x \in Requests \cup Workers |-> n1]

\* A worker in each of two processes, the first of which serves the calls.
TwoProcesses == [x \in Requests \cup Workers |-> IF x = w2 THEN n2 ELSE n1]

\* The workers of one process are alike, and so are the calls that share an id.
SharedSymmetry == Permutations({w1, w2}) \cup Permutations({r1, r2})

=============================================================================
