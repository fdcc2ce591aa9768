---------------------------- MODULE ExportRecord ----------------------------
(***************************************************************************)
(* What a client of the service may rely on: the history record of one     *)
(* Generate call.  It is opened as pending, moves to processing and from   *)
(* there to done, with the file made for it, or to failed, and can be      *)
(* deleted at any time; nothing happens to it afterwards, unless Redis was *)
(* given its task again: then its work begins and ends more than once.     *)
(***************************************************************************)
CONSTANTS Requests, None, SourceFile

VARIABLES record, link, again

recordVars == <<record, link, again>>

Init ==
    /\ record = [r \in Requests |-> "unborn"]
    /\ link = [r \in Requests |-> None]
    /\ again = {}

Becomes(r, from, to) ==
    /\ record[r] = from
    /\ record' = [record EXCEPT ![r] = to]
    /\ UNCHANGED again

\* Calls that open no record: refused ones, and all those of an ended process.
Refuse(S) ==
    /\ \A r \in S : record[r] = "unborn"
    /\ record' = [r \in Requests |-> IF r \in S THEN "gone" ELSE record[r]]
    /\ UNCHANGED <<link, again>>

Open(r) ==
    /\ Becomes(r, "unborn", "pending")
    /\ \E first \in {None, SourceFile} : link' = [link EXCEPT ![r] = first]

\* The task of r is there more than once from now on.
Repeat(r) ==
    /\ record[r] # "unborn"
    /\ again' = again \cup {r}
    /\ UNCHANGED <<record, link>>

\* What the record may also have come to by a second run of its task.
ByRepetition(r) == IF r \in again THEN {"processing", "done", "failed"} ELSE {}

Begin(r) ==
    /\ \E from \in {"pending"} \cup ByRepetition(r) : Becomes(r, from, "processing")
    /\ UNCHANGED link

Fail(r) ==
    /\ \E from \in {"processing"} \cup ByRepetition(r) : Becomes(r, from, "failed")
    /\ UNCHANGED link

Finish(r) ==
    /\ \E from \in {"processing"} \cup ByRepetition(r) : Becomes(r, from, "done")
    /\ link' = [link EXCEPT ![r] = r]

Delete(r) ==
    /\ \E from \in {"pending", "processing", "failed", "done"} :
           Becomes(r, from, "gone")
    /\ link' = [link EXCEPT ![r] = None]

Next ==
    \/ \E S \in SUBSET Requests : Refuse(S)
    \/ \E r \in Requests :
           \/ Open(r)
           \/ Repeat(r)
           \/ Begin(r)
           \/ Fail(r)
           \/ Finish(r)
           \/ Delete(r)

Spec == Init /\ [][Next]_recordVars

=============================================================================
