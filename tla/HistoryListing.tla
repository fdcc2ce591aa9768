--------------------------- MODULE HistoryListing ---------------------------
(***************************************************************************)
(* A client reads the export history of one agent or call page by page     *)
(* (internal/handler/grpc/pdf.go, internal/store/postgres/pdf.go) while    *)
(* calls insert rows, workers update them, rows are deleted and files are  *)
(* removed from the storage.  Each page is a query of its own, and nothing *)
(* but its number ties it to the page before.                              *)
(*                                                                         *)
(* Only the rows of that agent or call are modelled; times are numbers.    *)
(***************************************************************************)
EXTENDS Integers, SequencesExt

CONSTANTS
    Rows,       \* the ids the table may hold, each used once
    Old,        \* the times and the status of rows that are there at the start
    Requests,   \* what a client may ask for: the order, the size of a page and
                \* the page to begin with, 0 when the field is not set
    Changes,    \* what may happen between and during the queries, a subset of
                \* ChangeKinds
    MaxTime,    \* bound on the times that are written
    MaxChanges  \* bound on the changes during a walk

ChangeKinds == {"insert", "update", "delete", "remove", "break"}

\* The places of export_status, whose order ORDER BY follows.
Pending == 1
Processing == 2
Done == 3
Failed == 4

\* Clocks are read in milliseconds, before the statement is sent and by every
\* process: a time may be given twice, or come after a later one.
Times == 1..MaxTime

ASSUME RowsAssumption == IsFiniteSet(Rows)
ASSUME OldAssumption == Old \subseteq Times \X Times \X {Processing, Done, Failed}
ASSUME RequestsAssumption ==
    Requests \subseteq [sort : [sign : {"", "+", "-"},
                               column : {"", "created_at", "updated_at", "status"}],
                       size : Int, page : {0, 1}]
ASSUME ChangesAssumption == Changes \subseteq ChangeKinds
ASSUME MaxTimeAssumption == MaxTime \in Nat
ASSUME MaxChangesAssumption == MaxChanges \in Nat

VARIABLES
    table,    \* the rows, by id
    request,  \* what the client asks for
    page,     \* the page the client asks for next
    got,      \* the rows it was sent, in order
    walk,     \* "reading", "done", or "failed" when the last request was
    start,    \* history: the rows visible when the client began
    touched,  \* history: the rows inserted or updated since
    tied,     \* history: the rows that shared their key with another on a page read
    events,   \* history: what has happened since, a subset of Events
    changes   \* how many changes there have been

vars == <<table, request, page, got, walk, start, touched, tied, events, changes>>

\* A row was deleted or hidden, the connection broke while a page was read, an
\* update gave a row an earlier updated_at than it had.
Events == {"gone", "broken", "setBack"}

\* Ids not used yet, and rows that are gone.
Absent == [status |-> 0]
Deleted == [status |-> -1]

Row(created, updated, status, file, updatedBy) ==
    [uploaded_at |-> created, updated_at |-> updated, status |-> status,
     file_id |-> file, updated_by |-> updatedBy]

Files == {"none", "live", "removed"}

Present == {r \in Rows : table[r].status > 0}

\* The filter: no file, or one that is not removed.
Visible == {r \in Present : table[r].file_id # "removed"}

-----------------------------------------------------------------------------
(* listHistory.                                                             *)

\* The columns by the names of the API.
Columns ==
    [created_at |-> "uploaded_at", updated_at |-> "updated_at", status |-> "status"]

DefaultOrder == [column |-> "updated_at", descending |-> TRUE]

\* Bug: oldest first unless asked otherwise.
ParseSortAscending(sort) ==
    IF sort.sign \in {"+", "-"} /\ sort.column \in DOMAIN Columns
    THEN [column |-> Columns[sort.column], descending |-> sort.sign = "-"]
    ELSE [DefaultOrder EXCEPT !.descending = FALSE]

\* Without a leading sign, or with another column, the default applies.
ParseSort(sort) ==
    IF sort.sign \in {"+", "-"} /\ sort.column \in DOMAIN Columns
    THEN [column |-> Columns[sort.column], descending |-> sort.sign = "-"]
    ELSE DefaultOrder

Key(r, order) == table[r][order.column]

Ordered(s, order) ==
    \A i, j \in 1..Len(s) : i < j =>
        IF order.descending THEN Key(s[i], order) >= Key(s[j], order)
                            ELSE Key(s[i], order) <= Key(s[j], order)

\* Every order the database may answer in: equal keys come in any order.
Orders(rows, order) == {s \in SetToSeqs(rows) : Ordered(s, order)}

\* The rows whose place the order does not settle.
Sharing(order) ==
    {r \in Visible : \E q \in Visible \ {r} : Key(q, order) = Key(r, order)}

AskedPage(p) == IF p < 1 THEN 1 ELSE p
AskedSize(n) == IF n <= 0 THEN 20 ELSE n

\* What OFFSET and LIMIT leave of s.
Slice(s, offset, limit) == SubSeq(s, offset + 1, Min({offset + limit, Len(s)}))

\* Bug: the offset counts the page that is asked for.
WindowPastPage(s, p, n) == Slice(s, p * n, n + 1)

\* One row more than asked for tells that there are more.
Window(s, p, n) == Slice(s, (p - 1) * n, n + 1)

\* Bug: the row that tells that there are more is sent along.
PageOfAll(s, n) == [next |-> Len(s) > n, data |-> s]

PageOf(s, n) == [next |-> Len(s) > n, data |-> Slice(s, 0, n)]

\* Scan puts updated_by into an int64, which cannot hold a NULL.
Scans(s) == \A i \in 1..Len(s) : table[s[i]].updated_by

-----------------------------------------------------------------------------

TypeOK ==
    /\ table \in [Rows -> {Absent, Deleted} \cup
                     [uploaded_at : Times, updated_at : Times,
                      status : {Pending, Processing, Done, Failed},
                      file_id : Files, updated_by : BOOLEAN]]
    /\ request \in Requests
    /\ page \in Nat
    /\ got \in Seq(Rows)
    /\ walk \in {"reading", "done", "failed"}
    /\ start \subseteq Rows
    /\ touched \subseteq Rows
    /\ tied \subseteq Rows
    /\ events \subseteq Events
    /\ changes \in Nat

\* Exports that ended, and some that are being worked on, of any times.
Init ==
    /\ table \in [Rows -> {Absent} \cup
                     {Row(old[1], old[2], old[3], "live", TRUE) : old \in Old}]
    /\ request \in Requests
    /\ page = request.page
    /\ got = <<>>
    /\ walk = "reading"
    /\ start = Visible
    /\ touched = {}
    /\ tied = {}
    /\ events = {}
    /\ changes = 0

\* The rows that rows.Next delivers: all of the query's, or those before the
\* connection broke.  Which it was is not asked (rows.Err).
Delivered(rows) ==
    {rows} \cup IF "break" \in Changes
               THEN {SubSeq(rows, 1, n) : n \in 0..(Len(rows) - 1)} ELSE {}

\* A page is asked for and read; a failed one is asked for again.  The answer
\* echoes the number in the request and the client goes on from there.
List ==
    /\ walk # "done"
    /\ \E s \in Orders(Visible, ParseSort(request.sort)) :
           LET all == Window(s, AskedPage(page), AskedSize(request.size))
           IN \E rows \in Delivered(all) :
                  LET answer == PageOf(rows, AskedSize(request.size))
                  IN
                  \/ /\ ~Scans(rows)
                     /\ walk' = "failed"
                     /\ UNCHANGED <<page, got, tied, events>>
                  \/ /\ Scans(rows)
                     /\ walk' = IF answer.next THEN "reading" ELSE "done"
                     /\ got' = got \o answer.data
                     /\ page' = page + 1
                     /\ tied' = tied \cup Sharing(ParseSort(request.sort))
                     /\ events' = events \cup (IF rows = all THEN {} ELSE {"broken"})
    /\ UNCHANGED <<table, request, start, touched, changes>>

Changed(kind, r, value) ==
    /\ kind \in Changes
    /\ walk # "done"
    /\ changes < MaxChanges
    /\ changes' = changes + 1
    /\ table' = [table EXCEPT ![r] = value]
    /\ UNCHANGED <<request, page, got, walk, start, tied>>

\* With the caller's file_ids[0] or no file, and no updated_by.
InsertPdfExportHistory(r) ==
    /\ table[r] = Absent
    /\ \E now \in Times, file \in {"none", "live"} :
           Changed("insert", r, Row(now, now, Pending, file, FALSE))
    /\ touched' = touched \cup {r}
    /\ UNCHANGED events

\* The row with what a worker's update sets: the file only when it made one.
Update(r, now, to) ==
    Row(table[r].uploaded_at, now, to,
        IF to = Done THEN "live" ELSE table[r].file_id, TRUE)

UpdateAt(r, now, to) ==
    /\ Changed("update", r, Update(r, now, to))
    /\ touched' = touched \cup {r}
    /\ events' = events \cup (IF now < table[r].updated_at THEN {"setBack"} ELSE {})

\* Bug: a row is moved on to the status after its own.
UpdateToNext(r) ==
    /\ r \in Present
    /\ \E now \in Times : UpdateAt(r, now, table[r].status + 1)

\* A worker's update to processing, to done with the file it made, or to failed,
\* whatever the row was before: a task may run more than once.
UpdatePdfExportStatus(r) ==
    /\ r \in Present
    /\ \E now \in Times, to \in {Processing, Done, Failed} : UpdateAt(r, now, to)

DeletePdfExportRecord(r) ==
    /\ r \in Present
    /\ Changed("delete", r, Deleted)
    /\ events' = events \cup {"gone"}
    /\ UNCHANGED touched

\* The storage service marks the row's file as removed.
RemoveFile(r) ==
    /\ r \in Present
    /\ table[r].file_id = "live"
    /\ Changed("remove", r, [table[r] EXCEPT !.file_id = "removed"])
    /\ events' = events \cup {"gone"}
    /\ UNCHANGED touched

Next ==
    \/ List
    \/ \E r \in Rows :
           \/ InsertPdfExportHistory(r)
           \/ UpdatePdfExportStatus(r)
           \/ DeletePdfExportRecord(r)
           \/ RemoveFile(r)

Spec == Init /\ [][Next]_vars

-----------------------------------------------------------------------------
(* What a client may rely on when it has read to the last page.             *)

\* An order in which inserts and updates move no other row to an earlier place:
\* by creation, or by updates with the newest first, as long as no update gives
\* a row an earlier time than it had.  (Ascending by updated_at, an update moves
\* a row from the pages already read to the end and the next row is passed over.)
MovesNoneUp ==
    \/ request.sort \in [sign : {"+", "-"}, column : {"created_at"}]
    \/ /\ ParseSort(request.sort).column # "status"
       /\ request.sort # [sign |-> "+", column |-> "updated_at"]
       /\ "setBack" \notin events

\* In such an order, whatever is inserted or updated between two pages, and at
\* whatever times, each row that stood in the listing at the beginning, was left
\* alone and never shared its time with another is sent, if no read breaks off
\* and no row disappears.
UntouchedSeen ==
    walk = "done" /\ events \cap {"broken", "gone"} = {} /\ MovesNoneUp
        => start \ (touched \cup tied) \subseteq Range(got)

\* Rows that disappear pull others forward but never back: as long as nothing
\* is inserted or updated, a client that begins with page 1 is sent no row
\* twice but where the order leaves its place open, although each page is cut
\* from what the table then is, and a read may break off.
NothingTwice ==
    touched = {} /\ request.page = 1 =>
        \A i, j \in 1..Len(got) : got[i] = got[j] /\ got[i] \notin tied => i = j

\* In a table that nothing happens to, the pages put together are in the order
\* that was asked for, and as many as there are rows, even where rows with the
\* same status come in another order for each page.
StillTableInOrder ==
    touched = {} /\ "gone" \notin events /\ request.page = 1 =>
        /\ Ordered(got, ParseSort(request.sort))
        /\ walk = "done" /\ "broken" \notin events => Len(got) = Cardinality(Visible)

\* "GetPdfExportHistory retrieves paginated history" (internal/store/store.go:24):
\* with the database in reach, the history is what it answers, whatever rows
\* the service's own inserts and updates have put there.
ListingAnswers == walk # "failed"

=============================================================================
