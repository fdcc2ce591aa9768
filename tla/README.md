# Verification of media-exporter

TLA+ models of `webitel/media-exporter`, TLC runs over small instances of them
and TLAPS proofs for every instance. The service takes requests to export the
screenshots of an agent or of a call as a PDF. It records each request in a
PostgreSQL table, queues it in Redis, and lets worker goroutines search,
download, assemble and upload the PDF through the storage service.

## Inventory

| Component | Source | State | Operations | Hard behaviour | What makes it correct |
|---|---|---|---|---|---|
| Export service | `internal/service/pdf.go` | none of its own; Redis keys, history rows | `GenerateExport`, `GenerateCallExport`, `DeleteRecord`, histories | five remote calls in a row without a transaction; the status check and the status write are far apart | a pending row has a task; a row is written for its own request only |
| Task queue and key cache | `internal/cache/redis/redis.go` | list of tasks, status key and history key per task id, 24 h TTL | push, pop, get/set status and history id, clear, FLUSHDB | destructive pop, commands that the client sends again, expiry, partial clearing, shared by all processes | a task is held once for each push; keys do not outlive their task |
| Export workers | `internal/app/worker.go`, `pdf_task.go` | the task and row id each goroutine holds | the loop, `HandlePdfTask`, `SetTaskStatus` | interleaving with handlers and other workers, crash between any two calls, errors that are ignored | accepted exports end; final rows stay final unless the push was repeated; done means a stored file |
| History table | `internal/store/postgres/pdf.go` | rows | insert, update, delete, paginated listing | NULL columns, paging boundaries, rows that change between pages | a listing returns what the table has |
| PDF assembly | `internal/app/pdf_files.go`, `pdf_storage.go`, `internal/util`, `internal/util/pdf/maroto` | temp files, streams, goroutine results | download, resize, generate, save, upload, clean up | one goroutine per file, swallowed errors, temp names shared by workers | an uploaded PDF is the one of its task |
| Lifecycle | `cmd/main`, `internal/app/app.go`, `internal/server/grpc.go`, `registry/consul` | process stage, unbuffered channels, Consul registration | start, serve, TTL updates, stop | goroutines meeting on unbuffered channels, exit during shutdown, a registration that an earlier process left | a signal ends the process; a registered service is served |
| Authorization | `auth/manager`, `internal/server/interceptor`, `internal/domain/model/options` | singleflight group, the session in a call's context | authorize, validate, handle, answer | calls that share one request to the auth service and one context; accounts that change meanwhile | a session is the call's own and not stale; a refusal has a reason, and the client is told; every call is answered |
| Sessions | `auth/session` | rights and scopes of a user | OBAC and RBAC checks | - | access only when a scope, a grant or a permission of the user gives it |
| Errors | `internal/errors`, `interceptor/error.go` | error chains | wrap, code, id, values, conversion to a gRPC status | chains through two kinds of link; `Unwrap` makes up errors | everything in both chains is found and nothing else; walks end; a cause never speaks for its error |
| Configuration, logging, generated API, packaging | `config`, `internal/otel`, `api`, `deploy` | none | - | - | not modelled |

### How the parts meet

- Every gRPC call passes `OuterInterceptor`, which turns errors into status
  codes, then the authorization, which asks the auth service what it knows of
  the call's token and puts a session into its context, then validation.
- A gRPC handler runs `createExportTask`: it reads the status key of a task id
  (channel, user, local second), inserts a `pending` row, stores the row id
  under the task id, pushes the task and sets the status key to `pending`.
- Every process runs worker goroutines. Each pops a task, reads the row id back
  from Redis (it is not in the task), sets key and row to `processing`,
  searches, assembles and uploads, sets key and row to `done` or `failed`, and
  clears the keys. Handlers and workers of all processes share nothing but
  Redis, the table and the storage service.
- A client polls the history; that listing, page by page, is all it has.
- On a signal, `main` deregisters from Consul, stops the server, closes the
  connections, runs FLUSHDB and exits. Handlers and workers are not told.

## Modules

| Module | What it is | Extends / uses |
|---|---|---|
| `ExportService` | handlers, queue, key cache, rows, workers, processes: one action per remote call | `SequencesExt` |
| `ExportRecord` | what a client may rely on: the life of one history record | |
| `ExportProperties` | the properties of the export service, its refinement of `ExportRecord` | `ExportService`, `ExportRecord` |
| `ExportProofs`, `ExportKeyProofs`, `ExportRefinement` | the theorems about it | `ExportProperties` |
| `PdfAssembly`, `PdfAssemblyProofs` | inside `AssemblePdf` and `UploadPdfToStorage` of `ExportService`: download goroutines, temp files, generation, upload, cleanup | |
| `ProcessStages` | what `ExportService` assumes of the end of a process | |
| `Lifecycle`, `LifecycleProofs` | the goroutines and channels of one process, and Consul; refines `ProcessStages` | `ProcessStages` |
| `HistoryListing`, `HistoryListingProofs` | a client paging through a changing table | `SequencesExt` |
| `UserSession` | the session made of an account and its checks, as operators | |
| `CallPath`, `CallPathProofs` | calls on their way through the interceptors, sharing requests to the auth service | `UserSession` |
| `ErrorChain`, `ErrorChainProofs` | the errors of `internal/errors` and the walks over them | `SequencesExt` |
| `MCExportService`, `MCPdfAssembly`, `MCHistoryListing`, `MCCallPath` | instances for TLC | |

Definitions that a comment calls a *bug* are altered copies of the definition
after them. They are no part of a specification: each shows that a property
would fail if the code had that bug (`mutants` in `PROJECT.json`).

### ExportService

A request stands for one Generate call and at once for its row, its task and the
file a run of that task uploads; row ids are never reused. `call[r]` and
`step[w]` are the program counters of handlers and workers, `queue` the Redis
list, `status` and `historyID` the keys by task id, `row` and `file` two columns
of the table, `node` the stage of each process. `uploads` counts the uploads of
each task that reached the storage service, `resent` how often its push took
effect and was sent again.

Each call to Redis, PostgreSQL or the storage service is one step. With the
fault enabled, a call may fail without an effect (`"failed"`) or have its effect
while its answer is lost (`"lost"`), and the code goes on as it does on an
error. The Redis client is built with the defaults of go-redis (`redis.go:28`),
which sends a command up to three times again (`MaxRetries`) when its answer
does not come. The outcome `"again"` is such a round: the command took effect,
and the caller still waits. For most commands that writes the same key twice. An
RPUSH puts the task on the list once more, so that it runs more than once, even
when the call reports success; only these repetitions are counted and bounded. A
BRPOP that is sent again loses the task it took, as one that failed for good. A
command whose client gave up is taken to have had its effect by then or to have
none. Errors the code ignores are ignored: those of `SetExportStatus` in the
worker, of `ClearExportTask`, of `UpdatePdfExportStatus` for `failed`.

| Action | Code |
|---|---|
| `GenerateExport`, `CheckStatus`, `InsertPdfExportHistory`, `SetExportHistoryID`, `PushExportTask`, `SetPendingStatus` | `service/pdf.go`, a step for each call of `createExportTask` |
| `DeleteRecord` | `DeletePdfExportRecord`, and the table's ON DELETE CASCADE |
| `PopExportTask`, `PopNothing`, `GetExportHistoryID` | `StartExportWorker`, the beginning of `HandlePdfTask` |
| `SetProcessing`, `SetDone`, `SetFailed`, `MarkFailed` | `SetTaskStatus`: the key, then the row |
| `SearchScreenRecordings`, `AssemblePdf`, `UploadPdfToStorage` | the middle of `HandlePdfTask` |
| `ClearStatus`, `ClearHistory` | `ClearExportTask` |
| `ExpireStatus`, `ExpireHistoryID` | the 24 hour TTL |
| `StopServer`, `CloseConnections`, `ClearCache`, `Exit`, `Crash`, `Restart` | `App.Stop`, `main.Run`, a crash, the next start |

Left out: the content of tasks and rows, the time ranges, authorization (any
call may be refused; `CallPath` has the reasons), and the error of
`ParseChannel` (`pdf_task.go:32`), which would leave the row in `processing`, as
the failed search does, but cannot come up: handlers put one of the two channels
it knows into a task. `Exists`, the URL keys and the debug listings of the cache
have no caller.

### PdfAssembly

`fetch[w][f]` is the goroutine of a file, `stage[w]` the worker. `disk[f]` is
what is at the temp path of a file id, which all workers of the process share:
nothing, an image as downloaded (`raw`) or resized (`small`), a damaged one, or
the beginning of one, marked by the worker that truncated it last. `saved` is
the PDF at each temp name, `sent` what was uploaded. `NameOf` gives the name of
each task's PDF, which in the code is channel, user and second.

`order` is the document, page by page. `TakenAt` is when a screenshot was really
uploaded and `UnitOf` how `File.uploaded_at` tells it, in seconds, in
milliseconds or not at all; `Instant` is the guess that the generator makes,
`AddImage` takes the newest image left. The PDF library is taken to fail when it
likes; a disk that is full is left out.

### Lifecycle

`main`, `starter`, `server` and `checker` are the four goroutines; a send on an
unbuffered channel is one step of both sides. A call to Consul may fail, or take
effect and be reported as failed. `Reap` is Consul dropping a service that does
not check in. Deregistering an id that Consul does not know is an error. The id
is the configured one (`registry.go:59`), the same in each process that is
started: `registered` says that Consul knows it, is of either value at the
start, because a process that crashed leaves its registration behind until its
check has been critical for half a minute, and may come from either process.
`withdrawn`, a history, says that `Deregister` took effect after this process
had called `Register`. `New` is the initialisation in `app.New`, which runs
alone before all this; one that fails ends the process with 0.

### HistoryListing

The rows of one agent or call. `List` is a whole request: the filter for removed
files, the order (`parseSort`), offset and limit, the extra row that tells that
there is a next page, and the scan into Go values. The client goes on to the
next page until the last one, and asks again for a page that failed. Between two
pages anything may happen to the table. `ORDER BY` with equal keys may answer in
any order, another one for each query. Times are milliseconds, read before the
statement is sent and by every process, so that a row may be inserted or updated
at any time, the same as another's or an earlier one; `tied` notes the rows that
shared their key with another on a page that was read, `setBack` that an update
gave a row an earlier time than it had. A connection that breaks while rows are
read ends the page without an error (`Delivered`), because `rows.Err` is not
asked.

### CallPath and UserSession

`step[c]` is where a call is: at the authorization (`new`), in `Group.Do`
(`waiting`), past the authorization, past validation, answered. `flight[t]` is
the singleflight group: the call whose request to the auth service is out for a
token, or none; `shares[c]` the call whose request c waits for, itself or
another. The first call's `ctx` is the request's, so `Cancelled` is about its
client only; a call that waits for another's request is not woken by its own
client's end. `account[t]` is what the auth service knows of a token and changes
at any time. `since[c]`, a history, collects what it was while c's request was
out.

Errors are followed as the codes attached to them and their causes; `Code` is
`errors.Code`, which `ErrorChain` justifies. The handlers' own `status.Error`
and what the database and Redis return have no code that it knows.

`UserSession` has the session that an account makes and the two checks, over the
bits of `AccessMode`. No handler calls the checks yet; `RightsOfAccount` looks
at them for the sessions that calls get.

### ErrorChain

`layers` holds every layer in the order of construction, `chain[e]` the layers
of an error, outermost first: values, causes, layers of other packages and the
error at the core. `walk` is one walk over the newest error with
`errors.Unwrap`, which stands for `Is` with a target that is not found and for
`Values` at once. A position of the walk (`View`) is an error or a shim that
`Unwrap` made: the rest of the list and the cause that it carries along.
`Lookup` is one step, its loop is over the list. `As` goes the way of `Is`.

## Runs

| Run | Instance | What it shows |
|---|---|---|
| `shared` | 2 calls of one task id, a third of another id without a session, 2 workers, uploads fail | types; a row in processing has a worker (`ProcessingHasWorker`); `FileOfSameTask` |
| `steady` | 3 calls of different ids, one without a session, 1 worker, fair | `KeysHaveOwner`, `PendingHasTask`, `Settles` |
| `processes` | 1 call, 2 processes with a worker each that stop or crash and start again, a push that may be sent again once; every fault | `TaskHeldOnce`, `UploadedOnce`, `DoneHasFile`, `TerminalIsFinal`, the refinement `RecordSpec` |
| `assembly` | 2 workers, 4 files, one shared, one no image, times in both units and one missing; all faults, fair | `PagesWhole`, `NoLeftovers`, `PagesNewestFirst`, `TaskEnds` |
| `lifecycle` | one process, with or without a registration of an earlier one, all faults, fair | `DeregisteredForGood`, `StagesSpec`, `SignalEnds`, `FailureEnds` |
| `listing` | 3 rows, 6 requests, up to 2 changes of any kind, reads that break off, any times up to 3 | `UntouchedSeen`, `NothingTwice`, `StillTableInOrder` |
| `calls` | 2 calls, 2 tokens, 3 possible accounts, fair | `SessionFresh`, `RefusalHasCause`, `UnauthenticatedMeansNoSession`, `RightsOfAccount`, `CallsEnd` |
| `errors` | every error of up to 5 layers, 2 keys, 2 values, fair | `IsExact`, `ValuesOfPlain`, `WrappersKeepValues`, `WalkEnds` |
| `search_fails`, `listing_null`, `uploads_own`, `stale_registration` | the smallest instance that shows it | a finding each, below |

**Why these bounds.** The hazards of the export service are between two tasks,
or between a task and the process under it: a handler and a worker, two workers
with one id, a worker and a flush by another process. Two calls, two workers and
two processes show each of them, and the theorems below carry the safety
properties to any number. In `processes` there is one task: what matters there
is its handler, its worker, another process that flushes the list under it and a
worker that comes upon it again, together with every other fault. A push that is
sent again once (`MaxRetries` 1; go-redis does up to three times) makes two
copies, so that each of the two workers is at work on one while the other ends
its own, clears the keys and finishes the row. What more copies, or those of two
tasks, could do is the theorems' part, and what failing Redis calls and expiring
keys could do to calls that share an id (`FilesOfSameTask`). The third call of
`shared` has a row that a file of the other two must not get into; without a
session its own task is short. A third call is in `steady` for the list to hold
more than one task behind the one that runs, which is where newest-first could
starve one. `listing` has three rows: up to three pages are read, and two
changes (`MaxChanges`), the same or different, can fall between any two of them.
Three times (`MaxTime`) are an earlier one, a later one and one between them,
each of which rows may share; one old row has an `updated_at` before its
`uploaded_at`, as clocks of two processes can make it. `assembly` has a shared
file, two own files and one that is refused; a later time in seconds is the
smaller number than an earlier one in milliseconds, and the last upload has no
time at all, so that every rule of the page order decides something. In `calls`
two calls are one that makes a request and one that shares it, or two of
different users; accounts can be given other rights, go and come back between
any two steps; `c1` and `c2` can take either part. `errors` reaches causes that
have causes, two causes on end, and values and foreign layers below, between and
above them. The models count nothing but pushes sent again (`MaxRetries`),
uploads (no more than pushes), layers (`MaxLayers`), times and changes.

**Symmetry.** `shared` exchanges the workers, and the calls that share an id;
`listing` exchanges rows. No run with a liveness property uses symmetry.

**Deadlock** is checked for the export service, whose workers poll for ever. The
listing, the assembly and a process come to an end.

**Fairness.** Weak fairness of each handler, worker, download and lifecycle
goroutine, and of each call on its way: Go schedules a goroutine that can run.
It implies that remote calls return, those to the auth service included. The
code has no deadlines of its own there, so that this is an assumption, listed as
a hazard. In `ErrorChain` the loop that walks an error goes on. No fairness is
given to clients, signals, crashes, accounts that change, breaking listeners,
expiry, Consul's reaper, or deletions. `Settles` holds although the list is last
in first out because the calls are finitely many.

## Findings

1. `search_fails`: a search that fails leaves the row in `processing` for good
   (`pdf_task.go:65`), where the empty result and every failure from there to
   the upload write `failed`.
2. `listing_null`: a page with a row that no worker has updated cannot be
   scanned (`store/postgres/pdf.go:98`): `updated_by` is NULL.
3. `uploads_own`: two tasks of one user in one second share the name of the PDF
   (`pdf_task.go:93`); one row can get the other's file.
4. `stale_registration`: a process that gets a signal during its start, while
   Consul still holds its predecessor's registration, deregisters that one,
   registers afterwards and ends registered (`registry.go:109`).

Seen on the way, modelled as it is, without a run of its own: two calls with one
id both pass the status check; a push that Redis is sent again makes a task run
more than once, bring a finished row back to `processing` and store its file
again; the task is pushed before its status is set (`service/pdf.go:158`,
`:164`), so a fast worker leaves `pending` behind for a day; two tasks with one
screenshot share its temp file (`pdf_files.go:62`) and truncate or remove it
under each other; an initialisation that fails ends the process with 0, which
`Restart=on-failure` in its unit does not restart; a client that gives up takes
with it every call that shares its request to the auth service; the handlers'
`InvalidArgument` and failed validation reach the client as `Internal`; `Values`
passes over values attached before a cause and reports the cause's; FLUSHDB on
stop drops the waiting tasks of every process; the list is RPUSH and BRPOP,
newest first; page 0 is answered as page 1 and echoed as 0; the order leaves
ties open, also between equal times; `rows.Err` is not asked; the API's
`updated_at desc` is not understood by `parseSort`; `Server.Stop` cancels calls
under a comment that says gracefully; a deregistration that fails leaves the
server running while everything under it is closed; the saved PDFs are never
removed.

## Proofs

For any calls, workers, processes, files, ids and (unless said) faults.

| Theorem | Property | Inductive invariant |
|---|---|---|
| `TypeCorrect` | `TypeOK` | `Typed`: a worker that is not idle holds a task, or reading its key would have no meaning (`WorkersHold`) |
| `HeldOnce`, `UploadsOnce` | `TaskHeldOnce`, `UploadedOnce` | `HeldInv`: both, and nothing is sent again before the handler has come to the push; each effect of a push adds a place, and the pop and the upload move it on |
| `FilesOfSameTask` | `FileOfSameTask` | `KeysOfTask`: what a key, or a worker that read it, names has that task id |
| `DoneRowsHaveFiles` | `DoneHasFile` | `DoneWasUploaded`: who reports done has uploaded |
| `ProcessingIsWorkedOn` | `ProcessingHasWorker` | `AllUp`; assumes that database and search do not fail and no process ends (`SteadyProcesses`) |
| `KeysAreOwned` | `KeysHaveOwner` | `KeysInv`: the worker that a status came from has not cleared it yet, and a history key has one who will still read it; assumes that Redis answers and no process ends (`NothingLost`) |
| `PendingIsOnItsWay` | `PendingHasTask` | itself; assumes besides that the database answers and no key expires (`ProcessingIsReached`) |
| `RowsRefineRecords` | `RecordSpec` | `RowInv`: the place of a task tells how far its row is, and, when its push was sent again, only that the row has begun; assumes that each call has an id of its own (`OwnIds`) |
| `TerminalRowsAreFinal` | `TerminalIsFinal` | from the same, under `OwnIds`; that a final status stays is for rows whose push was not sent again |
| `LifecycleTypeCorrect` | `TypeOK` | itself |
| `StaysDeregistered` | `DeregisteredForGood` | `RegisteredOnce`: after a deregistration that `withdrawn` counts the server is past its one `Register`, which it never returns to |
| `LifecycleHasStages` | `StagesSpec` | none needed: each step is a stage or a stutter |
| `AssemblyTypeCorrect` | `TypeOK` | itself |
| `DocumentsNewestFirst` | `PagesNewestFirst` | `PagesInOrder`: what is newer than a page already made is a page too; the guess at the unit is right for the times of `TimesAssumption` |
| `OwnPagesWhole`, `ImagesRemoved` | `PagesWhole`, `NoLeftovers` | `AssemblyInv`: the steps come in order (`InOrder`), and the image of a file that one task only has is where its goroutine left it (`OwnImage`) |
| `CallTypeCorrect` | `TypeOK` | itself |
| `SessionsAreFresh`, `RefusalsHaveCause`, `UnauthenticatedIsTold` | `SessionFresh`, `RefusalHasCause`, `UnauthenticatedMeansNoSession` | `CallInv`: who waits for a request shares a token with the call that made it (`Links`), and what came of the request is something the account was since (`Histories`) |
| `SessionsGrantAccounts` | `RightsOfAccount` | from the same, with `GrantsOfSession` about the checks of one session |
| `ListingTypeCorrect` | `TypeOK` | itself |
| `NoRowTwice` | `NothingTwice` | `SentBefore`: what was sent and is not in `tied` ranks before the next page's offset |
| `UntouchedRowsSeen` | `UntouchedSeen` | `SeenOrAhead`: a row that was left alone is sent, in `tied`, or ranks at or after the next page's offset |
| `StillTableIsRead` | `StillTableInOrder` | `StillSent`: what was sent has, place by place, the keys that any listing of the table has, and ends where the next page begins |
| `ErrorsTypeCorrect` | `TypeOK` | `Formed`: an error is made of older layers and older causes |
| `IsSeesAll` | `IsExact` | `SeenAndRemaining`: what was compared and what is ahead are together all that can be reached |
| `ValuesAgree` | `ValuesOfPlain` | `NotedOrAhead`: what `Lookup` finds is noted, or the first such value ahead |
| `WrappersKeep` | `WrappersKeepValues` | `Formed` |
| `WalksDescend` | - | `AllGrounded`: a list ends in the error that was wrapped, so no list ends in a cause |

The proofs go action by action. Most steps of a system leave a given property
alone, so each part begins with a lemma that says what such a step may do
(`NothingAdded`, `NothingAttached`, `NothingDone`, `NothingLeft`,
`NothingForward`, `NothingDropped`), and only the steps that matter are looked
at one by one. The constants' assumptions are the ones named in the modules,
which TLC checks in each run. `PushedQueue` and `PoppedQueue` say what the list
holds after `Append` and `Front`.

**Keys and pending rows.** Both properties say that something left behind still
has somebody: a key one who clears it, a pending row one who sets it to
processing. They are proved by showing who hands over to whom. A worker that is
at its last step has cleared the status already, so that `Held`, which counts
it, is not inductive for the status; `StatusHasClearer` leaves that worker out.
The hypotheses are those of the run `steady`, weakened to the faults that
matter: `KeysAreOwned` allows for failing databases, searches and uploads and
for expiry. Ids may be shared; what the properties say of a history key or a row
is for those whose id is their own.

**The listing.** The argument is about ranks. `Rank(r)` is the number of visible
rows that the order puts before r; by `RankIsPlace` it is r's place in any
answer when no other row has its key, so by `PageRanks` such a row is on the
page whose offsets its rank is among, whatever the rows around it share. An
insert or an update raises the rank of an untouched row or leaves it
(`RankAfterWrite`), at whatever time it is made, in an order by creation,
because a row keeps its time of creation, and with the newest update first as
long as no update sets a row back; in the other orders it need not. A row that
disappears lowers ranks or leaves them (`RankAfterGone`). For equal keys ranks
say nothing, and `StillSent` follows the keys instead: any two sorted listings
of the same rows have the same key at each place (`SameKeys`). Nothing is
assumed of the times.

**Errors.** `CauseIn` and `ValueIn` are `Cause` and `Lookup` of any list, read
off its head (`CauseOfHead`, `ValueOfHead`), which is how `Unwrap` goes through
it. `Reach` is defined by recursion over older causes. That the recursion is
well defined is proved first (`RecursionEnds`, `ReachReads`), and `UnwrapKeeps`
then shows that `Unwrap` leaves out of a walk just what `Compared` accounts for.
`WalksDescend` is the safety half of `WalkEnds`: the cause ahead, and after it
the length of the list, get smaller at every `Unwrap`. That a walk which gets
nearer at each step ends is then a matter of fairness, and with TLC.

**Induction over numbers.** The library's theorems for it take an operator,
which the provers here cannot instantiate. `LeastNumber` of `ErrorChainProofs`
gives the same: the intervals `0..x` are finite sets, on which the strict subset
relation is well founded, and that theorem takes sets only. A property that
failed for some number would fail for a least one.

Model-checked only: everything under fairness (`Settles`, `TaskEnds`,
`SignalEnds`, `FailureEnds`, `CallsEnd`, `WalkEnds`), which is out of the
prover's reach, and the four findings, which are counterexamples. Every safety
property of the passing runs has a theorem; those of `RecordSpec`,
`TerminalIsFinal`, `ProcessingHasWorker`, `KeysHaveOwner` and `PendingHasTask`
have the hypotheses named above.

## Not modelled

- The generated API, `api/*.pb.go`: about 15800 of the repository's 20000 lines
  of Go, written by protoc. They encode messages and call handlers and keep no
  state of the program. What the models map is most of the rest.
- Configuration, logging and tracing: read once, or written and never read.
- A handler that panics: `OuterInterceptor` recovers and answers neither a
  response nor an error (`error.go:22`), under a TODO that says so.
- The connection pool of `store.go`, a library; that opening it may fail is in
  `Lifecycle`.
- Licences, roles, names and expiry of a session: nothing looks at them.
- The wording of errors, and `httpCodeToGrpc`, `initSignals`, `Exists` and the
  other functions without a caller.
- A disk that is full, which would leave parts of images and of PDFs.

## Plan

1. A composition of `ExportService` with a listing client: what a poll of the
   history sees of an export.
2. Proofs: the refinement without `OwnIds` for a weaker record, whose file may
   be another task's; the dividing line between the ids that share and those
   that do not is `Unshared`.

The runs are few on purpose. A finding that is settled in the code gives its run
to a new question.
