---------------------------- MODULE PdfAssembly ----------------------------
(***************************************************************************)
(* How HandlePdfTask makes a PDF (internal/app/pdf_task.go, pdf_files.go,  *)
(* pdf_storage.go, internal/util, internal/util/pdf/maroto).  One          *)
(* goroutine per found file downloads it into the temp directory and       *)
(* resizes it there; then the images are read into a PDF, which is saved   *)
(* under a name made of the channel, the user and the second, and uploaded *)
(* from there; at last the images are removed.  The temp directory is the  *)
(* process's: all its workers use the same paths for the same file ids.    *)
(*                                                                         *)
(* Each worker has one task.                                               *)
(***************************************************************************)
EXTENDS Integers, Sequences

CONSTANTS
    Workers,    \* the workers of one process, each with one task
    Files,      \* file ids of the storage service
    Found,      \* the files the search returned for each worker's task
    NotImages,  \* files of a type IsValidImageMime refuses
    Names,      \* names of PDFs in Config.TempDir
    NameOf,     \* the name each task's PDF gets
    TakenAt,    \* when each screenshot was uploaded, in milliseconds
    UnitOf,     \* what File.uploaded_at tells of that
    Latest,     \* the greatest value that is taken for seconds: 1e12
    Faults,     \* what may go wrong, a subset of FaultKinds
    None

FaultKinds == {"download", "generate", "save", "upload"}

ASSUME FoundAssumption == Found \in [Workers -> SUBSET Files]
ASSUME NameAssumption == NameOf \in [Workers -> Names]
ASSUME NotImagesAssumption == NotImages \subseteq Files
ASSUME FaultsAssumption == Faults \subseteq FaultKinds
ASSUME NoneAssumption == None \notin Workers

\* File.uploaded_at is in seconds, in milliseconds, or not set.
Millis == 1000
Second(f) == TakenAt[f] \div Millis
UploadedAt(f) ==
    CASE UnitOf[f] = "s" -> Second(f) [] UnitOf[f] = "ms" -> TakenAt[f] [] OTHER -> 0

\* The times for which the guess at the unit is made: from September 2001 on as
\* milliseconds, and for some 30000 years as seconds.
ASSUME TimesAssumption ==
    /\ TakenAt \in [Files -> Nat]
    /\ UnitOf \in [Files -> {"s", "ms", "none"}]
    /\ Latest \in Nat
    /\ \A f \in Files : 0 < Second(f) /\ Second(f) <= Latest /\ Latest < TakenAt[f]

VARIABLES
    stage,  \* the next step of each worker
    fetch,  \* the next step of each worker's goroutine for each file
    disk,   \* the image at the temp path of each file
    pages,  \* the pages of each worker's PDF, by file
    order,  \* the same in the order of the document
    saved,  \* whose PDF is at each name
    sent    \* whose PDF each worker has uploaded

vars == <<stage, fetch, disk, pages, order, saved, sent>>

\* How the goroutine of a file ends: with a path for it, with an empty path,
\* or with an error, which is logged and otherwise ignored.
Ends == {"kept", "skipped", "failed"}

\* An image is there as downloaded or as resized, is damaged, or has the last
\* truncation by a worker's os.Create behind it and is not written to the end.
Images == {"absent", "raw", "small", "damaged"} \cup Workers

TypeOK ==
    /\ stage \in [Workers -> {"download", "generate", "upload", "cleanup", "done"}]
    /\ fetch \in [Workers -> [Files -> {"create", "receive", "decode", "resize",
                                        "write"} \cup Ends]]
    /\ disk \in [Files -> Images]
    /\ pages \in [Workers -> [Files -> {"none", "whole", "blank"}]]
    /\ order \in [Workers -> Seq(Files)]
    /\ saved \in [Names -> Workers \cup {None}]
    /\ sent \in [Workers -> Workers \cup {None}]

Init ==
    /\ stage = [w \in Workers |-> "download"]
    /\ fetch = [w \in Workers |-> [f \in Files |->
                    IF f \in Found[w] THEN "create" ELSE "skipped"]]
    /\ disk = [f \in Files |-> "absent"]
    /\ pages = [w \in Workers |-> [f \in Files |-> "none"]]
    /\ order = [w \in Workers |-> <<>>]
    /\ saved = [n \in Names |-> None]
    /\ sent = [w \in Workers |-> None]

-----------------------------------------------------------------------------
(* downloadAndResize, one goroutine per file.                               *)

FetchMoves(w, f, from, to) ==
    /\ fetch[w][f] = from
    /\ fetch' = [fetch EXCEPT ![w][f] = to]
    /\ UNCHANGED <<stage, pages, order, saved, sent>>

\* A file without a name is refused, one that is not an image has no path.
Refuse(w, f) ==
    /\ FetchMoves(w, f, "create", IF f \in NotImages THEN "skipped" ELSE "failed")
    /\ UNCHANGED disk

\* os.Create, which truncates what another worker has there.
Create(w, f) ==
    /\ f \notin NotImages
    /\ FetchMoves(w, f, "create", "receive")
    /\ disk' = [disk EXCEPT ![f] = w]

\* What is there when worker w has written the last chunk.  Another worker
\* that downloads the file writes the same bytes, one that resizes it others.
AfterLastChunk(w, f) ==
    LET foreign == disk[f] = "small" \/
                   \E v \in Workers \ {w} : disk[f] = v /\ fetch[v][f] = "write"
    IN  IF disk[f] = w THEN {"raw"}
        ELSE {disk[f]} \cup (IF foreign THEN {"damaged"} ELSE {})

\* Bug: the path of a download that broke off is kept.
ReceiveKeepingPath(w, f) ==
    \/ /\ FetchMoves(w, f, "receive", "decode")
       /\ \E image \in AfterLastChunk(w, f) : disk' = [disk EXCEPT ![f] = image]
    \/ /\ "download" \in Faults
       /\ FetchMoves(w, f, "receive", "kept")
       /\ UNCHANGED disk

\* Bug: a download that broke off makes room for another try.
ReceiveRetrying(w, f) ==
    \/ /\ FetchMoves(w, f, "receive", "decode")
       /\ \E image \in AfterLastChunk(w, f) : disk' = [disk EXCEPT ![f] = image]
    \/ /\ "download" \in Faults
       /\ FetchMoves(w, f, "receive", "retry")
       /\ disk' = [disk EXCEPT ![f] = "absent"]

\* The stream ends, or breaks off and leaves what was written.
Receive(w, f) ==
    \/ /\ FetchMoves(w, f, "receive", "decode")
       /\ \E image \in AfterLastChunk(w, f) : disk' = [disk EXCEPT ![f] = image]
    \/ /\ "download" \in Faults
       /\ FetchMoves(w, f, "receive", "failed")
       /\ UNCHANGED disk

\* ResizeImage reads the file; its error is ignored.
Decode(w, f) ==
    /\ \/ disk[f] \in {"raw", "small"} /\ FetchMoves(w, f, "decode", "resize")
       \/ FetchMoves(w, f, "decode", "kept")
    /\ UNCHANGED disk

\* imaging.Save: os.Create, then the resized image.
Resize(w, f) ==
    /\ FetchMoves(w, f, "resize", "write")
    /\ disk' = [disk EXCEPT ![f] = w]

Write(w, f) ==
    /\ FetchMoves(w, f, "write", "kept")
    /\ disk' = [disk EXCEPT ![f] = IF @ = w THEN "small" ELSE @]

-----------------------------------------------------------------------------
(* HandlePdfTask.                                                           *)

StageMoves(w, from, to) ==
    /\ stage[w] = from
    /\ stage' = [stage EXCEPT ![w] = to]

Kept(w) == {f \in Found[w] : fetch[w][f] = "kept"}

\* Bug: the goroutine of a file that is no image does not call wg.Done.
WaitForImages(w) ==
    \A f \in Found[w] : fetch[w][f] \in {"kept", "failed"}

\* wg.Wait.
WaitForAll(w) == \A f \in Found[w] : fetch[w][f] \in Ends

DownloadScreenshots(w) ==
    /\ WaitForAll(w)
    /\ StageMoves(w, "download", "generate")
    /\ UNCHANGED <<fetch, disk, pages, order, saved, sent>>

\* Bug: every time is taken for seconds.
InstantInSeconds(f) == Millis * UploadedAt(f)

\* The time of a page: seconds and milliseconds are told apart by their size.
Instant(f) == IF UploadedAt(f) > Latest THEN UploadedAt(f) ELSE Millis * UploadedAt(f)

\* The later page goes first; one without a time has time.Time{}, before all.
Newer(f, g) ==
    UploadedAt(f) # 0 /\ (UploadedAt(g) = 0 \/ Instant(f) > Instant(g))

\* tryAddImage for the newest image left: one that cannot be read is logged and
\* its page is blank.
AddImage(w, f) ==
    /\ stage[w] = "generate"
    /\ f \in Kept(w)
    /\ pages[w][f] = "none"
    /\ \A g \in Kept(w) : Newer(g, f) => pages[w][g] # "none"
    /\ order' = [order EXCEPT ![w] = Append(@, f)]
    /\ pages' = [pages EXCEPT ![w][f] =
                    IF disk[f] \in {"raw", "small"} THEN "whole" ELSE "blank"]
    /\ UNCHANGED <<stage, fetch, disk, saved, sent>>

\* The deferred CleanupFiles: what the map of kept paths names.
Remove(w) ==
    disk' = [f \in Files |-> IF f \in Kept(w) THEN "absent" ELSE disk[f]]

\* Bug: the cleanup is deferred when the PDF is there, not before.
GenerateFailsWithoutCleanup(w) ==
    /\ Kept(w) = {} \/ "generate" \in Faults
    /\ StageMoves(w, "generate", "done")
    /\ UNCHANGED <<fetch, disk, pages, order, saved, sent>>

\* No image to show, or an error of the PDF library, which an image that could
\* not be read may have caused.
GenerateFails(w) ==
    /\ \/ Kept(w) = {}
       \/ "generate" \in Faults
       \/ \E f \in Kept(w) : pages[w][f] = "blank"
    /\ StageMoves(w, "generate", "cleanup")
    /\ UNCHANGED <<fetch, disk, pages, order, saved, sent>>

\* m.Output and SavePDFToTemp.
SavePDF(w) ==
    /\ Kept(w) # {}
    /\ \A f \in Kept(w) : pages[w][f] # "none"
    /\ \/ /\ StageMoves(w, "generate", "upload")
          /\ saved' = [saved EXCEPT ![NameOf[w]] = w]
       \/ /\ "save" \in Faults
          /\ StageMoves(w, "generate", "cleanup")
          /\ UNCHANGED saved
    /\ UNCHANGED <<fetch, disk, pages, order, sent>>

\* What is sent is what is at the name by then.
Upload(w) ==
    /\ StageMoves(w, "upload", "cleanup")
    /\ \/ sent' = [sent EXCEPT ![w] = saved[NameOf[w]]]
       \/ "upload" \in Faults /\ UNCHANGED sent
    /\ UNCHANGED <<fetch, disk, pages, order, saved>>

Cleanup(w) ==
    /\ StageMoves(w, "cleanup", "done")
    /\ Remove(w)
    /\ UNCHANGED <<fetch, pages, order, saved, sent>>

-----------------------------------------------------------------------------

FetchStep(w, f) ==
    \/ Refuse(w, f)
    \/ Create(w, f)
    \/ Receive(w, f)
    \/ Decode(w, f)
    \/ Resize(w, f)
    \/ Write(w, f)

TaskStep(w) ==
    \/ DownloadScreenshots(w)
    \/ \E f \in Files : AddImage(w, f)
    \/ GenerateFails(w)
    \/ SavePDF(w)
    \/ Upload(w)
    \/ Cleanup(w)

Next == \E w \in Workers : TaskStep(w) \/ \E f \in Files : FetchStep(w, f)

Spec == Init /\ [][Next]_vars

\* Goroutines are scheduled and the calls of the storage service return.
FairSpec ==
    /\ Spec
    /\ \A w \in Workers : WF_vars(TaskStep(w))
    /\ \A w \in Workers, f \in Files : WF_vars(FetchStep(w, f))

-----------------------------------------------------------------------------

\* No other worker of the process has found the file.
Own(w, f) == f \in Found[w] /\ \A v \in Workers \ {w} : f \notin Found[v]

\* A page shows the whole image, resized or not: a download that broke off, or
\* an image that is still being written by one of the task's goroutines, is not
\* read into the PDF.  (As long as no other worker has the file: two workers that
\* have one download, resize and remove it under each other.)
PagesWhole ==
    \A w \in Workers : \A f \in Files : Own(w, f) => pages[w][f] # "blank"

\* When a task is over, however it ended, no image of it stays in the temp
\* directory but what a broken download has left there.
NoLeftovers ==
    \A w \in Workers : stage[w] = "done" =>
        \A f \in Files : Own(w, f) =>
            disk[f] = "absent" \/ fetch[w][f] = "failed"

\* "Screenshots are sorted by UploadedAt" (internal/util/pdf/maroto/
\* generator.go:20), the newest first: by the second at which they were really
\* uploaded, in whichever unit each time comes, and those without one last.
PagesNewestFirst ==
    \A w \in Workers : \A i, j \in 1..Len(order[w]) : i < j =>
        LET f == order[w][i]
            g == order[w][j]
        IN UnitOf[g] # "none" => UnitOf[f] # "none" /\ Second(g) <= Second(f)

\* A worker is not stuck in a task: whichever downloads fail and whatever its
\* files are, it comes to the end of it.
TaskEnds == \A w \in Workers : <>(stage[w] = "done")

\* "attach the final file reference after processing" (internal/domain/model/
\* pdf/model.go:20): the file that a task uploads, and its row references, is
\* the PDF that the task has made.
UploadsOwn == \A w \in Workers : sent[w] \in {w, None}

=============================================================================
