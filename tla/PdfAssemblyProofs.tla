------------------------- MODULE PdfAssemblyProofs -------------------------
(***************************************************************************)
(* Proofs about PdfAssembly, for any workers, files, names and faults.     *)
(***************************************************************************)
EXTENDS PdfAssembly, TLAPS

\* Lemma: a step of a goroutine keeps the types.
LEMMA FetchTypes ==
    ASSUME TypeOK, NEW w \in Workers, NEW f \in Files, FetchStep(w, f)
    PROVE  TypeOK'
  <1> USE DEF TypeOK, FetchMoves, Ends, Images
  <1>1. CASE Refuse(w, f)
    BY <1>1 DEF Refuse
  <1>2. CASE Create(w, f)
    BY <1>2 DEF Create
  <1>3. CASE Receive(w, f)
    <2>1. AfterLastChunk(w, f) \subseteq Images
      BY DEF AfterLastChunk
    <2>2. disk' \in [Files -> Images]
      <3>1. CASE UNCHANGED disk
        BY <3>1
      <3>2. CASE \E image \in AfterLastChunk(w, f) : disk' = [disk EXCEPT ![f] = image]
        <4>1. PICK image \in Images : disk' = [disk EXCEPT ![f] = image]
          BY <2>1, <3>2
        <4>2. QED
          BY <4>1
      <3>3. QED
        BY <1>3, <3>1, <3>2 DEF Receive
    <2>3. PICK to \in {"decode", "failed"} : fetch' = [fetch EXCEPT ![w][f] = to]
      BY <1>3 DEF Receive
    <2>4. UNCHANGED <<stage, pages, order, saved, sent>>
      BY <1>3 DEF Receive
    <2>5. QED
      BY <2>2, <2>3, <2>4
  <1>4. CASE Decode(w, f)
    <2>1. PICK to \in {"resize", "kept"} : fetch' = [fetch EXCEPT ![w][f] = to]
      BY <1>4 DEF Decode
    <2>2. UNCHANGED <<stage, disk, pages, order, saved, sent>>
      BY <1>4 DEF Decode
    <2>3. QED
      BY <2>1, <2>2
  <1>5. CASE Resize(w, f)
    BY <1>5 DEF Resize
  <1>6. CASE Write(w, f)
    BY <1>6 DEF Write
  <1>7. QED
    BY <1>1, <1>2, <1>3, <1>4, <1>5, <1>6 DEF FetchStep

\* Lemma: a step of a worker keeps the types.
LEMMA TaskTypes ==
    ASSUME TypeOK, NEW w \in Workers, TaskStep(w)
    PROVE  TypeOK'
  <1> USE NameAssumption DEF TypeOK, StageMoves
  <1>1. CASE DownloadScreenshots(w)
    BY <1>1 DEF DownloadScreenshots
  <1>2. ASSUME NEW f \in Files, AddImage(w, f) PROVE TypeOK'
    BY <1>2 DEF AddImage
  <1>3. CASE GenerateFails(w)
    BY <1>3 DEF GenerateFails
  <1>4. CASE SavePDF(w)
    <2>1. PICK to \in {"upload", "cleanup"} : stage' = [stage EXCEPT ![w] = to]
      BY <1>4 DEF SavePDF
    <2>2. saved' \in [Names -> Workers \cup {None}]
      BY <1>4 DEF SavePDF
    <2>3. UNCHANGED <<fetch, disk, pages, order, sent>>
      BY <1>4 DEF SavePDF
    <2>4. QED
      BY <2>1, <2>2, <2>3
  <1>5. CASE Upload(w)
    BY <1>5 DEF Upload
  <1>6. CASE Cleanup(w)
    BY <1>6 DEF Cleanup, Remove, Images
  <1>7. QED
    BY <1>1, <1>2, <1>3, <1>4, <1>5, <1>6 DEF TaskStep

\* Every variable keeps its type.
THEOREM AssemblyTypeCorrect == Spec => []TypeOK
  <1>1. Init => TypeOK
    BY DEF Init, TypeOK, Ends, Images
  <1>2. TypeOK /\ [Next]_vars => TypeOK'
    <2> SUFFICES ASSUME TypeOK, [Next]_vars PROVE TypeOK'
      OBVIOUS
    <2>1. CASE UNCHANGED vars
      BY <2>1 DEF vars, TypeOK
    <2>2. CASE Next
      BY <2>2, FetchTypes, TaskTypes DEF Next
    <2>3. QED
      BY <2>1, <2>2
  <1>3. QED
    BY <1>1, <1>2, PTL DEF Spec

-----------------------------------------------------------------------------

\* The temp file of an image that no other worker has found is where the
\* task's one goroutine for it left it, until the task removes it.
OwnImage(w, f) ==
    /\ fetch[w][f] \in {"create", "skipped"} => disk[f] = "absent"
    /\ fetch[w][f] \in {"receive", "write"} => disk[f] = w
    /\ fetch[w][f] \in {"decode", "resize"} => disk[f] \in {"raw", "small"}
    /\ fetch[w][f] = "kept" /\ stage[w] # "done" => disk[f] \in {"raw", "small"}
    /\ fetch[w][f] = "kept" /\ stage[w] = "done" => disk[f] = "absent"

\* The steps come in order: no goroutine is left when the PDF is generated, and
\* none ever runs for a file that was not found.
InOrder ==
    \A w \in Workers : \A f \in Files :
        /\ stage[w] # "download" => fetch[w][f] \in Ends
        /\ f \notin Found[w] => fetch[w][f] = "skipped"

OwnImages ==
    \A w \in Workers : \A f \in Files : Own(w, f) =>
        OwnImage(w, f) /\ pages[w][f] # "blank"

AssemblyInv == TypeOK /\ InOrder /\ OwnImages

\* Lemma: the steps stay in order.
LEMMA OrderStep ==
    ASSUME TypeOK, InOrder, [Next]_vars
    PROVE  InOrder'
  <1> SUFFICES ASSUME NEW w \in Workers, NEW f \in Files
               PROVE  /\ stage'[w] # "download" => fetch'[w][f] \in Ends
                      /\ f \notin Found[w] => fetch'[w][f] = "skipped"
    BY DEF InOrder
  <1> USE DEF TypeOK, InOrder, Ends
  <1>1. ASSUME NEW v \in Workers, NEW g \in Files, FetchStep(v, g)
        PROVE  /\ stage'[w] # "download" => fetch'[w][f] \in Ends
               /\ f \notin Found[w] => fetch'[w][f] = "skipped"
    <2>1. stage' = stage /\ fetch[v][g] \notin Ends
          /\ \E to : fetch' = [fetch EXCEPT ![v][g] = to]
      BY <1>1 DEF FetchStep, FetchMoves, Refuse, Create, Receive, Decode, Resize, Write
    <2>2. CASE v = w /\ g = f
      BY <2>1, <2>2
    <2>3. CASE ~(v = w /\ g = f)
      BY <2>1, <2>3
    <2>4. QED
      BY <2>2, <2>3
  <1>2. ASSUME NEW v \in Workers, DownloadScreenshots(v)
        PROVE  /\ stage'[w] # "download" => fetch'[w][f] \in Ends
               /\ f \notin Found[w] => fetch'[w][f] = "skipped"
    BY <1>2 DEF DownloadScreenshots, StageMoves, WaitForAll
  <1>3. ASSUME NEW v \in Workers, TaskStep(v), ~DownloadScreenshots(v)
        PROVE  /\ stage'[w] # "download" => fetch'[w][f] \in Ends
               /\ f \notin Found[w] => fetch'[w][f] = "skipped"
    <2>1. fetch' = fetch /\ (stage'[w] # "download" => stage[w] # "download")
      BY <1>3 DEF TaskStep, AddImage, GenerateFails, SavePDF, Upload, Cleanup, StageMoves
    <2>2. QED
      BY <2>1
  <1>4. CASE UNCHANGED vars
    BY <1>4 DEF vars
  <1>5. QED
    BY <1>1, <1>2, <1>3, <1>4 DEF Next

\* Lemma: a goroutine's step leaves every task its own images.
LEMMA FetchOwnImages ==
    ASSUME AssemblyInv, NEW v \in Workers, NEW g \in Files, FetchStep(v, g)
    PROVE  OwnImages'
  <1> SUFFICES ASSUME NEW w \in Workers, NEW f \in Files, Own(w, f)
               PROVE  OwnImage(w, f)' /\ pages'[w][f] # "blank"
    BY DEF OwnImages, Own
  <1> USE DEF AssemblyInv, TypeOK
  <1>1. OwnImage(w, f) /\ pages[w][f] # "blank"
    BY DEF OwnImages
  <1>2. stage' = stage /\ pages' = pages
    BY DEF FetchStep, FetchMoves, Refuse, Create, Receive, Decode, Resize, Write
  <1>3. g \in Found[v]
    BY DEF InOrder, FetchStep, FetchMoves, Refuse, Create, Receive, Decode, Resize, Write
  <1>4. CASE g # f
    <2>1. disk'[f] = disk[f]
      BY <1>4 DEF FetchStep, FetchMoves, Refuse, Create, Receive, Decode, Resize, Write
    <2>2. \E to : fetch' = [fetch EXCEPT ![v][g] = to]
      BY DEF FetchStep, FetchMoves, Refuse, Create, Receive, Decode, Resize, Write
    <2>3. fetch'[w][f] = fetch[w][f]
      BY <1>4, <2>2
    <2>4. QED
      BY <1>1, <1>2, <2>1, <2>3 DEF OwnImage
  <1>5. CASE g = f
    <2>1. v = w
      BY <1>3, <1>5 DEF Own
    <2>2. stage[w] = "download"
      BY <2>1, <1>5 DEF InOrder, Ends, FetchStep, FetchMoves, Refuse, Create,
                        Receive, Decode, Resize, Write
    <2> USE <1>1, <1>2, <1>5, <2>1, <2>2 DEF OwnImage, FetchMoves
    <2>3. CASE Refuse(w, f)
      BY <2>3 DEF Refuse
    <2>4. CASE Create(w, f)
      BY <2>4 DEF Create
    <2>5. CASE Receive(w, f)
      BY <2>5 DEF Receive, AfterLastChunk
    <2>6. CASE Decode(w, f)
      BY <2>6 DEF Decode
    <2>7. CASE Resize(w, f)
      BY <2>7 DEF Resize
    <2>8. CASE Write(w, f)
      BY <2>8 DEF Write
    <2>9. QED
      BY <2>3, <2>4, <2>5, <2>6, <2>7, <2>8 DEF FetchStep
  <1>6. QED
    BY <1>4, <1>5

\* Lemma: a worker's step leaves every task its own images, whole on its pages.
LEMMA TaskOwnImages ==
    ASSUME AssemblyInv, NEW v \in Workers, TaskStep(v)
    PROVE  OwnImages'
  <1> SUFFICES ASSUME NEW w \in Workers, NEW f \in Files, Own(w, f)
               PROVE  OwnImage(w, f)' /\ pages'[w][f] # "blank"
    BY DEF OwnImages, Own
  <1> USE DEF AssemblyInv, TypeOK
  <1>1. OwnImage(w, f) /\ pages[w][f] # "blank"
    BY DEF OwnImages
  <1>2. ASSUME NEW g \in Files, AddImage(v, g)
        PROVE  OwnImage(w, f)' /\ pages'[w][f] # "blank"
    <2>1. OwnImage(w, f)'
      BY <1>1, <1>2 DEF AddImage, OwnImage
    <2>2. CASE v = w /\ g = f
      BY <1>1, <1>2, <2>2 DEF AddImage, OwnImage, Kept
    <2>3. CASE ~(v = w /\ g = f)
      <3>1. PICK page : pages' = [pages EXCEPT ![v][g] = page]
        BY <1>2 DEF AddImage
      <3>2. pages'[w][f] = pages[w][f]
        BY <2>3, <3>1
      <3>3. QED
        BY <1>1, <2>1, <3>2
    <2>4. QED
      BY <2>1, <2>2, <2>3
  <1>3. CASE Cleanup(v)
    <2>1. pages' = pages /\ fetch' = fetch
      BY <1>3 DEF Cleanup
    <2>2. CASE v = w
      <3>1. stage[w] = "cleanup" /\ stage'[w] = "done"
        BY <1>3, <2>2 DEF Cleanup, StageMoves
      <3>2. disk'[f] = IF fetch[w][f] = "kept" THEN "absent" ELSE disk[f]
        BY <1>3, <2>2 DEF Cleanup, Remove, Kept, Own
      <3>3. QED
        BY <1>1, <2>1, <3>1, <3>2 DEF OwnImage
    <2>3. CASE v # w
      <3>1. f \notin Kept(v)
        BY <2>3 DEF Kept, Own
      <3>2. stage'[w] = stage[w] /\ disk'[f] = disk[f]
        BY <1>3, <2>3, <3>1 DEF Cleanup, StageMoves, Remove
      <3>3. QED
        BY <1>1, <2>1, <3>2 DEF OwnImage
    <2>4. QED
      BY <2>2, <2>3
  <1>4. CASE DownloadScreenshots(v) \/ GenerateFails(v) \/ SavePDF(v) \/ Upload(v)
    <2>1. pages' = pages /\ fetch' = fetch /\ disk' = disk
      BY <1>4 DEF DownloadScreenshots, GenerateFails, SavePDF, Upload
    <2>2. stage'[w] = "done" <=> stage[w] = "done"
      BY <1>4 DEF DownloadScreenshots, GenerateFails, SavePDF, Upload, StageMoves
    <2>3. QED
      BY <1>1, <2>1, <2>2 DEF OwnImage
  <1>5. QED
    BY <1>2, <1>3, <1>4 DEF TaskStep

\* Lemma: the invariant holds in every state.
LEMMA AssemblyInvariant == Spec => []AssemblyInv
  <1>1. Init => InOrder /\ OwnImages
    BY DEF Init, InOrder, OwnImages, OwnImage, Own, Ends
  <1>2. AssemblyInv /\ [Next]_vars /\ TypeOK' => AssemblyInv'
    <2> SUFFICES ASSUME AssemblyInv, [Next]_vars, TypeOK' PROVE AssemblyInv'
      OBVIOUS
    <2>1. InOrder'
      BY OrderStep DEF AssemblyInv
    <2>2. CASE UNCHANGED vars
      BY <2>1, <2>2 DEF vars, AssemblyInv, OwnImages, OwnImage, Own
    <2>3. CASE Next
      BY <2>1, <2>3, FetchOwnImages, TaskOwnImages DEF Next, AssemblyInv
    <2>4. QED
      BY <2>2, <2>3
  <1>3. QED
    BY <1>1, <1>2, AssemblyTypeCorrect, PTL DEF Spec, AssemblyInv

\* Every page made from a file that no other worker has found shows the whole
\* image, however many goroutines work and whichever downloads break off.
THEOREM OwnPagesWhole == Spec => []PagesWhole
  <1>1. AssemblyInv => PagesWhole
    BY DEF AssemblyInv, OwnImages, PagesWhole
  <1>2. QED
    BY <1>1, AssemblyInvariant, PTL

\* A task that is over leaves no image behind but those of broken downloads.
THEOREM ImagesRemoved == Spec => []NoLeftovers
  <1>1. AssemblyInv => NoLeftovers
    BY DEF AssemblyInv, InOrder, OwnImages, OwnImage, NoLeftovers, Ends
  <1>2. QED
    BY <1>1, AssemblyInvariant, PTL

-----------------------------------------------------------------------------

\* A document begins when all its images are there, and grows from the newest
\* to the oldest: what is newer than one of its pages is a page of it too.
PagesInOrder ==
    \A w \in Workers :
        /\ stage[w] = "download" => order[w] = <<>>
        /\ \A i \in 1..Len(order[w]) : \A g \in Kept(w) :
               Newer(g, order[w][i]) => pages[w][g] # "none"
        /\ \A i, j \in 1..Len(order[w]) : i < j => ~Newer(order[w][j], order[w][i])

\* Lemma: the guess at the unit is right, so what is not newer for the program
\* was not uploaded in a later second.
LEMMA NotNewer ==
    ASSUME NEW f \in Files, NEW g \in Files, ~Newer(g, f), UnitOf[g] # "none"
    PROVE  UnitOf[f] # "none" /\ Second(g) <= Second(f)
  <1>1. ASSUME NEW x \in Files
        PROVE  /\ UnitOf[x] = "none" <=> UploadedAt(x) = 0
               /\ UnitOf[x] # "none" => /\ Instant(x) \in Int
                                        /\ 1000 * Second(x) <= Instant(x)
                                        /\ Instant(x) < 1000 * Second(x) + 1000
    <2>1. /\ TakenAt[x] \in Nat /\ Latest \in Nat
          /\ 0 < Second(x) /\ Second(x) <= Latest /\ Latest < TakenAt[x]
          /\ UnitOf[x] \in {"s", "ms", "none"}
      BY TimesAssumption
    <2>2. /\ Second(x) \in Int
          /\ 1000 * Second(x) <= TakenAt[x]
          /\ TakenAt[x] < 1000 * Second(x) + 1000
      BY <2>1 DEF Second, Millis
    <2>3. CASE UnitOf[x] = "s"
      BY <2>1, <2>2, <2>3 DEF UploadedAt, Instant, Millis
    <2>4. CASE UnitOf[x] = "ms"
      BY <2>1, <2>2, <2>4 DEF UploadedAt, Instant, Millis
    <2>5. CASE UnitOf[x] = "none"
      BY <2>5 DEF UploadedAt
    <2>6. QED
      BY <2>1, <2>3, <2>4, <2>5
  <1>2. Second(f) \in Int /\ Second(g) \in Int
    BY TimesAssumption DEF Second, Millis
  <1>3. UploadedAt(g) # 0 /\ UploadedAt(f) # 0 /\ ~(Instant(g) > Instant(f))
    BY <1>1 DEF Newer
  <1>4. QED
    BY <1>1, <1>2, <1>3

\* Lemma: a page more keeps the document in order.
LEMMA AddedInOrder ==
    ASSUME TypeOK, PagesInOrder, NEW v \in Workers, NEW f \in Files, AddImage(v, f)
    PROVE  PagesInOrder'
  <1> USE DEF TypeOK
  <1>1. stage' = stage /\ fetch' = fetch
    BY DEF AddImage
  <1> SUFFICES ASSUME NEW w \in Workers
               PROVE  /\ stage[w] = "download" => order'[w] = <<>>
                      /\ \A i \in 1..Len(order'[w]) : \A g \in Kept(w) :
                             Newer(g, order'[w][i]) => pages'[w][g] # "none"
                      /\ \A i, j \in 1..Len(order'[w]) :
                             i < j => ~Newer(order'[w][j], order'[w][i])
    BY <1>1 DEF PagesInOrder, Kept, Newer, UploadedAt, Instant, Second
  <1>2. order[w] \in Seq(Files)
    OBVIOUS
  <1>3. CASE v # w
    <2>1. order'[w] = order[w] /\ pages'[w] = pages[w]
      BY <1>3 DEF AddImage
    <2>2. QED
      BY <2>1 DEF PagesInOrder
  <1>4. CASE v = w
    <2>1. /\ stage[w] = "generate" /\ f \in Kept(w) /\ pages[w][f] = "none"
          /\ \A g \in Kept(w) : Newer(g, f) => pages[w][g] # "none"
          /\ order'[w] = Append(order[w], f)
      BY <1>4 DEF AddImage
    <2>2. \A g \in Kept(w) : pages[w][g] # "none" => pages'[w][g] # "none"
      BY <1>4 DEF AddImage, Kept
    <2>3. /\ Len(order'[w]) = Len(order[w]) + 1
          /\ \A i \in 1..Len(order[w]) : order'[w][i] = order[w][i]
          /\ order'[w][Len(order[w]) + 1] = f
          /\ Len(order[w]) \in Nat
      BY <1>2, <2>1
    <2>4. \A i \in 1..Len(order[w]) : \A g \in Kept(w) :
              Newer(g, order[w][i]) => pages[w][g] # "none"
      BY DEF PagesInOrder
    <2>5. \A i \in 1..Len(order[w]) : ~Newer(f, order[w][i])
      BY <2>1, <2>4
    <2>6. ASSUME NEW i \in 1..Len(order'[w]), NEW g \in Kept(w), Newer(g, order'[w][i])
          PROVE  pages'[w][g] # "none"
      <3>1. CASE i \in 1..Len(order[w])
        BY <2>2, <2>3, <2>4, <2>6, <3>1
      <3>2. CASE i = Len(order[w]) + 1
        BY <2>1, <2>2, <2>3, <2>6, <3>2
      <3>3. QED
        BY <2>3, <3>1, <3>2
    <2>7. ASSUME NEW i \in 1..Len(order'[w]), NEW j \in 1..Len(order'[w]), i < j
          PROVE  ~Newer(order'[w][j], order'[w][i])
      <3>1. i \in 1..Len(order[w])
        BY <2>3, <2>7
      <3>2. CASE j \in 1..Len(order[w])
        BY <2>3, <2>7, <3>1, <3>2 DEF PagesInOrder
      <3>3. CASE j = Len(order[w]) + 1
        BY <2>3, <2>5, <3>1, <3>3
      <3>4. QED
        BY <2>3, <3>2, <3>3
    <2>8. QED
      BY <2>1, <2>6, <2>7
  <1>5. QED
    BY <1>3, <1>4

\* Lemma: every other step leaves documents as they are.
LEMMA OthersInOrder ==
    ASSUME TypeOK, InOrder, PagesInOrder, NEW w \in Workers,
           order'[w] = order[w], pages'[w] = pages[w],
           stage'[w] = "download" => stage[w] = "download",
           stage[w] = "download" \/ fetch'[w] = fetch[w]
    PROVE  /\ stage'[w] = "download" => order'[w] = <<>>
           /\ \A i \in 1..Len(order'[w]) : \A g \in Kept(w)' :
                  Newer(g, order'[w][i]) => pages'[w][g] # "none"
           /\ \A i, j \in 1..Len(order'[w]) :
                  i < j => ~Newer(order'[w][j], order'[w][i])
  <1>1. CASE stage[w] = "download"
    BY <1>1 DEF PagesInOrder
  <1>2. CASE stage[w] # "download"
    BY <1>2 DEF PagesInOrder, Kept
  <1>3. QED
    BY <1>1, <1>2

\* Lemma: documents stay in order.
LEMMA PagesOrderStep ==
    ASSUME TypeOK, InOrder, PagesInOrder, [Next]_vars
    PROVE  PagesInOrder'
  <1> USE DEF TypeOK
  <1>1. ASSUME NEW v \in Workers, NEW f \in Files, AddImage(v, f)
        PROVE  PagesInOrder'
    BY <1>1, AddedInOrder
  <1>2. ASSUME NEW v \in Workers, NEW f \in Files, FetchStep(v, f)
        PROVE  PagesInOrder'
    <2>1. /\ stage' = stage /\ order' = order /\ pages' = pages
          /\ fetch[v][f] \notin Ends
          /\ \E to : fetch' = [fetch EXCEPT ![v][f] = to]
      BY <1>2 DEF FetchStep, FetchMoves, Refuse, Create, Receive, Decode, Resize,
                  Write, Ends
    <2>2. \A w \in Workers : stage[w] = "download" \/ fetch'[w] = fetch[w]
      BY <2>1 DEF InOrder
    <2>3. QED
      BY <2>1, <2>2, OthersInOrder DEF PagesInOrder
  <1>3. ASSUME NEW v \in Workers, TaskStep(v), ~\E f \in Files : AddImage(v, f)
        PROVE  PagesInOrder'
    <2>1. /\ order' = order /\ pages' = pages /\ fetch' = fetch
          /\ \A w \in Workers : stage'[w] = "download" => stage[w] = "download"
      BY <1>3 DEF TaskStep, DownloadScreenshots, GenerateFails, SavePDF, Upload,
                  Cleanup, StageMoves
    <2>2. QED
      BY <2>1, OthersInOrder DEF PagesInOrder, Newer, UploadedAt, Instant, Second
  <1>4. CASE UNCHANGED vars
    BY <1>4 DEF vars, PagesInOrder, Kept, Newer, UploadedAt, Instant, Second
  <1>5. QED
    BY <1>1, <1>2, <1>3, <1>4 DEF Next

\* Every document has its pages from the newest to the oldest, for all uploads
\* whose times the guess at their unit is made for.
THEOREM DocumentsNewestFirst == Spec => []PagesNewestFirst
  <1>1. Init => PagesInOrder
    <2>1. Init => \A w \in Workers : order[w] = <<>>
      BY DEF Init
    <2>2. Len(<<>>) = 0 /\ 1..0 = {}
      OBVIOUS
    <2>3. QED
      BY <2>1, <2>2 DEF PagesInOrder
  <1>2. AssemblyInv /\ PagesInOrder /\ [Next]_vars => PagesInOrder'
    BY PagesOrderStep DEF AssemblyInv
  <1>3. AssemblyInv /\ PagesInOrder => PagesNewestFirst
    <2> SUFFICES ASSUME AssemblyInv, PagesInOrder, NEW w \in Workers,
                        NEW i \in 1..Len(order[w]), NEW j \in 1..Len(order[w]), i < j,
                        UnitOf[order[w][j]] # "none"
                 PROVE  /\ UnitOf[order[w][i]] # "none"
                        /\ Second(order[w][j]) <= Second(order[w][i])
      BY DEF PagesNewestFirst
    <2>1. order[w][i] \in Files /\ order[w][j] \in Files
      BY DEF AssemblyInv, TypeOK
    <2>2. ~Newer(order[w][j], order[w][i])
      BY DEF PagesInOrder
    <2>3. QED
      BY <2>1, <2>2, NotNewer
  <1>4. QED
    BY <1>1, <1>2, <1>3, AssemblyInvariant, PTL DEF Spec

=============================================================================
