--------------------------- MODULE MCPdfAssembly ---------------------------
(* Small instances of PdfAssembly for TLC. *)
EXTENDS PdfAssembly, TLC

CONSTANTS w1, w2, f1, f2, f3, f4, p1

\* One file of both tasks, and another of each, one of them no image.  The
\* first task has a third file, which has no time.
FoundOverlapping == (w1 :> {f1, f2, f4}) @@ (w2 :> {f1, f3})

FoundApart == (w1 :> {f1}) @@ (w2 :> {f2})

\* In seconds f1 is the later by far, although f2 has the greater number; f4
\* was uploaded last.
Times == (f1 :> 1700000) @@ (f2 :> 1650001) @@ (f3 :> 1600000) @@ (f4 :> 1800000)
Units == (f1 :> "s") @@ (f2 :> "ms") @@ (f3 :> "s") @@ (f4 :> "none")

\* Both tasks come to save their PDFs in the same second.
OneName == [w \in Workers |-> p1]

=============================================================================
