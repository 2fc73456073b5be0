------------------------ MODULE ExtractionProperties ------------------------
(***************************************************************************)
(* What extraction promises the person who waits for a quotation.          *)
(***************************************************************************)
EXTENDS Extraction

\* A replacement was sent again, and took up the job that failed.
Repeated == \E b, c \in Calls : b # c /\ call[b].job = call[c].job /\ call[c].job # None

\* The races of pushes, undone pushes, workers and reviewers leave no quotation extracting for
\* ever: only a process that left a job half-way does, killed or by an error outside of its
\* handlers, or a failed replacement that was sent again.
EveryExtractionEnds ==
    (quote.status = "extracting") ~> (quote.status # "extracting" \/ left # {} \/ Repeated)

\* A job stays queued for ever, where it refuses every later extraction of the quotation, only if
\* a call or a worker left that very job half-way.
NoJobBlocks ==
    \A j \in Jobs : (job[j].status = "queued") ~> (job[j].status # "queued" \/ j \in left)
=============================================================================
