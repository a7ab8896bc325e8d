---------------------------- MODULE BookIndexing ----------------------------
(***************************************************************************)
(* How the text of a book gets into full-text search: the scan walk that    *)
(* notices a replaced file, the text-layer indexing with its crash-loop     *)
(* guard, the deferred page-by-page OCR queue with its checkpoint, the two  *)
(* per-book requests (re-OCR and re-read), cancelling, and a process that   *)
(* may die at any point and starts again with a rescan.                     *)
(*                                                                          *)
(* One run is in progress at a time: how far the "running" status really    *)
(* keeps two runs apart is the subject of module ScanStatus.                *)
(***************************************************************************)
EXTENDS Integers, FiniteSets

CONSTANTS
  Books,        \* the registered, indexable PDF books
  LastVersion,  \* a file at a book's path has contents 1, 2, ..., LastVersion
  MaxPages,     \* no file has more pages
  Content,      \* Content[b][v]: what version v of b's file holds
  OcrWorkers,   \* OCR_CONCURRENCY while OCR is switched on
  Limit         \* how often each rare event happens

Versions == 1..LastVersion
PageNos == 1..MaxPages

(* layer "text": the PDF has a text layer; "image": it is a scan.           *)
(* blank: the pages on which neither the text layer nor OCR finds text.     *)
Contents == [layer : {"text", "image"}, pages : PageNos, blank : SUBSET PageNos]

(* crash: the server process dies; cancel: a user stops a run; hang: a      *)
(* guarded commit times out; replace: a file is overwritten in place;       *)
(* reread: a user asks for one book to be OCR'd again or read again.        *)
RareEvents == {"crash", "cancel", "hang", "replace", "reread"}

ASSUME IndexingAssumption ==
  /\ LastVersion \in Nat \ {0}
  /\ MaxPages \in Nat \ {0}
  /\ Content \in [Books -> [Versions -> Contents]]
  /\ OcrWorkers \in Nat \ {0}
  /\ Limit \in [RareEvents -> Nat]

VARIABLES
  file,     \* the version of each book's file on disk
  row,      \* the committed columns of each book that indexing reads or writes
  fts,      \* fts[b][<<p, v>>]: search rows of b for page p, read from version v
  run,      \* the phase of the run in progress, "idle", or "down" between two processes
  todo,     \* the books the current phase's loop has still to visit
  work,     \* what the run is doing with each book
  stop,     \* the stop flag
  triggers, \* books whose re-OCR request has a background task still to start
  ocrOn,    \* whether this process can OCR at all
  killed,   \* history: the process died extracting b, and nobody reset b since
  used      \* how many of the rare events have happened

vars == <<file, row, fts, run, todo, work, stop, triggers, ocrOn, killed, used>>
rest == <<file, stop, triggers, ocrOn, killed, used>>

Phases == {"down", "idle", "scan", "index", "single", "ocr"}
Running == Phases \ {"down", "idle"}
Errors == {"", "ocr", "image-only", "failure"}

Rows == [indexed : BOOLEAN, failed : BOOLEAN, error : Errors,
         pending : BOOLEAN, done : Nat, skipped : Nat,
         stat : Versions, hash : Versions]

(* hash: reading the file for its digest, in the walk; reset: the same in a *)
(* single-book re-read; index: about to index; extract: text extraction in  *)
(* progress; page: the OCR loop is at page "at" of "total".                 *)
Steps == {"none", "hash", "reset", "index", "extract", "page"}
Work == [step : Steps, seen : Versions, pending : BOOLEAN,
         at : Nat, total : Nat, skipped : Nat]

Resting == [step |-> "none", seen |-> 1, pending |-> FALSE,
            at |-> 0, total |-> 0, skipped |-> 0]

(* The columns _register_book leaves on a row it inserts, with the          *)
(* signature of the file it was inserted for.                               *)
Registered == [indexed |-> FALSE, failed |-> FALSE, error |-> "",
               pending |-> FALSE, done |-> 0, skipped |-> 0,
               stat |-> 1, hash |-> 1]

NoText == [x \in PageNos \X Versions |-> 0]

TypeOK ==
  /\ file \in [Books -> Versions]
  /\ row \in [Books -> Rows]
  /\ fts \in [Books -> [PageNos \X Versions -> Nat]]
  /\ run \in Phases
  /\ todo \in SUBSET Books
  /\ work \in [Books -> Work]
  /\ stop \in BOOLEAN
  /\ triggers \in SUBSET Books
  /\ ocrOn \in BOOLEAN
  /\ killed \in SUBSET Books
  /\ used \in [RareEvents -> Nat]

-----------------------------------------------------------------------------
(* Shared state formulas and row updates                                    *)

Busy == {b \in Books : work[b].step # "none"}
Unsettled(b) == ~row[b].indexed /\ ~row[b].failed
Queue == {b \in Books : row[b].pending}
Scanned(b) == Content[b][file[b]]

Happens(e) == used[e] < Limit[e] /\ used' = [used EXCEPT ![e] = @ + 1]

(* Deviations from the code, for the properties to notice: a reset that     *)
(* leaves the book marked as indexed, one that puts the checkpoint before   *)
(* the first page.                                                          *)
ClearedButIndexed(r) == [r EXCEPT !.failed = FALSE, !.error = "", !.done = 0, !.skipped = 0]
ClearedTooFar(r) == [r EXCEPT !.indexed = FALSE, !.failed = FALSE, !.error = "",
                              !.done = -1, !.skipped = 0]

(* The reset both re-reads of a book start from; a checkpoint of 0.         *)
Cleared(r) == [r EXCEPT !.indexed = FALSE, !.failed = FALSE, !.error = "",
                        !.done = 0, !.skipped = 0]
Requeued(r) == [Cleared(r) EXCEPT !.pending = TRUE]
Failed(r) == [r EXCEPT !.failed = TRUE, !.error = "failure"]

(* Deviation: the end of OCR forgets to mark the book as indexed.           *)
ReadByOcrUnmarked(r, skipped) ==
  [r EXCEPT !.pending = FALSE, !.failed = FALSE, !.error = "ocr", !.skipped = skipped]

ReadByOcr(r, skipped) ==
  [r EXCEPT !.pending = FALSE, !.indexed = TRUE, !.failed = FALSE,
            !.error = "ocr", !.skipped = skipped]

(* Deviation: an abandoned page is passed over without being counted.       *)
SkipsUncounted(n, outcome) == n

Skips(n, outcome) == IF outcome = "abandoned" THEN n + 1 ELSE n

WithPage(t, p, v) == [t EXCEPT ![<<p, v>>] = @ + 1]
WithPages(t, P, v) ==
  [x \in DOMAIN t |-> IF x[1] \in P /\ x[2] = v THEN t[x] + 1 ELSE t[x]]

(* Commit r and t for book b, or lose both: a commit that outlives its      *)
(* timeout is rolled back, and the caller goes on as if nothing happened.   *)
CommitOrHang(b, r, t) ==
  \/ row' = [row EXCEPT ![b] = r] /\ fts' = [fts EXCEPT ![b] = t] /\ UNCHANGED used
  \/ Happens("hang") /\ UNCHANGED <<row, fts>>

Goto(b, step) == work' = [work EXCEPT ![b].step = step]
Leave(b) == work' = [work EXCEPT ![b] = Resting]

-----------------------------------------------------------------------------
(* Starting a run                                                           *)

(* The process starts: leftover stop state is cleared, image-only books are *)
(* queued when OCR is now available, and a rescan begins.                   *)
Startup ==
  /\ run = "down"
  /\ \E on \in BOOLEAN :
       /\ ocrOn' = on
       /\ row' = [b \in Books |-> IF on /\ row[b].error = "image-only"
                                  THEN Requeued(row[b]) ELSE row[b]]
       /\ killed' = IF on THEN {b \in killed : row[b].error # "image-only"} ELSE killed
  /\ run' = "scan" /\ todo' = Books /\ stop' = FALSE
  /\ UNCHANGED <<file, fts, work, triggers, used>>

(* A scheduled or requested rescan; it is refused while a run is going.     *)
Rescan ==
  /\ run = "idle"
  /\ run' = "scan" /\ todo' = Books /\ stop' = FALSE
  /\ UNCHANGED <<file, row, fts, work, triggers, ocrOn, killed, used>>

(* POST /books/{id}/rescan, when its background task finds nothing running. *)
RescanSingle(b) ==
  /\ run = "idle"
  /\ Happens("reread")
  /\ run' = "single" /\ todo' = {} /\ stop' = FALSE
  /\ work' = [work EXCEPT ![b] = [Resting EXCEPT !.step = "reset", !.seen = file[b]]]
  /\ UNCHANGED <<file, row, fts, triggers, ocrOn, killed>>

-----------------------------------------------------------------------------
(* Phase 1: the walk compares each file with its recorded signature         *)

ScanUnchanged(b) ==
  /\ run = "scan" /\ Busy = {} /\ b \in todo /\ ~stop
  /\ row[b].stat = file[b]
  /\ todo' = todo \ {b}
  /\ UNCHANGED <<row, fts, run, work, rest>>

ScanHash(b) ==
  /\ run = "scan" /\ Busy = {} /\ b \in todo /\ ~stop
  /\ row[b].stat # file[b]
  /\ todo' = todo \ {b}
  /\ work' = [work EXCEPT ![b] = [Resting EXCEPT !.step = "hash", !.seen = file[b],
                                                 !.pending = row[b].pending]]
  /\ UNCHANGED <<row, fts, run, rest>>

(* Deviation: a replaced file's flags are reset but its search rows stay.   *)
RowsKept(b, replaced) == fts[b]

(* invalidate_book_content drops the search rows of a replaced file.        *)
RowsAfter(b, replaced) == IF replaced THEN NoText ELSE fts[b]

(* The digest arrives, or hash_file returns None because a stop was         *)
(* requested: then the stat signature is stored next to the old digest.     *)
(* A changed digest drops the search rows and resets the flags; ocr_pending *)
(* is written only if it was set when the row was loaded.                   *)
ScanHashed(b) ==
  /\ work[b].step = "hash"
  /\ \E digest \in {file[b]} \union (IF stop THEN {row[b].hash} ELSE {}) :
       LET signed == [row[b] EXCEPT !.stat = work[b].seen, !.hash = digest]
           replaced == digest # row[b].hash
       IN  /\ CommitOrHang(b,
                IF replaced
                THEN [Cleared(signed) EXCEPT !.pending = @ /\ ~work[b].pending]
                ELSE signed,
                RowsAfter(b, replaced))
           /\ killed' = IF replaced /\ row' # row THEN killed \ {b} ELSE killed
  /\ Leave(b)
  /\ UNCHANGED <<file, run, todo, stop, triggers, ocrOn>>

EndScan ==
  /\ run = "scan" /\ Busy = {} /\ (todo = {} \/ stop)
  /\ IF stop
     THEN run' = "idle" /\ todo' = {}
     ELSE run' = "index" /\ todo' = {b \in Books : Unsettled(b)}
  /\ UNCHANGED <<row, fts, work, rest>>

-----------------------------------------------------------------------------
(* Phase 2: index_book_text                                                 *)

IndexPick(b) ==
  /\ run = "index" /\ Busy = {} /\ b \in todo /\ ~stop
  /\ todo' = todo \ {b}
  /\ Goto(b, "index")
  /\ UNCHANGED <<row, fts, run, rest>>

(* Deviation: extraction starts without the guard having been committed.    *)
IndexUnguarded(b) ==
  /\ work[b].step = "index"
  /\ IF Unsettled(b) THEN Goto(b, "extract") ELSE Leave(b)
  /\ UNCHANGED <<row, fts, run, todo, rest>>

(* An early return for a settled book; else index_failed is committed       *)
(* before the risky call, so that a crash leaves it behind.                 *)
IndexGuard(b) ==
  /\ work[b].step = "index"
  /\ IF Unsettled(b)
     THEN /\ CommitOrHang(b, [row[b] EXCEPT !.failed = TRUE], fts[b])
          /\ Goto(b, "extract")
     ELSE UNCHANGED <<row, fts, used>> /\ Leave(b)
  /\ UNCHANGED <<file, run, todo, stop, triggers, ocrOn, killed>>

(* What each way extraction can end writes.                                 *)
Extracted(b, r, t) ==
  /\ work[b].step = "extract"
  /\ CommitOrHang(b, r, t)
  /\ Leave(b)
  /\ UNCHANGED <<file, run, todo, stop, triggers, ocrOn, killed>>

ExtractCancelled(b) == stop /\ Extracted(b, [row[b] EXCEPT !.failed = FALSE], fts[b])

(* The extraction child crashed or timed out, or indexing raised.           *)
ExtractFailed(b) == Extracted(b, Failed(row[b]), fts[b])

ExtractEmpty(b) ==
  /\ Scanned(b).layer = "image"
  /\ Extracted(b,
       IF ocrOn THEN Requeued(row[b])
       ELSE [row[b] EXCEPT !.indexed = TRUE, !.failed = FALSE, !.error = "image-only"],
       fts[b])

ExtractText(b) ==
  /\ Scanned(b).layer = "text"
  /\ Extracted(b,
       [row[b] EXCEPT !.indexed = TRUE, !.failed = FALSE, !.error = ""],
       WithPages(fts[b], (1..Scanned(b).pages) \ Scanned(b).blank, file[b]))

(* reindex_single_book: new signature, search rows and flags dropped in one *)
(* commit, then index_book_text on the same book.                           *)
SingleReset(b) ==
  /\ work[b].step = "reset"
  /\ \E digest \in {file[b]} \union (IF stop THEN {row[b].hash} ELSE {}) :
       CommitOrHang(b,
         [Cleared(row[b]) EXCEPT !.pending = FALSE, !.stat = work[b].seen, !.hash = digest],
         NoText)
  /\ killed' = IF row' # row THEN killed \ {b} ELSE killed
  /\ Goto(b, "index")
  /\ UNCHANGED <<file, run, todo, stop, triggers, ocrOn>>

-----------------------------------------------------------------------------
(* Phase 4: the deferred OCR queue                                          *)

(* run_ocr_queue reads the queue once; an empty queue or a stop ends the    *)
(* run.                                                                     *)
EnterOcr ==
  /\ run \in {"index", "single"} /\ Busy = {} /\ (todo = {} \/ stop)
  /\ IF ~stop /\ ocrOn /\ Queue # {}
     THEN run' = "ocr" /\ todo' = Queue
     ELSE run' = "idle" /\ todo' = {}
  /\ UNCHANGED <<row, fts, work, rest>>

(* The background task of a re-OCR request: it gives up if a run is going,  *)
(* and does not clear a stop flag an earlier run left behind.               *)
TriggerOcr(b) ==
  /\ run # "down" /\ b \in triggers
  /\ triggers' = triggers \ {b}
  /\ IF run = "idle" /\ ocrOn /\ Queue # {}
     THEN run' = "ocr" /\ todo' = Queue
     ELSE UNCHANGED <<run, todo>>
  /\ UNCHANGED <<file, row, fts, work, stop, ocrOn, killed, used>>

(* One worker checks the stop flag before each book; the pool of several    *)
(* leaves that to ocr_book.                                                 *)
StopEndsQueue == stop /\ OcrWorkers = 1

OcrPick(b) ==
  /\ run = "ocr" /\ b \in todo /\ ~StopEndsQueue
  /\ Cardinality(Busy) < OcrWorkers
  /\ todo' = todo \ {b}
  /\ \/ ~row[b].pending /\ UNCHANGED <<row, fts, used, work>>
     \/ /\ row[b].pending
        /\ work' = [work EXCEPT ![b] =
                      [Resting EXCEPT !.step = "page", !.at = row[b].done + 1,
                                      !.total = Scanned(b).pages,
                                      !.skipped = row[b].skipped]]
        /\ UNCHANGED <<row, fts, used>>
     \/ /\ row[b].pending    \* the file cannot be opened to count its pages
        /\ CommitOrHang(b, [Failed(row[b]) EXCEPT !.pending = FALSE], fts[b])
        /\ UNCHANGED work
  /\ UNCHANGED <<file, run, stop, triggers, ocrOn, killed>>

(* One page: its text, a blank, or abandoned and counted as skipped; the    *)
(* checkpoint is committed with the page. A page with a text layer counts   *)
(* as blank: ocr_page takes it to be in search already. A lost commit       *)
(* leaves the loop going with its own idea of where it is.                  *)
PageOutcomes(b, p) ==
  {"abandoned"} \union
  (IF p > Scanned(b).pages THEN {}
   ELSE IF Scanned(b).layer = "text" \/ p \in Scanned(b).blank THEN {"blank"}
   ELSE {"text"})

OcrPage(b) ==
  LET p == work[b].at IN
  /\ work[b].step = "page" /\ p <= work[b].total /\ ~stop
  /\ \E outcome \in PageOutcomes(b, p) :
       LET skipped == Skips(work[b].skipped, outcome)
       IN  /\ CommitOrHang(b,
                [row[b] EXCEPT !.done = p,
                               !.skipped = IF outcome = "abandoned" THEN skipped ELSE @],
                IF outcome = "text" THEN WithPage(fts[b], p, file[b]) ELSE fts[b])
           /\ work' = [work EXCEPT ![b].at = p + 1, ![b].skipped = skipped]
  /\ UNCHANGED <<file, run, todo, stop, triggers, ocrOn, killed>>

OcrStopped(b) ==
  /\ work[b].step = "page" /\ work[b].at <= work[b].total /\ stop
  /\ Leave(b)
  /\ UNCHANGED <<row, fts, run, todo, rest>>

OcrFinish(b) ==
  /\ work[b].step = "page" /\ work[b].at > work[b].total
  /\ CommitOrHang(b, ReadByOcr(row[b], work[b].skipped), fts[b])
  /\ Leave(b)
  /\ UNCHANGED <<file, run, todo, stop, triggers, ocrOn, killed>>

(* The backstop of _ocr_one_book for an error ocr_book did not expect.      *)
OcrError(b) ==
  /\ work[b].step = "page"
  /\ row' = [row EXCEPT ![b] = [Failed(@) EXCEPT !.pending = FALSE]]
  /\ Leave(b)
  /\ UNCHANGED <<fts, run, todo, rest>>

EndOcr ==
  /\ run = "ocr" /\ Busy = {} /\ (todo = {} \/ StopEndsQueue)
  /\ run' = "idle" /\ todo' = {}
  /\ UNCHANGED <<row, fts, work, rest>>

-----------------------------------------------------------------------------
(* Everyone else                                                            *)

(* POST /books/{id}/reindex: only for a book whose text came from OCR, or   *)
(* that has none; it also queues a background task. The search rows of a    *)
(* book being reset are locked by that transaction.                         *)
RequestReocr(b) ==
  /\ run # "down" /\ work[b].step # "reset"
  /\ row[b].error \in {"ocr", "image-only"}
  /\ Happens("reread")
  /\ row' = [row EXCEPT ![b] = Requeued(@)]
  /\ fts' = [fts EXCEPT ![b] = NoText]
  /\ triggers' = triggers \union {b}
  /\ killed' = killed \ {b}
  /\ UNCHANGED <<file, run, todo, work, stop, ocrOn>>

(* POST /cancel-scan, accepted only while the status says running.          *)
Cancel ==
  /\ run \in Running /\ ~stop
  /\ Happens("cancel")
  /\ stop' = TRUE
  /\ UNCHANGED <<file, row, fts, run, todo, work, triggers, ocrOn, killed>>

(* Somebody overwrites a file in the library with new bytes.                *)
ReplaceFile(b) ==
  /\ file[b] < LastVersion
  /\ Happens("replace")
  /\ file' = [file EXCEPT ![b] = @ + 1]
  /\ UNCHANGED <<row, fts, run, todo, work, stop, triggers, ocrOn, killed>>

(* The process dies, whatever it was doing.                                 *)
Crash ==
  /\ run # "down"
  /\ Happens("crash")
  /\ run' = "down" /\ todo' = {} /\ stop' = FALSE /\ triggers' = {}
  /\ work' = [b \in Books |-> Resting]
  /\ killed' = killed \union {b \in Books : work[b].step = "extract"}
  /\ UNCHANGED <<file, row, fts, ocrOn>>

-----------------------------------------------------------------------------

Init ==
  /\ file = [b \in Books |-> 1]
  /\ row = [b \in Books |-> Registered]
  /\ fts = [b \in Books |-> NoText]
  /\ run = "down" /\ todo = {} /\ stop = FALSE /\ triggers = {}
  /\ work = [b \in Books |-> Resting]
  /\ ocrOn = FALSE /\ killed = {}
  /\ used = [e \in RareEvents |-> 0]

(* Everything a run does by itself, once started.                           *)
RunStep ==
  \/ EndScan \/ EnterOcr \/ EndOcr
  \/ \E b \in Books :
       \/ ScanUnchanged(b) \/ ScanHash(b) \/ ScanHashed(b)
       \/ IndexPick(b) \/ IndexGuard(b) \/ SingleReset(b)
       \/ ExtractCancelled(b) \/ ExtractFailed(b) \/ ExtractEmpty(b) \/ ExtractText(b)
       \/ OcrPick(b) \/ OcrPage(b) \/ OcrStopped(b) \/ OcrFinish(b) \/ OcrError(b)

Others ==
  \/ Cancel \/ Crash
  \/ \E b \in Books : RescanSingle(b) \/ TriggerOcr(b) \/ RequestReocr(b) \/ ReplaceFile(b)

Next == Startup \/ Rescan \/ RunStep \/ Others

Spec == Init /\ [][Next]_vars

(* The supervisor restarts the process, the schedule rescans again, and a   *)
(* run that can take a step takes one.                                      *)
Fairness == WF_vars(Startup) /\ WF_vars(Rescan) /\ WF_vars(RunStep)
FairSpec == Spec /\ Fairness

-----------------------------------------------------------------------------
(* Properties                                                               *)

(* Pages of the recorded contents that hold text no search row carries.     *)
Missing(b) ==
  {p \in 1..Scanned(b).pages :
     p \notin Scanned(b).blank /\ fts[b][<<p, file[b]>>] = 0}

(* While the recorded digest is that of the file on disk, search holds no   *)
(* row read from other bytes: whoever records a new digest (the walk, a     *)
(* single-book re-read) has dropped the rows in the same commit, and no     *)
(* extraction or OCR page of the old bytes lands after it.                  *)
SearchFresh ==
  \A b \in Books : row[b].hash = file[b] =>
    \A p \in PageNos, v \in Versions : fts[b][<<p, v>>] > 0 => v = file[b]

(* An indexed book is searchable: with a text layer every page with text is *)
(* in search; after OCR the pages that are not are at most the ones the     *)
(* user is told were skipped. So is the part of a queued book below its     *)
(* checkpoint. The OCR half is claimed of scans only: a file with a text    *)
(* layer that ends up in the OCR queue is "read" without a single row.      *)
SkipsAccounted ==
  \A b \in Books : row[b].hash = file[b] =>
    /\ row[b].indexed /\ row[b].error = "" => Missing(b) = {}
    /\ Scanned(b).layer = "image" =>
         /\ row[b].indexed /\ row[b].error = "ocr" =>
              Cardinality(Missing(b)) <= row[b].skipped
         /\ row[b].pending =>
              Cardinality({p \in Missing(b) : p <= row[b].done}) <= row[b].skipped

(* A book whose extraction took the process down is not extracted again     *)
(* until someone resets it: not by the scan of the next start, nor by any   *)
(* later one.  Holds when no commit hangs: the guard is itself a commit.    *)
NoCrashLoop ==
  \A b \in Books : work[b].step = "extract" => b \notin killed

(* Search rows never vanish from a book without that step leaving the book  *)
(* to be read again: unsettled, so that the next rescan picks it up.        *)
RowsDroppedOnlyToReread ==
  [][\A b \in Books :
       (\E x \in PageNos \X Versions : fts'[b][x] < fts[b][x]) =>
         ~row'[b].indexed /\ ~row'[b].failed]_vars

(* Nothing stays in limbo: a book that waits to be read is read, or marked  *)
(* as failed or as image-only, and no run is still busy with it (the guard  *)
(* of an extraction in progress marks the book as failed, which does not    *)
(* count), whatever cancels and crashes come in between.                    *)
InLimbo(b) == Unsettled(b) \/ work[b].step # "none"
EventuallySettled == \A b \in Books : InLimbo(b) ~> ~InLimbo(b)

(* No page of a book is put into search twice.  docs/architecture.md says   *)
(* a restart, crash or cancel resumes a book at its checkpoint; the index   *)
(* phase of the next rescan sends it back to page 1 over its own rows.      *)
NoPageTwice ==
  \A b \in Books, p \in PageNos, v \in Versions : fts[b][<<p, v>>] <= 1

(* Between two runs, a file whose stat signature is recorded is one whose   *)
(* bytes are: a replaced file is noticed by the first walk that sees it.    *)
(* A stop while it is being hashed records the one without the other.       *)
ReplacementNoticed ==
  run = "idle" => \A b \in Books : row[b].stat = file[b] => row[b].hash = file[b]
=============================================================================
