------------------------- MODULE BookIndexingProofs -------------------------
(***************************************************************************)
(* Proofs about BookIndexing for any number of books, pages, versions, OCR  *)
(* workers and rare events.                                                 *)
(***************************************************************************)
EXTENDS BookIndexing, FiniteSetTheorems, TLAPS

-----------------------------------------------------------------------------
(* Type correctness                                                         *)

(* A guarded commit of well-typed values leaves the tables well typed.      *)
LEMMA CommitType ==
  ASSUME TypeOK, NEW b \in Books, NEW r \in Rows,
         NEW t \in [PageNos \X Versions -> Nat],
         CommitOrHang(b, r, t)
  PROVE  /\ row' \in [Books -> Rows]
         /\ fts' \in [Books -> [PageNos \X Versions -> Nat]]
         /\ used' \in [RareEvents -> Nat]
  BY DEF TypeOK, CommitOrHang, Happens, RareEvents

LEMMA HappensType ==
  ASSUME TypeOK, NEW e \in RareEvents, Happens(e)
  PROVE  used' \in [RareEvents -> Nat]
  BY DEF TypeOK, Happens, RareEvents

LEMMA ConstantTypes ==
  /\ NoText \in [PageNos \X Versions -> Nat]
  /\ Resting \in Work
  /\ Registered \in Rows
  /\ 1 \in Versions
  BY IndexingAssumption
     DEF NoText, Resting, Work, Steps, Registered, Rows, Errors, Versions

(* The row updates keep a row a row.                                        *)
LEMMA RowUpdates ==
  ASSUME NEW r \in Rows
  PROVE  /\ Cleared(r) \in Rows
         /\ Requeued(r) \in Rows
         /\ Failed(r) \in Rows
         /\ \A n \in Nat : ReadByOcr(r, n) \in Rows
  BY DEF Cleared, Requeued, Failed, ReadByOcr, Rows, Errors

(* One more search row.                                                     *)
LEMMA OneMore ==
  ASSUME NEW S, NEW t \in [S -> Nat], NEW x
  PROVE  [t EXCEPT ![x] = @ + 1] \in [S -> Nat]
<1> DEFINE u == [t EXCEPT ![x] = @ + 1]
<1>1. u = [y \in S |-> IF y = x THEN t[x] + 1 ELSE t[y]]
  OBVIOUS
<1>2. \A y \in S : (IF y = x THEN t[x] + 1 ELSE t[y]) \in Nat
  OBVIOUS
<1> QED BY <1>1, <1>2

(* The updates of a book's work record keep it a work record.               *)
LEMMA WorkUpdates ==
  ASSUME NEW w \in Work
  PROVE  /\ \A s \in Steps : [w EXCEPT !.step = s] \in Work
         /\ \A m, n \in Nat : [w EXCEPT !.at = m, !.skipped = n] \in Work
  BY DEF Work

THEOREM TypeCorrect == Spec => []TypeOK
<1> USE ConstantTypes
<1>1. Init => TypeOK
  <2> SUFFICES ASSUME Init PROVE TypeOK
    OBVIOUS
  <2>1. /\ file \in [Books -> Versions]
        /\ row \in [Books -> Rows]
        /\ fts \in [Books -> [PageNos \X Versions -> Nat]]
        /\ work \in [Books -> Work]
    BY DEF Init
  <2>2. used \in [RareEvents -> Nat]
    BY DEF Init
  <2> QED BY <2>1, <2>2 DEF Init, TypeOK, Phases
<1>2. TypeOK /\ [Next]_vars => TypeOK'
  <2> SUFFICES ASSUME TypeOK, [Next]_vars PROVE TypeOK'
    OBVIOUS
  <2> USE DEF TypeOK
  <2>1. CASE Startup
    BY <2>1, RowUpdates DEF Startup, Phases
  <2>2. CASE Rescan
    BY <2>2 DEF Rescan, Phases
  <2>3. ASSUME NEW b \in Books, RescanSingle(b) PROVE TypeOK'
    <3>1. used' \in [RareEvents -> Nat]
      BY <2>3, HappensType DEF RescanSingle, RareEvents
    <3>2. [Resting EXCEPT !.step = "reset", !.seen = file[b]] \in Work
      BY DEF Work, Steps, Resting
    <3> QED BY <2>3, <3>1, <3>2 DEF RescanSingle, Phases
  <2>4. CASE EndScan
    BY <2>4 DEF EndScan, Phases, rest
  <2>5. CASE EnterOcr
    BY <2>5 DEF EnterOcr, Phases, rest, Queue
  <2>6. CASE EndOcr
    BY <2>6 DEF EndOcr, Phases, rest
  <2>7. ASSUME NEW b \in Books, ScanUnchanged(b) PROVE TypeOK'
    BY <2>7 DEF ScanUnchanged, rest
  <2>8. ASSUME NEW b \in Books, ScanHash(b) PROVE TypeOK'
    <3>1. [Resting EXCEPT !.step = "hash", !.seen = file[b], !.pending = row[b].pending] \in Work
      BY DEF Work, Steps, Resting, Rows
    <3> QED BY <2>8, <3>1 DEF ScanHash, rest
  <2>9. ASSUME NEW b \in Books, ScanHashed(b) PROVE TypeOK'
    <3> PICK digest \in {file[b]} \union (IF stop THEN {row[b].hash} ELSE {}) :
          LET signed == [row[b] EXCEPT !.stat = work[b].seen, !.hash = digest]
              replaced == digest # row[b].hash
          IN  /\ CommitOrHang(b,
                   IF replaced
                   THEN [Cleared(signed) EXCEPT !.pending = @ /\ ~work[b].pending]
                   ELSE signed,
                   RowsAfter(b, replaced))
              /\ killed' = IF replaced /\ row' # row THEN killed \ {b} ELSE killed
      BY <2>9 DEF ScanHashed
    <3> DEFINE signed == [row[b] EXCEPT !.stat = work[b].seen, !.hash = digest]
    <3> DEFINE replaced == digest # row[b].hash
    <3> DEFINE r == IF replaced
                    THEN [Cleared(signed) EXCEPT !.pending = @ /\ ~work[b].pending]
                    ELSE signed
    <3>1. signed \in Rows
      BY DEF Rows, Work
    <3>2. r \in Rows
      BY <3>1 DEF Rows, Work, Cleared, Errors
    <3>3. RowsAfter(b, replaced) \in [PageNos \X Versions -> Nat]
      BY DEF RowsAfter
    <3>4. CommitOrHang(b, r, RowsAfter(b, replaced))
      OBVIOUS
    <3> HIDE DEF r, replaced
    <3>5. /\ row' \in [Books -> Rows]
          /\ fts' \in [Books -> [PageNos \X Versions -> Nat]]
          /\ used' \in [RareEvents -> Nat]
      BY <3>2, <3>3, <3>4, CommitType
    <3>6. killed' \in SUBSET Books
      BY DEF replaced
    <3> QED BY <2>9, <3>5, <3>6 DEF ScanHashed, Leave
  <2>10. ASSUME NEW b \in Books, IndexPick(b) PROVE TypeOK'
    BY <2>10 DEF IndexPick, rest, Goto, Work, Steps
  <2>11. ASSUME NEW b \in Books, IndexGuard(b) PROVE TypeOK'
    <3>1. [row[b] EXCEPT !.failed = TRUE] \in Rows
      BY DEF Rows
    <3>2. CASE Unsettled(b)
      <4>1. /\ row' \in [Books -> Rows]
            /\ fts' \in [Books -> [PageNos \X Versions -> Nat]]
            /\ used' \in [RareEvents -> Nat]
        BY <2>11, <3>1, <3>2, CommitType DEF IndexGuard
      <4>2. [work[b] EXCEPT !.step = "extract"] \in Work
        <5>1. work[b] \in Work /\ "extract" \in Steps
          BY DEF Steps
        <5> QED BY ONLY <5>1, WorkUpdates
      <4>3. work' = [work EXCEPT ![b] = [work[b] EXCEPT !.step = "extract"]]
        BY <2>11, <3>2 DEF IndexGuard, Goto
      <4> QED BY <2>11, <4>1, <4>2, <4>3 DEF IndexGuard
    <3>3. CASE ~Unsettled(b)
      BY <2>11, <3>3 DEF IndexGuard, Leave
    <3> QED BY <3>2, <3>3
  <2>12. ASSUME NEW b \in Books, SingleReset(b) PROVE TypeOK'
    <3> PICK digest \in {file[b]} \union (IF stop THEN {row[b].hash} ELSE {}) :
          CommitOrHang(b,
            [Cleared(row[b]) EXCEPT !.pending = FALSE, !.stat = work[b].seen, !.hash = digest],
            NoText)
      BY <2>12 DEF SingleReset
    <3>1. [Cleared(row[b]) EXCEPT !.pending = FALSE, !.stat = work[b].seen, !.hash = digest] \in Rows
      BY DEF Rows, Work, Cleared, Errors
    <3>2. /\ row' \in [Books -> Rows]
          /\ fts' \in [Books -> [PageNos \X Versions -> Nat]]
          /\ used' \in [RareEvents -> Nat]
      BY <3>1, CommitType
    <3> QED BY <2>12, <3>2 DEF SingleReset, Goto, Work, Steps
  <2>13. ASSUME NEW b \in Books, NEW r \in Rows, NEW t \in [PageNos \X Versions -> Nat],
                Extracted(b, r, t)
         PROVE  TypeOK'
    <3>1. /\ row' \in [Books -> Rows]
          /\ fts' \in [Books -> [PageNos \X Versions -> Nat]]
          /\ used' \in [RareEvents -> Nat]
      BY <2>13, CommitType DEF Extracted
    <3> QED BY <2>13, <3>1 DEF Extracted, Leave
  <2>14. ASSUME NEW b \in Books, ExtractCancelled(b) PROVE TypeOK'
    <3>1. [row[b] EXCEPT !.failed = FALSE] \in Rows
      BY DEF Rows
    <3> QED BY <2>13, <2>14, <3>1 DEF ExtractCancelled
  <2>15. ASSUME NEW b \in Books, ExtractFailed(b) PROVE TypeOK'
    BY <2>13, <2>15, RowUpdates DEF ExtractFailed
  <2>16. ASSUME NEW b \in Books, ExtractEmpty(b) PROVE TypeOK'
    <3>1. [row[b] EXCEPT !.indexed = TRUE, !.failed = FALSE, !.error = "image-only"] \in Rows
      BY DEF Rows, Errors
    <3> QED BY <2>13, <2>16, <3>1, RowUpdates DEF ExtractEmpty
  <2>17. ASSUME NEW b \in Books, ExtractText(b) PROVE TypeOK'
    <3>1. [row[b] EXCEPT !.indexed = TRUE, !.failed = FALSE, !.error = ""] \in Rows
      BY DEF Rows, Errors
    <3>2. \A P : WithPages(fts[b], P, file[b]) \in [PageNos \X Versions -> Nat]
      BY DEF WithPages
    <3> QED BY <2>13, <2>17, <3>1, <3>2 DEF ExtractText
  <2>18. ASSUME NEW b \in Books, OcrPick(b) PROVE TypeOK'
    <3>1. Content[b][file[b]] \in Contents
      BY IndexingAssumption
    <3>6. /\ row[b].done + 1 \in Nat
          /\ row[b].skipped \in Nat
          /\ Scanned(b).pages \in Nat
      BY <3>1 DEF Rows, Scanned, Contents, PageNos
    <3>2. [Resting EXCEPT !.step = "page", !.at = row[b].done + 1,
                          !.total = Scanned(b).pages, !.skipped = row[b].skipped] \in Work
      BY <3>6 DEF Resting, Work, Steps
    <3>3. [Failed(row[b]) EXCEPT !.pending = FALSE] \in Rows
      BY DEF Rows, Failed, Errors
    <3>4. CASE CommitOrHang(b, [Failed(row[b]) EXCEPT !.pending = FALSE], fts[b]) /\ UNCHANGED work
      <4>1. /\ row' \in [Books -> Rows]
            /\ fts' \in [Books -> [PageNos \X Versions -> Nat]]
            /\ used' \in [RareEvents -> Nat]
        BY <3>3, <3>4, CommitType
      <4> QED BY <2>18, <3>4, <4>1 DEF OcrPick
    <3>5. CASE UNCHANGED <<row, fts, used>>
      BY <2>18, <3>2, <3>5 DEF OcrPick
    <3> QED BY <2>18, <3>4, <3>5 DEF OcrPick
  <2>19. ASSUME NEW b \in Books, OcrPage(b) PROVE TypeOK'
    <3> PICK outcome \in PageOutcomes(b, work[b].at) :
          LET p == work[b].at
              skipped == Skips(work[b].skipped, outcome)
          IN  /\ CommitOrHang(b,
                   [row[b] EXCEPT !.done = p,
                                  !.skipped = IF outcome = "abandoned" THEN skipped ELSE @],
                   IF outcome = "text" THEN WithPage(fts[b], p, file[b]) ELSE fts[b])
              /\ work' = [work EXCEPT ![b].at = p + 1, ![b].skipped = skipped]
      BY <2>19 DEF OcrPage
    <3> DEFINE p == work[b].at
    <3> DEFINE skipped == Skips(work[b].skipped, outcome)
    <3>1. p \in Nat /\ skipped \in Nat
      BY DEF Work, Skips
    <3>2. [row[b] EXCEPT !.done = p,
                         !.skipped = IF outcome = "abandoned" THEN skipped ELSE @] \in Rows
      BY <3>1 DEF Rows
    <3>3. (IF outcome = "text" THEN WithPage(fts[b], p, file[b]) ELSE fts[b])
            \in [PageNos \X Versions -> Nat]
      BY OneMore DEF WithPage
    <3>4. /\ row' \in [Books -> Rows]
          /\ fts' \in [Books -> [PageNos \X Versions -> Nat]]
          /\ used' \in [RareEvents -> Nat]
      BY <3>2, <3>3, CommitType
    <3>5. work' \in [Books -> Work]
      <4>1. [work[b] EXCEPT !.at = p + 1, !.skipped = skipped] \in Work
        <5> HIDE DEF p, skipped
        <5>1. work[b] \in Work /\ p + 1 \in Nat
          BY <3>1
        <5> QED BY ONLY <5>1, <3>1, WorkUpdates
      <4>2. work' = [work EXCEPT ![b] = [work[b] EXCEPT !.at = p + 1, !.skipped = skipped]]
        OBVIOUS
      <4> QED BY <4>1, <4>2
    <3> QED BY <2>19, <3>4, <3>5 DEF OcrPage
  <2>20. ASSUME NEW b \in Books, OcrStopped(b) PROVE TypeOK'
    BY <2>20 DEF OcrStopped, Leave, rest
  <2>21. ASSUME NEW b \in Books, OcrFinish(b) PROVE TypeOK'
    <3>1. ReadByOcr(row[b], work[b].skipped) \in Rows
      BY RowUpdates DEF Work
    <3>2. /\ row' \in [Books -> Rows]
          /\ fts' \in [Books -> [PageNos \X Versions -> Nat]]
          /\ used' \in [RareEvents -> Nat]
      BY <2>21, <3>1, CommitType DEF OcrFinish
    <3> QED BY <2>21, <3>2 DEF OcrFinish, Leave
  <2>22. ASSUME NEW b \in Books, OcrError(b) PROVE TypeOK'
    <3>1. [Failed(row[b]) EXCEPT !.pending = FALSE] \in Rows
      BY DEF Rows, Failed, Errors
    <3> QED BY <2>22, <3>1 DEF OcrError, Leave, rest
  <2>23. CASE Cancel
    BY <2>23, HappensType DEF Cancel, RareEvents
  <2>24. CASE Crash
    BY <2>24, HappensType DEF Crash, RareEvents, Phases
  <2>25. ASSUME NEW b \in Books, TriggerOcr(b) PROVE TypeOK'
    BY <2>25 DEF TriggerOcr, Phases, Queue
  <2>26. ASSUME NEW b \in Books, RequestReocr(b) PROVE TypeOK'
    <3>1. used' \in [RareEvents -> Nat]
      BY <2>26, HappensType DEF RequestReocr, RareEvents
    <3> QED BY <2>26, <3>1, RowUpdates DEF RequestReocr
  <2>27. ASSUME NEW b \in Books, ReplaceFile(b) PROVE TypeOK'
    <3>1. used' \in [RareEvents -> Nat]
      BY <2>27, HappensType DEF ReplaceFile, RareEvents
    <3>2. file[b] + 1 \in Versions
      BY <2>27, IndexingAssumption DEF ReplaceFile, Versions
    <3> QED BY <2>27, <3>1, <3>2 DEF ReplaceFile
  <2>28. CASE UNCHANGED vars
    BY <2>28 DEF vars
  <2> QED
    BY <2>1, <2>2, <2>3, <2>4, <2>5, <2>6, <2>7, <2>8, <2>9, <2>10, <2>11, <2>12, <2>14,
       <2>15, <2>16, <2>17, <2>18, <2>19, <2>20, <2>21, <2>22, <2>23, <2>24, <2>25, <2>26,
       <2>27, <2>28
    DEF Next, RunStep, Others
<1> QED BY <1>1, <1>2, PTL DEF Spec

-----------------------------------------------------------------------------
(* Search never mixes contents                                              *)

(* The recorded digest is never ahead of the file, so replacing the file    *)
(* always leaves a digest behind that no longer matches.                    *)
Fresh(b) ==
  /\ row[b].hash <= file[b]
  /\ row[b].hash = file[b] =>
       \A p \in PageNos, v \in Versions : fts[b][<<p, v>>] > 0 => v = file[b]

AllFresh == \A b \in Books : Fresh(b)

(* What a commit for book b leaves fresh.                                   *)
LEMMA CommitFresh ==
  ASSUME TypeOK, AllFresh, NEW b \in Books, NEW r, NEW t,
         CommitOrHang(b, r, t), UNCHANGED file,
         r.hash <= file[b],
         r.hash = file[b] =>
           \A p \in PageNos, v \in Versions : t[<<p, v>>] > 0 => v = file[b]
  PROVE  AllFresh'
<1> SUFFICES ASSUME NEW c \in Books PROVE Fresh(c)'
  BY DEF AllFresh
<1>1. Fresh(c)
  BY DEF AllFresh
<1>2. CASE row' = [row EXCEPT ![b] = r] /\ fts' = [fts EXCEPT ![b] = t]
  <2>1. CASE c = b
    BY <1>2, <2>1 DEF Fresh, TypeOK
  <2>2. CASE c # b
    BY <1>1, <1>2, <2>2 DEF Fresh, TypeOK
  <2> QED BY <2>1, <2>2
<1>3. CASE UNCHANGED <<row, fts>>
  BY <1>1, <1>3 DEF Fresh
<1> QED BY <1>2, <1>3 DEF CommitOrHang

(* The same commit when the digest and the search rows of b stay.           *)
LEMMA CommitFreshFlags ==
  ASSUME TypeOK, AllFresh, NEW b \in Books, NEW r,
         CommitOrHang(b, r, fts[b]), UNCHANGED file, r.hash = row[b].hash
  PROVE  AllFresh'
  BY CommitFresh DEF AllFresh, Fresh

LEMMA DigestOrder == 
  ASSUME TypeOK, NEW b \in Books
  PROVE  row[b].hash \in Nat /\ file[b] \in Nat /\ row[b] \in Rows
  BY IndexingAssumption DEF TypeOK, Rows, Versions

(* Search rows read from other bytes than the recorded ones never coexist   *)
(* with a digest that matches the file, however the walk, re-reads, OCR,    *)
(* replacements, cancels, crashes and lost commits interleave.              *)
THEOREM SearchStaysFresh == Spec => []SearchFresh
<1>1. Init => AllFresh
  <2> SUFFICES ASSUME Init, NEW b \in Books PROVE Fresh(b)
    BY DEF AllFresh
  <2>1. row[b] = Registered /\ file[b] = 1 /\ fts[b] = NoText
    BY DEF Init
  <2>2. Registered.hash = 1
    BY DEF Registered
  <2>3. \A p \in PageNos, v \in Versions : ~(NoText[<<p, v>>] > 0)
    BY DEF NoText
  <2> QED BY <2>1, <2>2, <2>3 DEF Fresh
<1>2. TypeOK /\ AllFresh /\ [Next]_vars => AllFresh'
  <2> SUFFICES ASSUME TypeOK, AllFresh, [Next]_vars PROVE AllFresh'
    OBVIOUS
  <2>1. CASE Startup
    <3>1. ASSUME NEW b \in Books PROVE row'[b].hash = row[b].hash
      <4>1. Requeued(row[b]).hash = row[b].hash
        BY DigestOrder DEF Requeued, Cleared, Rows
      <4>2. row'[b] = row[b] \/ row'[b] = Requeued(row[b])
        BY <2>1 DEF Startup
      <4> QED BY <4>1, <4>2
    <3> QED BY <2>1, <3>1 DEF Startup, AllFresh, Fresh
  <2>2. CASE UNCHANGED <<file, row, fts>>
    BY <2>2 DEF AllFresh, Fresh
  <2>3. ASSUME NEW b \in Books, ScanHashed(b) PROVE AllFresh'
    <3> PICK digest \in {file[b]} \union (IF stop THEN {row[b].hash} ELSE {}) :
          LET signed == [row[b] EXCEPT !.stat = work[b].seen, !.hash = digest]
              replaced == digest # row[b].hash
          IN  CommitOrHang(b,
                IF replaced
                THEN [Cleared(signed) EXCEPT !.pending = @ /\ ~work[b].pending]
                ELSE signed,
                RowsAfter(b, replaced))
      BY <2>3 DEF ScanHashed
    <3> DEFINE signed == [row[b] EXCEPT !.stat = work[b].seen, !.hash = digest]
    <3> DEFINE cleared == [Cleared(signed) EXCEPT !.pending = @ /\ ~work[b].pending]
    <3>1. row[b] \in Rows /\ row[b].hash <= file[b] /\ UNCHANGED file
      BY <2>3, DigestOrder DEF AllFresh, Fresh, ScanHashed
    <3>2. signed.hash = digest /\ cleared.hash = digest
      BY <3>1 DEF Rows, Cleared
    <3>3. CASE digest = row[b].hash
      <4>1. CommitOrHang(b, signed, fts[b])
        BY <3>3 DEF RowsAfter
      <4> QED BY <3>1, <3>2, <3>3, <4>1, CommitFreshFlags
    <3>4. CASE digest # row[b].hash
      <4>1. CommitOrHang(b, cleared, NoText)
        BY <3>4 DEF RowsAfter
      <4>2. digest = file[b] /\ digest \in Nat
        BY <3>4, DigestOrder
      <4> HIDE DEF cleared, signed
      <4>3. \A p \in PageNos, v \in Versions : ~(NoText[<<p, v>>] > 0)
        BY DEF NoText
      <4> QED BY <3>1, <3>2, <4>1, <4>2, <4>3, CommitFresh
    <3> QED BY <3>3, <3>4
  <2>4. ASSUME NEW b \in Books, IndexGuard(b) PROVE AllFresh'
    <3>1. CASE Unsettled(b)
      <4>1. [row[b] EXCEPT !.failed = TRUE].hash = row[b].hash
        BY DigestOrder DEF Rows
      <4> QED BY <2>4, <3>1, <4>1, CommitFreshFlags DEF IndexGuard
    <3>2. CASE ~Unsettled(b)
      BY <2>2, <2>4, <3>2 DEF IndexGuard
    <3> QED BY <3>1, <3>2
  <2>5. ASSUME NEW b \in Books, SingleReset(b) PROVE AllFresh'
    <3> PICK digest \in {file[b]} \union (IF stop THEN {row[b].hash} ELSE {}) :
          CommitOrHang(b,
            [Cleared(row[b]) EXCEPT !.pending = FALSE, !.stat = work[b].seen, !.hash = digest],
            NoText)
      BY <2>5 DEF SingleReset
    <3> DEFINE cleared ==
          [Cleared(row[b]) EXCEPT !.pending = FALSE, !.stat = work[b].seen, !.hash = digest]
    <3>1. cleared.hash = digest
      BY DigestOrder DEF Rows, Cleared
    <3>2. digest <= file[b] /\ UNCHANGED file
      BY <2>5, DigestOrder DEF AllFresh, Fresh, SingleReset
    <3>3. \A p \in PageNos, v \in Versions : ~(NoText[<<p, v>>] > 0)
      BY DEF NoText
    <3>4. CommitOrHang(b, cleared, NoText)
      OBVIOUS
    <3> HIDE DEF cleared
    <3> QED BY <3>1, <3>2, <3>3, <3>4, CommitFresh
  <2>6. ASSUME NEW b \in Books, NEW r, r.hash = row[b].hash, Extracted(b, r, fts[b])
        PROVE  AllFresh'
    BY <2>6, CommitFreshFlags DEF Extracted
  <2>7. ASSUME NEW b \in Books,
               ExtractCancelled(b) \/ ExtractFailed(b) \/ ExtractEmpty(b)
        PROVE  AllFresh'
    <3>1. /\ [row[b] EXCEPT !.failed = FALSE].hash = row[b].hash
          /\ Failed(row[b]).hash = row[b].hash
          /\ Requeued(row[b]).hash = row[b].hash
          /\ [row[b] EXCEPT !.indexed = TRUE, !.failed = FALSE,
                            !.error = "image-only"].hash = row[b].hash
      BY DigestOrder DEF Rows, Failed, Requeued, Cleared
    <3> QED BY <2>6, <2>7, <3>1 DEF ExtractCancelled, ExtractFailed, ExtractEmpty
  <2>8. ASSUME NEW b \in Books, ExtractText(b) PROVE AllFresh'
    <3> DEFINE P == (1..Scanned(b).pages) \ Scanned(b).blank
    <3> DEFINE r == [row[b] EXCEPT !.indexed = TRUE, !.failed = FALSE, !.error = ""]
    <3>1. r.hash = row[b].hash
      BY DigestOrder DEF Rows
    <3>2. ASSUME NEW p \in PageNos, NEW v \in Versions,
                 row[b].hash = file[b], WithPages(fts[b], P, file[b])[<<p, v>>] > 0
          PROVE  v = file[b]
      <4>1. fts[b] \in [PageNos \X Versions -> Nat]
        BY DEF TypeOK
      <4>2. v # file[b] => WithPages(fts[b], P, file[b])[<<p, v>>] = fts[b][<<p, v>>]
        BY <4>1 DEF WithPages
      <4> QED BY <3>2, <4>2 DEF AllFresh, Fresh
    <3>3. CommitOrHang(b, r, WithPages(fts[b], P, file[b])) /\ UNCHANGED file
      BY <2>8 DEF ExtractText, Extracted
    <3>4. row[b].hash <= file[b]
      BY DEF AllFresh, Fresh
    <3> HIDE DEF P, r
    <3> QED BY <3>1, <3>2, <3>3, <3>4, CommitFresh
  <2>9. ASSUME NEW b \in Books, OcrPick(b) PROVE AllFresh'
    <3>1. CASE UNCHANGED <<row, fts>>
      BY <2>2, <2>9, <3>1 DEF OcrPick
    <3>2. CASE CommitOrHang(b, [Failed(row[b]) EXCEPT !.pending = FALSE], fts[b])
      <4>1. [Failed(row[b]) EXCEPT !.pending = FALSE].hash = row[b].hash
        BY DigestOrder DEF Rows, Failed
      <4> QED BY <2>9, <3>2, <4>1, CommitFreshFlags DEF OcrPick
    <3> QED BY <2>9, <3>1, <3>2 DEF OcrPick
  <2>10. ASSUME NEW b \in Books, OcrPage(b) PROVE AllFresh'
    <3> DEFINE p == work[b].at
    <3> PICK outcome, skips :
          CommitOrHang(b,
            [row[b] EXCEPT !.done = p, !.skipped = skips],
            IF outcome = "text" THEN WithPage(fts[b], p, file[b]) ELSE fts[b])
      BY <2>10 DEF OcrPage
    <3> DEFINE r == [row[b] EXCEPT !.done = p, !.skipped = skips]
    <3> DEFINE t == IF outcome = "text" THEN WithPage(fts[b], p, file[b]) ELSE fts[b]
    <3>1. r.hash = row[b].hash
      BY DigestOrder DEF Rows
    <3>2. ASSUME NEW q \in PageNos, NEW v \in Versions,
                 row[b].hash = file[b], t[<<q, v>>] > 0
          PROVE  v = file[b]
      <4>1. fts[b] \in [PageNos \X Versions -> Nat]
        BY DEF TypeOK
      <4>2. v # file[b] => t[<<q, v>>] = fts[b][<<q, v>>]
        BY <4>1 DEF WithPage
      <4> QED BY <3>2, <4>2 DEF AllFresh, Fresh
    <3>3. CommitOrHang(b, r, t) /\ UNCHANGED file
      BY <2>10 DEF OcrPage
    <3>4. row[b].hash <= file[b]
      BY DEF AllFresh, Fresh
    <3> HIDE DEF r, t
    <3> QED BY <3>1, <3>2, <3>3, <3>4, CommitFresh
  <2>11. ASSUME NEW b \in Books, OcrFinish(b) PROVE AllFresh'
    <3>1. ReadByOcr(row[b], work[b].skipped).hash = row[b].hash
      BY DigestOrder DEF Rows, ReadByOcr
    <3> QED BY <2>11, <3>1, CommitFreshFlags DEF OcrFinish
  <2>12. ASSUME NEW b \in Books, OcrError(b) PROVE AllFresh'
    <3>1. \A c \in Books : row'[c].hash = row[c].hash
      BY <2>12, DigestOrder DEF OcrError, Failed, Rows, TypeOK
    <3> QED BY <2>12, <3>1 DEF OcrError, rest, AllFresh, Fresh
  <2>13. ASSUME NEW b \in Books, RequestReocr(b) PROVE AllFresh'
    <3>1. \A c \in Books : row'[c].hash = row[c].hash
      BY <2>13, DigestOrder DEF RequestReocr, Requeued, Cleared, Rows, TypeOK
    <3>2. \A p \in PageNos, v \in Versions : ~(NoText[<<p, v>>] > 0)
      BY DEF NoText
    <3>3. \A c \in Books : fts'[c] = IF c = b THEN NoText ELSE fts[c]
      BY <2>13 DEF RequestReocr, TypeOK
    <3> QED BY <2>13, <3>1, <3>2, <3>3 DEF RequestReocr, AllFresh, Fresh
  <2>14. ASSUME NEW b \in Books, ReplaceFile(b) PROVE AllFresh'
    <3>1. \A c \in Books : file'[c] = IF c = b THEN file[b] + 1 ELSE file[c]
      BY <2>14 DEF ReplaceFile, TypeOK
    <3>2. UNCHANGED <<row, fts>>
      BY <2>14 DEF ReplaceFile
    <3> SUFFICES ASSUME NEW c \in Books PROVE Fresh(c)'
      BY DEF AllFresh
    <3>3. Fresh(c) /\ row[c].hash \in Nat /\ file[c] \in Nat
      BY DigestOrder DEF AllFresh
    <3>4. CASE c = b
      <4>1. row'[c].hash < file'[c]
        BY <3>1, <3>2, <3>3, <3>4 DEF Fresh
      <4> QED BY <3>1, <3>2, <3>3, <3>4, <4>1 DEF Fresh
    <3>5. CASE c # b
      BY <3>1, <3>2, <3>3, <3>5 DEF Fresh
    <3> QED BY <3>4, <3>5
  <2>15. CASE UNCHANGED vars
    BY <2>2, <2>15 DEF vars
  <2>16. ASSUME NEW b \in Books,
                \/ ScanUnchanged(b) \/ ScanHash(b) \/ IndexPick(b) \/ OcrStopped(b)
                \/ RescanSingle(b) \/ TriggerOcr(b)
         PROVE  AllFresh'
    BY <2>2, <2>16
    DEF ScanUnchanged, ScanHash, IndexPick, OcrStopped, RescanSingle, TriggerOcr, rest
  <2>17. CASE Rescan \/ EndScan \/ EnterOcr \/ EndOcr \/ Cancel \/ Crash
    BY <2>2, <2>17 DEF Rescan, EndScan, EnterOcr, EndOcr, Cancel, Crash, rest
  <2> QED
    BY <2>1, <2>3, <2>4, <2>5, <2>7, <2>8, <2>9, <2>10, <2>11, <2>12, <2>13, <2>14,
       <2>15, <2>16, <2>17
    DEF Next, RunStep, Others
<1>3. AllFresh => SearchFresh
  BY DEF AllFresh, Fresh, SearchFresh
<1> QED BY <1>1, <1>2, <1>3, TypeCorrect, PTL DEF Spec

-----------------------------------------------------------------------------
(* No crash loop, when commits do not hang                                  *)

(* A book that took the process down is settled, so phase 2 passes it over; *)
(* while a book is being extracted the committed guard is up; and what      *)
(* RequestReocr accepts is indexed, so that it cannot lower that guard.     *)
Guarded(b) ==
  /\ row[b].error \in {"ocr", "image-only"} => row[b].indexed
  /\ b \in killed => row[b].failed \/ row[b].indexed
  /\ work[b].step = "extract" => row[b].failed /\ ~row[b].indexed /\ b \notin killed

AllGuarded == \A b \in Books : Guarded(b)

NoHangs == Limit["hang"] = 0

LEMMA CommitSure ==
  ASSUME TypeOK, NoHangs, NEW b \in Books, NEW r, NEW t, CommitOrHang(b, r, t)
  PROVE  /\ row' = [row EXCEPT ![b] = r]
         /\ row'[b] = r
         /\ \A c \in Books \ {b} : row'[c] = row[c]
  BY DEF TypeOK, NoHangs, CommitOrHang, Happens, RareEvents

(* A step of book b leaves the other books guarded.                         *)
LEMMA OnlyBook ==
  ASSUME AllGuarded, NEW b \in Books, Guarded(b)',
         \A c \in Books \ {b} :
           row'[c] = row[c] /\ work'[c] = work[c] /\ (c \in killed' => c \in killed)
  PROVE  AllGuarded'
  BY DEF AllGuarded, Guarded

(* The columns the guard is about, after each row update.                   *)
LEMMA GuardColumns ==
  ASSUME NEW r \in Rows
  PROVE  /\ r.error \in Errors /\ r.indexed \in BOOLEAN /\ r.failed \in BOOLEAN
         /\ Cleared(r).error = "" /\ Requeued(r).error = ""
         /\ Failed(r).failed /\ Failed(r).error = "failure" /\ Failed(r).indexed = r.indexed
         /\ \A n \in Nat : ReadByOcr(r, n).indexed
  BY DEF Rows, Cleared, Requeued, Failed, ReadByOcr, Errors

(* Once an extraction has taken the process down, no later run extracts     *)
(* that book until a replacement or a request resets it, whatever crashes,  *)
(* cancels and requests come in between.                                    *)
THEOREM CrashLoopBroken == ASSUME NoHangs PROVE Spec => []NoCrashLoop
<1>1. Init => AllGuarded
  <2> SUFFICES ASSUME Init, NEW b \in Books PROVE Guarded(b)
    BY DEF AllGuarded
  <2>1. row[b].error = "" /\ work[b].step = "none" /\ killed = {}
    BY DEF Init, Registered, Resting
  <2> QED BY <2>1 DEF Guarded
<1>2. TypeOK /\ AllGuarded /\ [Next]_vars => AllGuarded'
  <2> SUFFICES ASSUME TypeOK, AllGuarded, [Next]_vars PROVE AllGuarded'
    OBVIOUS
  <2>0. \A b \in Books : /\ row[b] \in Rows /\ Guarded(b)
                         /\ work[b] \in Work
    BY DEF TypeOK, AllGuarded
  <2>1. CASE Startup
    <3> SUFFICES ASSUME NEW b \in Books PROVE Guarded(b)'
      BY DEF AllGuarded
    <3>1. CASE row'[b] = row[b] /\ (b \in killed' => b \in killed)
      BY <2>0, <2>1, <3>1 DEF Startup, Guarded
    <3>2. CASE row'[b] = Requeued(row[b]) /\ b \notin killed' /\ row[b].error = "image-only"
      BY <2>0, <2>1, <3>2, GuardColumns DEF Startup, Guarded
    <3>3. \/ row'[b] = row[b] /\ (b \in killed' => b \in killed)
          \/ row'[b] = Requeued(row[b]) /\ b \notin killed' /\ row[b].error = "image-only"
      BY <2>1 DEF Startup
    <3> QED BY <3>1, <3>2, <3>3
  <2>2. CASE UNCHANGED <<row, work, killed>>
    BY <2>2 DEF AllGuarded, Guarded
  <2>3. ASSUME NEW b \in Books, UNCHANGED <<row, killed>>, NEW w,
               work' = [work EXCEPT ![b] = w], w.step # "extract"
        PROVE  AllGuarded'
    BY <2>3, <2>0, OnlyBook DEF Guarded, TypeOK
  <2>4. ASSUME NEW b \in Books, ScanHashed(b) PROVE AllGuarded'
    <3> PICK digest :
          LET signed == [row[b] EXCEPT !.stat = work[b].seen, !.hash = digest]
              replaced == digest # row[b].hash
          IN  /\ CommitOrHang(b,
                   IF replaced
                   THEN [Cleared(signed) EXCEPT !.pending = @ /\ ~work[b].pending]
                   ELSE signed,
                   RowsAfter(b, replaced))
              /\ killed' = IF replaced /\ row' # row THEN killed \ {b} ELSE killed
      BY <2>4 DEF ScanHashed
    <3> DEFINE signed == [row[b] EXCEPT !.stat = work[b].seen, !.hash = digest]
    <3> DEFINE cleared == [Cleared(signed) EXCEPT !.pending = @ /\ ~work[b].pending]
    <3>1. /\ signed.error = row[b].error /\ signed.indexed = row[b].indexed
          /\ signed.failed = row[b].failed
          /\ cleared.error = "" /\ cleared.hash = digest
      BY <2>0 DEF Rows, Cleared
    <3>2. work'[b].step = "none" /\ \A c \in Books \ {b} : work'[c] = work[c]
      BY <2>4 DEF ScanHashed, Leave, Resting, TypeOK
    <3>3. \A c \in Books \ {b} : row'[c] = row[c]
      BY CommitSure
    <3>4. CASE digest = row[b].hash
      <4>1. row'[b] = signed /\ killed' = killed
        BY <3>4, CommitSure
      <4>2. Guarded(b)'
        BY <2>0, <3>1, <3>2, <4>1 DEF Guarded
      <4> QED BY <3>2, <3>3, <4>1, <4>2, OnlyBook
    <3>5. CASE digest # row[b].hash
      <4>1. row'[b] = cleared
        BY <3>5, CommitSure
      <4>2. killed' = killed \ {b}
        BY <3>1, <3>5, <4>1
      <4>3. Guarded(b)'
        BY <3>1, <3>2, <4>1, <4>2 DEF Guarded
      <4> QED BY <3>2, <3>3, <4>2, <4>3, OnlyBook
    <3> QED BY <3>4, <3>5
  <2>5. ASSUME NEW b \in Books, IndexGuard(b) PROVE AllGuarded'
    <3>1. CASE Unsettled(b)
      <4> DEFINE r == [row[b] EXCEPT !.failed = TRUE]
      <4>1. r.failed /\ r.indexed = row[b].indexed /\ r.error = row[b].error
        BY <2>0 DEF Rows
      <4>2. CommitOrHang(b, r, fts[b]) /\ Goto(b, "extract") /\ UNCHANGED killed
        BY <2>5, <3>1 DEF IndexGuard
      <4>3. work'[b].step = "extract" /\ \A c \in Books \ {b} : work'[c] = work[c]
        BY <4>2, <2>0 DEF Goto, Work, TypeOK
      <4>4. row'[b] = r /\ \A c \in Books \ {b} : row'[c] = row[c]
        BY <4>2, CommitSure
      <4>5. Guarded(b)'
        BY <2>0, <3>1, <4>1, <4>2, <4>3, <4>4 DEF Guarded, Unsettled
      <4> QED BY <4>2, <4>3, <4>4, <4>5, OnlyBook
    <3>2. CASE ~Unsettled(b)
      BY <2>3, <2>5, <3>2 DEF IndexGuard, Leave, Resting
    <3> QED BY <3>1, <3>2
  <2>6. ASSUME NEW b \in Books, SingleReset(b) PROVE AllGuarded'
    <3> PICK digest :
          CommitOrHang(b,
            [Cleared(row[b]) EXCEPT !.pending = FALSE, !.stat = work[b].seen, !.hash = digest],
            NoText)
      BY <2>6 DEF SingleReset
    <3> DEFINE cleared ==
          [Cleared(row[b]) EXCEPT !.pending = FALSE, !.stat = work[b].seen, !.hash = digest]
    <3>1. cleared.error = ""
      BY <2>0 DEF Rows, Cleared
    <3>2. row' = [row EXCEPT ![b] = cleared] /\ row'[b] = cleared
          /\ \A c \in Books \ {b} : row'[c] = row[c]
      BY CommitSure
    <3>3. work'[b].step = "index" /\ \A c \in Books \ {b} : work'[c] = work[c]
      BY <2>0, <2>6 DEF SingleReset, Goto, Work, TypeOK
    <3>4. killed' = IF row' # row THEN killed \ {b} ELSE killed
      BY <2>6 DEF SingleReset
    <3>5. b \in killed' => row'[b] = row[b] /\ b \in killed
      BY <3>4
    <3> HIDE DEF cleared
    <3>6. Guarded(b)'
      BY <2>0, <3>1, <3>2, <3>3, <3>5 DEF Guarded
    <3> QED BY <3>2, <3>3, <3>4, <3>6, OnlyBook
  <2>7. ASSUME NEW b \in Books, NEW r, NEW t, CommitOrHang(b, r, t), UNCHANGED killed,
               \A c \in Books \ {b} : work'[c] = work[c],
               work'[b].step # "extract",
               r.error \in {"ocr", "image-only"} => r.indexed,
               b \in killed => r.failed \/ r.indexed
        PROVE  AllGuarded'
    <3>1. row'[b] = r /\ \A c \in Books \ {b} : row'[c] = row[c]
      BY <2>7, CommitSure
    <3>2. Guarded(b)'
      BY <2>7, <3>1 DEF Guarded
    <3> QED BY <2>7, <3>1, <3>2, OnlyBook
  <2>8. ASSUME NEW b \in Books, NEW r, NEW t, Extracted(b, r, t),
               r.error \in {"ocr", "image-only"} => r.indexed
        PROVE  AllGuarded'
    <3>1. /\ b \notin killed
          /\ CommitOrHang(b, r, t) /\ Leave(b) /\ UNCHANGED killed
      BY <2>0, <2>8 DEF Extracted, Guarded
    <3>2. work'[b].step # "extract" /\ \A c \in Books \ {b} : work'[c] = work[c]
      BY <3>1 DEF Leave, Resting, TypeOK
    <3> QED BY <2>7, <2>8, <3>1, <3>2
  <2>9. ASSUME NEW b \in Books,
               ExtractCancelled(b) \/ ExtractFailed(b) \/ ExtractEmpty(b) \/ ExtractText(b)
        PROVE  AllGuarded'
    <3>1. ASSUME NEW r, r \in { [row[b] EXCEPT !.failed = FALSE], Failed(row[b]),
                 Requeued(row[b]),
                 [row[b] EXCEPT !.indexed = TRUE, !.failed = FALSE, !.error = "image-only"],
                 [row[b] EXCEPT !.indexed = TRUE, !.failed = FALSE, !.error = ""] }
          PROVE r.error \in {"ocr", "image-only"} => r.indexed
      <4>1. CASE r = [row[b] EXCEPT !.failed = FALSE]
        BY <2>0, <4>1 DEF Rows, Guarded
      <4>2. CASE r = Failed(row[b]) \/ r = Requeued(row[b])
        BY <2>0, <4>2, GuardColumns
      <4>3. CASE r \in { [row[b] EXCEPT !.indexed = TRUE, !.failed = FALSE, !.error = "image-only"],
                         [row[b] EXCEPT !.indexed = TRUE, !.failed = FALSE, !.error = ""] }
        BY <2>0, <4>3 DEF Rows
      <4> QED BY <3>1, <4>1, <4>2, <4>3
    <3>2. \E r, t : /\ Extracted(b, r, t)
                    /\ r \in { [row[b] EXCEPT !.failed = FALSE], Failed(row[b]),
                         Requeued(row[b]),
                         [row[b] EXCEPT !.indexed = TRUE, !.failed = FALSE, !.error = "image-only"],
                         [row[b] EXCEPT !.indexed = TRUE, !.failed = FALSE, !.error = ""] }
      BY <2>9 DEF ExtractCancelled, ExtractFailed, ExtractEmpty, ExtractText
    <3> QED BY <2>8, <3>1, <3>2
  <2>10. ASSUME NEW b \in Books, OcrPick(b) PROVE AllGuarded'
    <3>1. CASE UNCHANGED <<row, work>>
      BY <2>2, <2>10, <3>1 DEF OcrPick
    <3>2. CASE UNCHANGED row /\ work' # work
      <4> DEFINE w == [Resting EXCEPT !.step = "page", !.at = row[b].done + 1,
                                      !.total = Scanned(b).pages, !.skipped = row[b].skipped]
      <4>1. w.step = "page"
        BY DEF Resting
      <4>2. work' = [work EXCEPT ![b] = w] /\ UNCHANGED <<row, killed>>
        BY <2>10, <3>2 DEF OcrPick
      <4> HIDE DEF w
      <4> QED BY <2>3, <4>1, <4>2
    <3>3. CASE CommitOrHang(b, [Failed(row[b]) EXCEPT !.pending = FALSE], fts[b])
               /\ UNCHANGED work
      <4> DEFINE r == [Failed(row[b]) EXCEPT !.pending = FALSE]
      <4>1. r.failed /\ r.error = "failure" /\ r.indexed = row[b].indexed
        BY <2>0 DEF Rows, Failed
      <4>2. row'[b] = r /\ \A c \in Books \ {b} : row'[c] = row[c]
        BY <3>3, CommitSure
      <4>3. Guarded(b)'
        BY <2>0, <2>10, <3>3, <4>1, <4>2 DEF Guarded, OcrPick
      <4> QED BY <2>10, <3>3, <4>2, <4>3, OnlyBook DEF OcrPick
    <3>4. \/ UNCHANGED <<row, work>> \/ UNCHANGED row
          \/ CommitOrHang(b, [Failed(row[b]) EXCEPT !.pending = FALSE], fts[b])
             /\ UNCHANGED work
      BY <2>10 DEF OcrPick
    <3>5. UNCHANGED row => UNCHANGED <<row, work>> \/ (UNCHANGED row /\ work' # work)
      OBVIOUS
    <3> QED BY <3>1, <3>2, <3>3, <3>4, <3>5
  <2>11. ASSUME NEW b \in Books, OcrPage(b) PROVE AllGuarded'
    <3> PICK n, m, t :
          /\ CommitOrHang(b, [row[b] EXCEPT !.done = n, !.skipped = m], t)
          /\ work' = [work EXCEPT ![b].at = n + 1, ![b].skipped = m]
             \/ \E k : work' = [work EXCEPT ![b].at = n + 1, ![b].skipped = k]
      BY <2>11 DEF OcrPage
    <3>1. /\ [row[b] EXCEPT !.done = n, !.skipped = m].error = row[b].error
          /\ [row[b] EXCEPT !.done = n, !.skipped = m].indexed = row[b].indexed
          /\ [row[b] EXCEPT !.done = n, !.skipped = m].failed = row[b].failed
      BY <2>0 DEF Rows
    <3>2. work'[b].step = work[b].step /\ \A c \in Books \ {b} : work'[c] = work[c]
      BY <2>0 DEF Work, TypeOK
    <3>3. work[b].step = "page" /\ UNCHANGED killed
      BY <2>11 DEF OcrPage
    <3> QED BY <2>0, <2>7, <3>1, <3>2, <3>3 DEF Guarded
  <2>12. ASSUME NEW b \in Books, OcrFinish(b) PROVE AllGuarded'
    <3>1. ReadByOcr(row[b], work[b].skipped).indexed
      BY <2>0, GuardColumns DEF Work
    <3>2. work'[b].step # "extract" /\ \A c \in Books \ {b} : work'[c] = work[c]
      BY <2>12 DEF OcrFinish, Leave, Resting, TypeOK
    <3> QED BY <2>7, <2>12, <3>1, <3>2 DEF OcrFinish
  <2>13. ASSUME NEW b \in Books, OcrError(b) PROVE AllGuarded'
    <3> DEFINE r == [Failed(row[b]) EXCEPT !.pending = FALSE]
    <3>1. r.failed /\ r.error = "failure"
      BY <2>0 DEF Rows, Failed
    <3>2. row'[b] = r /\ \A c \in Books \ {b} : row'[c] = row[c]
      BY <2>13 DEF OcrError, TypeOK
    <3>3. work'[b].step # "extract" /\ \A c \in Books \ {b} : work'[c] = work[c]
      BY <2>13 DEF OcrError, Leave, Resting, TypeOK
    <3>4. Guarded(b)'
      BY <3>1, <3>2, <3>3 DEF Guarded
    <3> QED BY <2>13, <3>2, <3>3, <3>4, OnlyBook DEF OcrError, rest
  <2>14. ASSUME NEW b \in Books, RequestReocr(b) PROVE AllGuarded'
    <3>1. work[b].step # "extract"
      BY <2>0, <2>14 DEF RequestReocr, Guarded
    <3>2. row'[b] = Requeued(row[b]) /\ \A c \in Books \ {b} : row'[c] = row[c]
      BY <2>14 DEF RequestReocr, TypeOK
    <3>3. Guarded(b)'
      BY <2>0, <2>14, <3>1, <3>2, GuardColumns DEF RequestReocr, Guarded
    <3> QED BY <2>14, <3>2, <3>3, OnlyBook DEF RequestReocr
  <2>15. CASE Crash
    BY <2>0, <2>15 DEF Crash, AllGuarded, Guarded, Resting
  <2>16. ASSUME NEW b \in Books, RescanSingle(b) \/ ScanHash(b) PROVE AllGuarded'
    <3>1. \E w : work' = [work EXCEPT ![b] = w] /\ w.step # "extract"
      <4>1. [Resting EXCEPT !.step = "reset", !.seen = file[b]].step = "reset"
            /\ [Resting EXCEPT !.step = "hash", !.seen = file[b],
                               !.pending = row[b].pending].step = "hash"
        BY DEF Resting
      <4> HIDE DEF Resting
      <4>2. \/ work' = [work EXCEPT ![b] = [Resting EXCEPT !.step = "reset", !.seen = file[b]]]
            \/ work' = [work EXCEPT ![b] = [Resting EXCEPT !.step = "hash", !.seen = file[b],
                                                           !.pending = row[b].pending]]
        BY <2>16 DEF RescanSingle, ScanHash
      <4> QED BY <4>1, <4>2, Zenon
    <3> QED BY <2>3, <2>16, <3>1 DEF RescanSingle, ScanHash, rest
  <2>17. ASSUME NEW b \in Books, IndexPick(b) PROVE AllGuarded'
    <3>1. work' = [work EXCEPT ![b] = [work[b] EXCEPT !.step = "index"]]
          /\ [work[b] EXCEPT !.step = "index"].step = "index"
      BY <2>0, <2>17 DEF IndexPick, Goto, Work
    <3> QED BY <2>3, <2>17, <3>1 DEF IndexPick, rest
  <2>18. ASSUME NEW b \in Books, OcrStopped(b) PROVE AllGuarded'
    <3>1. work' = [work EXCEPT ![b] = Resting] /\ UNCHANGED <<row, killed>>
      BY <2>18 DEF OcrStopped, Leave, rest
    <3>2. Resting.step # "extract"
      BY DEF Resting
    <3> QED BY <2>3, <3>1, <3>2
  <2>19. ASSUME NEW b \in Books, ScanUnchanged(b) \/ TriggerOcr(b) \/ ReplaceFile(b)
         PROVE  AllGuarded'
    BY <2>2, <2>19 DEF ScanUnchanged, TriggerOcr, ReplaceFile, rest
  <2>20. CASE Rescan \/ EndScan \/ EnterOcr \/ EndOcr \/ Cancel
    BY <2>2, <2>20 DEF Rescan, EndScan, EnterOcr, EndOcr, Cancel, rest
  <2>21. CASE UNCHANGED vars
    BY <2>2, <2>21 DEF vars
  <2> QED
    BY <2>1, <2>4, <2>5, <2>6, <2>9, <2>10, <2>11, <2>12, <2>13, <2>14, <2>15, <2>16,
       <2>17, <2>18, <2>19, <2>20, <2>21
    DEF Next, RunStep, Others
<1>3. AllGuarded => NoCrashLoop
  BY DEF AllGuarded, Guarded, NoCrashLoop
<1> QED BY <1>1, <1>2, <1>3, TypeCorrect, PTL DEF Spec

-----------------------------------------------------------------------------
(* Search rows vanish only from a book that will be read again              *)

(* What the action property says of one book.                               *)
DropsToReread(b) ==
  (\E x \in PageNos \X Versions : fts'[b][x] < fts[b][x]) =>
    ~row'[b].indexed /\ ~row'[b].failed

AllDropsToReread == \A b \in Books : DropsToReread(b)

(* A row table that has lost nothing.                                       *)
Keeps(b, t) == \A x \in PageNos \X Versions : ~(t[x] < fts[b][x])

LEMMA KeepsItself ==
  ASSUME TypeOK, NEW b \in Books
  PROVE  Keeps(b, fts[b])
<1>1. \A x \in PageNos \X Versions : fts[b][x] \in Nat
  BY DEF TypeOK
<1> QED BY <1>1 DEF Keeps

LEMMA KeepsWithPages ==
  ASSUME TypeOK, NEW b \in Books, NEW P, NEW v
  PROVE  Keeps(b, WithPages(fts[b], P, v))
<1>0. fts[b] \in [PageNos \X Versions -> Nat]
  BY DEF TypeOK
<1> SUFFICES ASSUME NEW x \in PageNos \X Versions
             PROVE  ~(WithPages(fts[b], P, v)[x] < fts[b][x])
  BY DEF Keeps
<1>1. fts[b][x] \in Nat
  BY <1>0
<1>2. WithPages(fts[b], P, v)[x] = fts[b][x] \/ WithPages(fts[b], P, v)[x] = fts[b][x] + 1
  BY <1>0 DEF WithPages
<1> QED BY <1>1, <1>2

LEMMA KeepsWithPage ==
  ASSUME TypeOK, NEW b \in Books, NEW p, NEW v
  PROVE  Keeps(b, WithPage(fts[b], p, v))
<1>0. fts[b] \in [PageNos \X Versions -> Nat]
  BY DEF TypeOK
<1> SUFFICES ASSUME NEW x \in PageNos \X Versions
             PROVE  ~(WithPage(fts[b], p, v)[x] < fts[b][x])
  BY DEF Keeps
<1>1. fts[b][x] \in Nat
  BY <1>0
<1>2. WithPage(fts[b], p, v)[x] = fts[b][x] \/ WithPage(fts[b], p, v)[x] = fts[b][x] + 1
  BY <1>0 DEF WithPage
<1> QED BY <1>1, <1>2

(* A commit for b drops rows of no other book, and resets b if it drops any.*)
LEMMA CommitDrops ==
  ASSUME TypeOK, NEW b \in Books, NEW r, NEW t, CommitOrHang(b, r, t),
         Keeps(b, t) \/ (~r.indexed /\ ~r.failed)
  PROVE  AllDropsToReread
<1> SUFFICES ASSUME NEW c \in Books PROVE DropsToReread(c)
  BY DEF AllDropsToReread
<1>1. CASE fts'[c] = fts[c]
  BY <1>1, KeepsItself DEF DropsToReread, Keeps
<1>2. CASE c = b /\ row'[b] = r /\ fts'[b] = t
  BY <1>2 DEF DropsToReread, Keeps
<1> QED BY <1>1, <1>2 DEF CommitOrHang, TypeOK

LEMMA NothingDropped ==
  ASSUME TypeOK, UNCHANGED fts
  PROVE  AllDropsToReread
BY KeepsItself DEF AllDropsToReread, DropsToReread, Keeps

(* Search rows never vanish from a book without that step leaving the book  *)
(* to be read again: only a replaced file, a re-read and a re-OCR request   *)
(* drop rows, and each resets both flags in the same commit.                *)
THEOREM DropsOnlyToReread == Spec => RowsDroppedOnlyToReread
<1>1. TypeOK /\ [Next]_vars => AllDropsToReread
  <2> SUFFICES ASSUME TypeOK, [Next]_vars PROVE AllDropsToReread
    OBVIOUS
  <2>0. \A b \in Books : row[b] \in Rows /\ Keeps(b, fts[b])
    BY KeepsItself DEF TypeOK
  <2>1. ASSUME NEW b \in Books, ScanHashed(b) PROVE AllDropsToReread
    <3> PICK digest :
          LET signed == [row[b] EXCEPT !.stat = work[b].seen, !.hash = digest]
              replaced == digest # row[b].hash
          IN  CommitOrHang(b,
                IF replaced
                THEN [Cleared(signed) EXCEPT !.pending = @ /\ ~work[b].pending]
                ELSE signed,
                RowsAfter(b, replaced))
      BY <2>1 DEF ScanHashed
    <3> DEFINE signed == [row[b] EXCEPT !.stat = work[b].seen, !.hash = digest]
    <3> DEFINE cleared == [Cleared(signed) EXCEPT !.pending = @ /\ ~work[b].pending]
    <3>1. ~cleared.indexed /\ ~cleared.failed
      BY <2>0 DEF Rows, Cleared
    <3>2. CommitOrHang(b, signed, fts[b]) \/ CommitOrHang(b, cleared, NoText)
      BY DEF RowsAfter
    <3> HIDE DEF signed, cleared
    <3> QED BY <2>0, <3>1, <3>2, CommitDrops
  <2>2. ASSUME NEW b \in Books, SingleReset(b) PROVE AllDropsToReread
    <3> PICK digest :
          CommitOrHang(b,
            [Cleared(row[b]) EXCEPT !.pending = FALSE, !.stat = work[b].seen, !.hash = digest],
            NoText)
      BY <2>2 DEF SingleReset
    <3> DEFINE cleared ==
          [Cleared(row[b]) EXCEPT !.pending = FALSE, !.stat = work[b].seen, !.hash = digest]
    <3>1. ~cleared.indexed /\ ~cleared.failed
      BY <2>0 DEF Rows, Cleared
    <3>2. CommitOrHang(b, cleared, NoText)
      OBVIOUS
    <3> HIDE DEF cleared
    <3> QED BY <3>1, <3>2, CommitDrops
  <2>3. ASSUME NEW b \in Books, RequestReocr(b) PROVE AllDropsToReread
    <3>1. ~Requeued(row[b]).indexed /\ ~Requeued(row[b]).failed
      BY <2>0 DEF Requeued, Cleared, Rows
    <3> SUFFICES ASSUME NEW c \in Books PROVE DropsToReread(c)
      BY DEF AllDropsToReread
    <3>2. CASE c = b
      BY <2>3, <3>1, <3>2 DEF RequestReocr, TypeOK, DropsToReread
    <3>3. CASE c # b
      <4>1. fts'[c] = fts[c]
        BY <2>3, <3>3 DEF RequestReocr, TypeOK
      <4> QED BY <2>0, <4>1 DEF DropsToReread, Keeps
    <3> QED BY <3>2, <3>3
  <2>4. ASSUME NEW b \in Books, NEW r, NEW t, CommitOrHang(b, r, t), Keeps(b, t)
        PROVE  AllDropsToReread
    BY <2>4, CommitDrops
  <2>5. ASSUME NEW b \in Books, ExtractText(b) PROVE AllDropsToReread
    BY <2>4, <2>5, KeepsWithPages DEF ExtractText, Extracted
  <2>6. ASSUME NEW b \in Books, OcrPage(b) PROVE AllDropsToReread
    BY <2>0, <2>4, <2>6, KeepsWithPage DEF OcrPage
  <2>7. ASSUME NEW b \in Books,
               ExtractCancelled(b) \/ ExtractFailed(b) \/ ExtractEmpty(b)
        PROVE  AllDropsToReread
    BY <2>0, <2>4, <2>7 DEF ExtractCancelled, ExtractFailed, ExtractEmpty, Extracted
  <2>8. ASSUME NEW b \in Books, IndexGuard(b) \/ OcrPick(b) \/ OcrFinish(b)
        PROVE  AllDropsToReread
    <3>1. UNCHANGED fts \/ \E r : CommitOrHang(b, r, fts[b])
      BY <2>8 DEF IndexGuard, OcrPick, OcrFinish
    <3> QED BY <2>0, <2>4, <3>1, NothingDropped
  <2>9. ASSUME NEW b \in Books,
               \/ ScanUnchanged(b) \/ ScanHash(b) \/ IndexPick(b) \/ OcrStopped(b)
               \/ OcrError(b) \/ RescanSingle(b) \/ TriggerOcr(b) \/ ReplaceFile(b)
        PROVE  AllDropsToReread
    BY <2>9, NothingDropped
    DEF ScanUnchanged, ScanHash, IndexPick, OcrStopped, OcrError, RescanSingle, TriggerOcr,
        ReplaceFile
  <2>10. CASE \/ Startup \/ Rescan \/ EndScan \/ EnterOcr \/ EndOcr \/ Cancel \/ Crash
              \/ UNCHANGED vars
    BY <2>10, NothingDropped
    DEF Startup, Rescan, EndScan, EnterOcr, EndOcr, Cancel, Crash, vars
  <2> QED
    BY <2>1, <2>2, <2>3, <2>5, <2>6, <2>7, <2>8, <2>9, <2>10
    DEF Next, RunStep, Others
<1>2. AllDropsToReread =>
        \A b \in Books : (\E x \in PageNos \X Versions : fts'[b][x] < fts[b][x]) =>
          ~row'[b].indexed /\ ~row'[b].failed
  BY DEF AllDropsToReread, DropsToReread
<1> QED BY <1>1, <1>2, TypeCorrect, PTL DEF Spec, RowsDroppedOnlyToReread

-----------------------------------------------------------------------------
(* Every page that is not in search is one the user was told of             *)

(* What SkipsAccounted says of one book.                                    *)
Accounted(b) ==
  row[b].hash = file[b] =>
    /\ row[b].indexed /\ row[b].error = "" => Missing(b) = {}
    /\ Scanned(b).layer = "image" =>
         /\ row[b].indexed /\ row[b].error = "ocr" =>
              Cardinality(Missing(b)) <= row[b].skipped
         /\ row[b].pending =>
              Cardinality({p \in Missing(b) : p <= row[b].done}) <= row[b].skipped

(* The OCR loop is where the checkpoint says, with the count the row holds, *)
(* and its book is still queued: nobody may reset it meanwhile, because a   *)
(* queued book has no text from OCR, and where OCR is on no book is without *)
(* text for want of it.                                                     *)
AtPage(b) ==
  /\ run = "ocr" /\ b \notin todo /\ row[b].pending
  /\ work[b].at = row[b].done + 1 /\ work[b].skipped = row[b].skipped
  /\ row[b].hash = file[b] => work[b].total = Scanned(b).pages

Told(b) ==
  /\ row[b].hash <= file[b]
  /\ Accounted(b)
  /\ run = "ocr" => ocrOn
  /\ ocrOn => row[b].error # "image-only"
  /\ row[b].pending => row[b].error # "ocr"
  /\ work[b].step = "page" => AtPage(b)

AllTold == \A b \in Books : Told(b)

LEMMA ContentTypes ==
  ASSUME TypeOK, NEW b \in Books
  PROVE  Scanned(b) \in Contents /\ Scanned(b).pages \in Nat
BY IndexingAssumption DEF TypeOK, Scanned, Contents, PageNos

(* The pages a book misses are finitely many, and a subset is no larger.    *)
LEMMA MissingFinite ==
  ASSUME TypeOK, NEW b \in Books, NEW S \in SUBSET Missing(b)
  PROVE  /\ IsFiniteSet(S) /\ Cardinality(S) \in Nat
         /\ \A T \in SUBSET S : Cardinality(T) \in Nat /\ Cardinality(T) <= Cardinality(S)
<1>1. IsFiniteSet(1..Scanned(b).pages)
  BY ContentTypes, FS_Interval
<1>2. S \in SUBSET (1..Scanned(b).pages)
  BY DEF Missing
<1>3. IsFiniteSet(S)
  BY <1>1, <1>2, FS_Subset
<1>4. \A T \in SUBSET S : IsFiniteSet(T) /\ Cardinality(T) <= Cardinality(S)
  BY <1>3, FS_Subset
<1>5. \A T : IsFiniteSet(T) => Cardinality(T) \in Nat
  BY FS_CardinalityType
<1> QED BY <1>3, <1>4, <1>5

(* More search rows, fewer pages missing.                                   *)
LEMMA MissingShrinks ==
  ASSUME TypeOK, TypeOK', NEW b \in Books, file'[b] = file[b],
         \A x \in PageNos \X Versions : fts'[b][x] >= fts[b][x]
  PROVE  Missing(b)' \in SUBSET Missing(b)
<1>1. Scanned(b)' = Scanned(b)
  BY DEF Scanned
<1>2. ASSUME NEW p \in 1..Scanned(b).pages PROVE p \in PageNos
  BY <1>2, ContentTypes, IndexingAssumption DEF Contents, PageNos
<1>3. ASSUME NEW p \in PageNos, fts'[b][<<p, file[b]>>] = 0
      PROVE  fts[b][<<p, file[b]>>] = 0
  <2>1. <<p, file[b]>> \in PageNos \X Versions
    BY DEF TypeOK
  <2>2. fts[b][<<p, file[b]>>] \in Nat /\ fts'[b][<<p, file[b]>>] >= fts[b][<<p, file[b]>>]
    BY <2>1 DEF TypeOK
  <2> QED BY <1>3, <2>2
<1> QED BY <1>1, <1>2, <1>3 DEF Missing

(* A step that leaves the digest and the OCR columns of b as they are, drops*)
(* no search rows and sets no flag but for a book that misses nothing.      *)
LEMMA AccountedKept ==
  ASSUME TypeOK, TypeOK', NEW b \in Books, Accounted(b), file'[b] = file[b],
         \A x \in PageNos \X Versions : fts'[b][x] >= fts[b][x],
         row'[b].hash = row[b].hash,
         row'[b].indexed /\ row'[b].error = "" =>
           (row[b].indexed /\ row[b].error = "") \/ Missing(b)' = {},
         row'[b].indexed /\ row'[b].error = "ocr" =>
           row[b].indexed /\ row[b].error = "ocr" /\ row'[b].skipped = row[b].skipped,
         row'[b].pending =>
           row[b].pending /\ row'[b].done = row[b].done /\ row'[b].skipped = row[b].skipped
  PROVE  Accounted(b)'
<1>0. Scanned(b)' = Scanned(b)
  BY DEF Scanned
<1>1. Missing(b)' \in SUBSET Missing(b)
  BY MissingShrinks
<1>2. row[b].skipped \in Nat
  BY DEF TypeOK, Rows
<1> SUFFICES ASSUME row'[b].hash = file'[b]
             PROVE  Accounted(b)'
  BY DEF Accounted
<1>3. row[b].hash = file[b]
  OBVIOUS
<1>4. row'[b].indexed /\ row'[b].error = "" => Missing(b)' = {}
  BY <1>1, <1>3 DEF Accounted
<1>5. ASSUME Scanned(b).layer = "image", row'[b].indexed, row'[b].error = "ocr"
      PROVE  Cardinality(Missing(b)') <= row'[b].skipped
  <2>1. /\ Cardinality(Missing(b)) <= row[b].skipped
        /\ row'[b].skipped = row[b].skipped
    BY <1>3, <1>5 DEF Accounted
  <2>2. /\ Cardinality(Missing(b)') <= Cardinality(Missing(b))
        /\ Cardinality(Missing(b)') \in Nat /\ Cardinality(Missing(b)) \in Nat
    BY <1>1, MissingFinite
  <2>3. row[b].skipped \in Nat
    BY <1>2
  <2> QED BY ONLY <2>1, <2>2, <2>3
<1>6. ASSUME Scanned(b).layer = "image", row'[b].pending
      PROVE  Cardinality({p \in Missing(b)' : p <= row'[b].done}) <= row'[b].skipped
  <2> DEFINE S == {p \in Missing(b) : p <= row[b].done}
  <2> DEFINE T == {p \in Missing(b)' : p <= row'[b].done}
  <2>1. Cardinality(S) <= row[b].skipped /\ row'[b].skipped = row[b].skipped
    BY <1>3, <1>6 DEF Accounted
  <2>2. S \in SUBSET Missing(b) /\ T \in SUBSET S
    BY <1>1, <1>6
  <2> HIDE DEF S, T
  <2>3. Cardinality(T) <= Cardinality(S) /\ Cardinality(T) \in Nat /\ Cardinality(S) \in Nat
    BY <2>2, MissingFinite
  <2>4. Cardinality(T) <= row'[b].skipped
    BY ONLY <1>2, <2>1, <2>3
  <2> QED BY <2>4 DEF T
<1> QED BY <1>0, <1>4, <1>5, <1>6 DEF Accounted

(* A reset book is not indexed, and its checkpoint is before page 1.        *)
LEMMA AccountedAnew ==
  ASSUME TypeOK', NEW b \in Books, ~row'[b].indexed, row'[b].done = 0
  PROVE  Accounted(b)'
<1>1. {p \in Missing(b)' : p <= row'[b].done} = {}
  BY DEF Missing
<1>2. Cardinality({p \in Missing(b)' : p <= row'[b].done}) = 0
  BY <1>1, FS_EmptySet
<1>3. row'[b].skipped \in Nat
  BY DEF TypeOK, Rows
<1>4. Cardinality({p \in Missing(b)' : p <= row'[b].done}) <= row'[b].skipped
  BY ONLY <1>2, <1>3
<1> QED BY <1>4 DEF Accounted

(* A step of b alone leaves what is said of the other books.                *)
LEMMA OthersTold ==
  ASSUME AllTold, NEW b \in Books, Told(b)',
         UNCHANGED <<run, ocrOn>>, todo' \subseteq todo,
         \A c \in Books \ {b} : /\ row'[c] = row[c] /\ work'[c] = work[c]
                                /\ fts'[c] = fts[c] /\ file'[c] = file[c]
  PROVE  AllTold'
<1> SUFFICES ASSUME NEW c \in Books \ {b} PROVE Told(c)'
  BY DEF AllTold
<1>1. Told(c)
  BY DEF AllTold
<1>2. Scanned(c)' = Scanned(c) /\ Missing(c)' = Missing(c)
  BY DEF Scanned, Missing
<1> QED BY <1>1, <1>2 DEF Told, Accounted, AtPage

(* A step that touches no row and takes no book to an OCR page.             *)
LEMMA QuietTold ==
  ASSUME AllTold, UNCHANGED <<file, row, fts, ocrOn>>,
         run' = "ocr" => run = "ocr" \/ ocrOn,
         \A c \in Books : work'[c].step = "page" =>
           work'[c] = work[c] /\ ((run' = run /\ todo' \subseteq todo) \/ run # "ocr")
  PROVE  AllTold'
<1> SUFFICES ASSUME NEW c \in Books PROVE Told(c)'
  BY DEF AllTold
<1>1. Told(c)
  BY DEF AllTold
<1>2. Scanned(c)' = Scanned(c) /\ Missing(c)' = Missing(c)
  BY DEF Scanned, Missing
<1> QED BY <1>1, <1>2 DEF Told, Accounted, AtPage

LEMMA CommitSureRows ==
  ASSUME TypeOK, NoHangs, NEW b \in Books, NEW r, NEW t, CommitOrHang(b, r, t)
  PROVE  fts'[b] = t /\ \A c \in Books \ {b} : fts'[c] = fts[c]
BY DEF TypeOK, NoHangs, CommitOrHang, Happens, RareEvents

LEMMA SameRows ==
  ASSUME TypeOK, NEW b \in Books, fts'[b] = fts[b]
  PROVE  \A x \in PageNos \X Versions : fts'[b][x] >= fts[b][x]
<1>1. \A x \in PageNos \X Versions : fts[b][x] \in Nat
  BY DEF TypeOK
<1> QED BY <1>1

(* What a reset leaves true of its book.                                    *)
LEMMA ToldAnew ==
  ASSUME TypeOK', NEW b \in Books, ~row'[b].indexed, row'[b].done = 0, row'[b].error = "",
         row'[b].hash <= file'[b], work'[b].step # "page",
         run' = "ocr" => ocrOn'
  PROVE  Told(b)'
<1>1. Accounted(b)'
  BY AccountedAnew
<1> QED BY <1>1 DEF Told

(* What a step that resets nothing leaves true of its book.                 *)
LEMMA ToldKept ==
  ASSUME TypeOK, TypeOK', NEW b \in Books, Told(b), file'[b] = file[b], UNCHANGED <<run, ocrOn>>,
         \A x \in PageNos \X Versions : fts'[b][x] >= fts[b][x],
         row'[b].hash = row[b].hash, row'[b].done = row[b].done,
         row'[b].skipped = row[b].skipped,
         row'[b].pending => row[b].pending,
         row'[b].indexed /\ row'[b].error = "" =>
           (row[b].indexed /\ row[b].error = "") \/ Missing(b)' = {},
         row'[b].error = "ocr" => row[b].error = "ocr" /\ row'[b].indexed = row[b].indexed,
         row'[b].error = "image-only" => row[b].error = "image-only" \/ ~ocrOn,
         work'[b].step # "page"
  PROVE  Told(b)'
<1>1. Accounted(b)'
  BY AccountedKept DEF Told
<1> QED BY <1>1 DEF Told

LEMMA ToldColumns ==
  ASSUME NEW r \in Rows
  PROVE  /\ Requeued(r).hash = r.hash /\ ~Requeued(r).indexed /\ Requeued(r).done = 0
         /\ Requeued(r).error = ""
         /\ Failed(r).hash = r.hash /\ Failed(r).done = r.done /\ Failed(r).skipped = r.skipped
         /\ Failed(r).pending = r.pending /\ Failed(r).error = "failure"
BY DEF Requeued, Cleared, Failed, Rows

(* The file of b is replaced: nothing is claimed until its new digest is    *)
(* recorded, and that resets the book.                                      *)
LEMMA ReplacedTold ==
  ASSUME TypeOK, AllTold, NEW b \in Books, ReplaceFile(b)
  PROVE  AllTold'
<1>1. file'[b] = file[b] + 1 /\ \A c \in Books \ {b} : file'[c] = file[c]
  BY DEF ReplaceFile, TypeOK
<1>2. Told(b) /\ row[b].hash \in Nat /\ file[b] \in Nat
  BY DigestOrder DEF AllTold
<1>3. row'[b].hash < file'[b] /\ UNCHANGED <<row, work, run, todo, ocrOn, fts>>
  BY <1>1, <1>2 DEF Told, ReplaceFile
<1>4. row'[b].hash # file'[b] /\ row'[b].hash <= file'[b]
  BY <1>1, <1>2, <1>3
<1>5. Told(b)'
  BY <1>2, <1>3, <1>4 DEF Told, AtPage, Accounted
<1> QED BY <1>1, <1>3, <1>5, OthersTold

(* A page of OCR: it is in search, blank, or counted as skipped.            *)
LEMMA PageTold ==
  ASSUME TypeOK, TypeOK', NoHangs, AllTold, NEW b \in Books, OcrPage(b)
  PROVE  AllTold'
<1> DEFINE p == work[b].at
<1> PICK outcome \in PageOutcomes(b, p) :
      LET skipped == Skips(work[b].skipped, outcome)
      IN  /\ CommitOrHang(b,
               [row[b] EXCEPT !.done = p,
                              !.skipped = IF outcome = "abandoned" THEN skipped ELSE @],
               IF outcome = "text" THEN WithPage(fts[b], p, file[b]) ELSE fts[b])
          /\ work' = [work EXCEPT ![b].at = p + 1, ![b].skipped = skipped]
  BY DEF OcrPage
<1> DEFINE skipped == Skips(work[b].skipped, outcome)
<1> DEFINE r == [row[b] EXCEPT !.done = p,
                               !.skipped = IF outcome = "abandoned" THEN skipped ELSE @]
<1> DEFINE t == IF outcome = "text" THEN WithPage(fts[b], p, file[b]) ELSE fts[b]
<1>0. /\ row[b] \in Rows /\ work[b] \in Work /\ Told(b) /\ AtPage(b) /\ work[b].step = "page"
      /\ UNCHANGED <<file, run, todo, ocrOn>> /\ fts[b] \in [PageNos \X Versions -> Nat]
  BY DEF TypeOK, AllTold, Told, OcrPage
<1>1. CommitOrHang(b, r, t)
  OBVIOUS
<1>2. /\ r.done = p /\ r.hash = row[b].hash /\ r.error = row[b].error
      /\ r.indexed = row[b].indexed /\ r.pending = row[b].pending
      /\ r.skipped = IF outcome = "abandoned" THEN skipped ELSE row[b].skipped
  BY <1>0 DEF Rows
<1> HIDE DEF r, t
<1>3. row'[b] = r /\ fts'[b] = t
      /\ \A c \in Books \ {b} : row'[c] = row[c] /\ fts'[c] = fts[c]
  BY <1>1, CommitSure, CommitSureRows
<1>4. /\ work'[b].step = "page" /\ work'[b].at = p + 1 /\ work'[b].skipped = skipped
      /\ work'[b].total = work[b].total
      /\ \A c \in Books \ {b} : work'[c] = work[c]
  BY <1>0 DEF Work, TypeOK
<1>5. r.skipped = skipped /\ skipped \in Nat /\ row[b].skipped \in Nat
  BY <1>0, <1>2 DEF AtPage, Skips, Rows
<1>6. AtPage(b)'
  <2>1. Scanned(b)' = Scanned(b)
    BY <1>0 DEF Scanned
  <2> QED BY <1>0, <1>2, <1>3, <1>4, <1>5, <2>1 DEF AtPage
<1>7. \A x \in PageNos \X Versions : fts'[b][x] >= fts[b][x]
  <2>1. CASE t = fts[b]
    BY <1>3, <2>1, SameRows
  <2>2. CASE t = WithPage(fts[b], p, file[b])
    <3> SUFFICES ASSUME NEW x \in PageNos \X Versions PROVE fts'[b][x] >= fts[b][x]
      OBVIOUS
    <3>1. fts[b][x] \in Nat
      BY <1>0
    <3>2. fts'[b][x] = fts[b][x] \/ fts'[b][x] = fts[b][x] + 1
      BY <1>0, <1>3, <2>2 DEF WithPage
    <3> QED BY <3>1, <3>2
  <2> QED BY <2>1, <2>2 DEF t
<1>8. Accounted(b)'
  <2> SUFFICES ASSUME row'[b].hash = file'[b], Scanned(b).layer = "image"
               PROVE  Cardinality({q \in Missing(b)' : q <= row'[b].done}) <= row'[b].skipped
    <3>1. Scanned(b)' = Scanned(b)
      BY <1>0 DEF Scanned
    <3>2. Missing(b)' \in SUBSET Missing(b)
      BY <1>0, <1>7, MissingShrinks
    <3>3. row'[b].hash = file'[b] /\ row'[b].indexed /\ row'[b].error = "" => Missing(b)' = {}
      BY <1>0, <1>2, <1>3, <3>2 DEF Told, Accounted
    <3>4. row'[b].error # "ocr"
      BY <1>0, <1>2, <1>3 DEF Told, AtPage
    <3> QED BY <3>1, <3>3, <3>4 DEF Accounted
  <2> DEFINE S == {q \in Missing(b) : q <= row[b].done}
  <2> DEFINE T == {q \in Missing(b)' : q <= p}
  <2>1. Cardinality(S) <= row[b].skipped
    BY <1>0, <1>2, <1>3 DEF Told, Accounted, AtPage
  <2>2. Missing(b)' \in SUBSET Missing(b)
    BY <1>0, <1>7, MissingShrinks
  <2>3. p = row[b].done + 1 /\ row[b].done \in Nat
    BY <1>0 DEF AtPage, Rows
  <2>4. S \in SUBSET Missing(b)
    OBVIOUS
  <2>5. T \in SUBSET (S \union {p})
    <3>1. ASSUME NEW q \in Missing(b)', q <= p, q # p PROVE q \in S
      <4>1. q \in Missing(b) /\ q \in Nat
        BY <2>2 DEF Missing
      <4> QED BY <2>3, <3>1, <4>1
    <3> QED BY <3>1
  <2>6. outcome # "abandoned" => p \notin Missing(b)'
    <3> SUFFICES ASSUME outcome # "abandoned", p \in Missing(b)' PROVE FALSE
      OBVIOUS
    <3>1. p \in Missing(b) /\ p \in 1..Scanned(b).pages /\ p \notin Scanned(b).blank
      BY <2>2 DEF Missing
    <3>2. outcome = "text"
      BY <3>1 DEF PageOutcomes
    <3>3. p \in PageNos
      BY <3>1, ContentTypes, IndexingAssumption DEF Contents, PageNos
    <3>4. <<p, file[b]>> \in PageNos \X Versions
      BY <3>3 DEF TypeOK
    <3>5. fts'[b][<<p, file[b]>>] = fts[b][<<p, file[b]>>] + 1
      BY <1>0, <1>3, <3>2, <3>4 DEF t, WithPage
    <3>6. fts[b][<<p, file[b]>>] \in Nat
      BY <1>0, <3>4
    <3>7. fts'[b][<<p, file[b]>>] = 0
      BY <1>0 DEF Missing
    <3> QED BY <3>5, <3>6, <3>7
  <2> HIDE DEF S, T
  <2>7. IsFiniteSet(S) /\ Cardinality(S) \in Nat
    BY <2>4, MissingFinite
  <2>8. CASE outcome = "abandoned"
    <3>1. r.skipped = row[b].skipped + 1
      BY <1>0, <1>5, <2>8 DEF Skips, AtPage
    <3>2. IsFiniteSet(S \union {p}) /\ Cardinality(S \union {p}) <= Cardinality(S) + 1
      <4>1. IsFiniteSet(S \union {p}) /\ Cardinality(S \union {p}) =
              IF p \in S THEN Cardinality(S) ELSE Cardinality(S) + 1
        BY <2>7, FS_AddElement
      <4> QED BY <2>7, <4>1
    <3>3. Cardinality(T) <= Cardinality(S \union {p})
      BY <2>5, <3>2, FS_Subset
    <3>4. IsFiniteSet(T)
      BY <2>5, <3>2, FS_Subset
    <3>5. Cardinality(T) \in Nat /\ Cardinality(S \union {p}) \in Nat
      BY <3>2, <3>4, FS_CardinalityType
    <3>6. Cardinality(T) <= r.skipped
      BY ONLY <1>5, <2>1, <2>7, <3>1, <3>2, <3>3, <3>5
    <3> QED BY <1>2, <1>3, <3>6 DEF T
  <2>9. CASE outcome # "abandoned"
    <3>1. T \in SUBSET S
      BY <2>5, <2>6, <2>9 DEF T
    <3>2. Cardinality(T) \in Nat /\ Cardinality(T) <= Cardinality(S)
      BY <2>4, <3>1, MissingFinite
    <3>3. r.skipped = row[b].skipped
      BY <1>2, <2>9
    <3>4. Cardinality(T) <= r.skipped
      BY ONLY <1>5, <2>1, <2>7, <3>2, <3>3
    <3> QED BY <1>2, <1>3, <3>4 DEF T
  <2> QED BY <2>8, <2>9
<1>9. Told(b)'
  BY <1>0, <1>2, <1>3, <1>6, <1>8 DEF Told
<1> QED BY <1>0, <1>3, <1>4, <1>9, OthersTold

(* The last page is behind: every page of the book has been accounted for.  *)
LEMMA FinishTold ==
  ASSUME TypeOK, TypeOK', NoHangs, AllTold, NEW b \in Books, OcrFinish(b)
  PROVE  AllTold'
<1> DEFINE r == ReadByOcr(row[b], work[b].skipped)
<1>0. /\ row[b] \in Rows /\ work[b] \in Work /\ Told(b) /\ AtPage(b) /\ work[b].at > work[b].total
      /\ UNCHANGED <<file, run, todo, ocrOn>>
  BY DEF TypeOK, AllTold, Told, OcrFinish
<1>1. /\ r.hash = row[b].hash /\ r.error = "ocr" /\ ~r.pending
      /\ r.skipped = row[b].skipped
  BY <1>0 DEF ReadByOcr, Rows, AtPage
<1>2. CommitOrHang(b, r, fts[b])
  BY DEF OcrFinish
<1> HIDE DEF r
<1>3. row'[b] = r /\ fts'[b] = fts[b]
      /\ \A c \in Books \ {b} : row'[c] = row[c] /\ fts'[c] = fts[c]
  BY <1>2, CommitSure, CommitSureRows
<1>4. work'[b].step = "none" /\ \A c \in Books \ {b} : work'[c] = work[c]
  BY DEF OcrFinish, Leave, Resting, TypeOK
<1>5. Scanned(b)' = Scanned(b) /\ Missing(b)' = Missing(b)
  BY <1>0, <1>3 DEF Scanned, Missing
<1>6. ASSUME row[b].hash = file[b], Scanned(b).layer = "image"
      PROVE  Cardinality(Missing(b)) <= row[b].skipped
  <2>1. Scanned(b).pages <= row[b].done /\ row[b].done \in Nat
    <3>1. row[b].done \in Nat /\ work[b].total = Scanned(b).pages
          /\ work[b].at = row[b].done + 1 /\ Scanned(b).pages \in Nat
      BY <1>0, <1>6, ContentTypes DEF AtPage, Rows
    <3> QED BY <1>0, <3>1
  <2>2. ASSUME NEW q \in Missing(b) PROVE q <= row[b].done
    <3>1. q \in 1..Scanned(b).pages /\ Scanned(b).pages \in Nat
      BY ContentTypes DEF Missing
    <3> QED BY <2>1, <3>1
  <2>3. {q \in Missing(b) : q <= row[b].done} = Missing(b)
    BY <2>2
  <2> QED BY <1>0, <1>6, <2>3 DEF Told, Accounted, AtPage
<1>7. Accounted(b)'
  BY <1>0, <1>1, <1>3, <1>5, <1>6 DEF Accounted
<1>8. Told(b)'
  BY <1>0, <1>1, <1>3, <1>4, <1>7 DEF Told
<1> QED BY <1>0, <1>3, <1>4, <1>8, OthersTold

(* Whatever a book becomes, the pages search does not have are ones the user*)
(* is told were skipped: through replaced files, cancels, crashes, re-reads *)
(* and re-OCR requests at any point, as long as no commit hangs.            *)
THEOREM SkipsStayAccounted == ASSUME NoHangs PROVE Spec => []SkipsAccounted
<1>1. Init => AllTold
  <2> SUFFICES ASSUME Init, NEW b \in Books PROVE Told(b)
    BY DEF AllTold
  <2>1. /\ row[b] = Registered /\ file[b] = 1 /\ work[b].step = "none"
        /\ Registered.hash = 1 /\ ~Registered.indexed /\ ~Registered.pending
        /\ Registered.error = "" /\ run = "down" /\ ocrOn = FALSE
    BY DEF Init, Registered, Resting
  <2>2. Accounted(b)
    BY <2>1 DEF Accounted
  <2>3. row[b].hash <= file[b]
    <3>1. row[b].hash = 1 /\ file[b] = 1
      BY <2>1
    <3> QED BY <3>1
  <2>4. /\ ~row[b].pending /\ run # "ocr" /\ ~ocrOn /\ work[b].step # "page"
    BY <2>1
  <2> QED BY <2>2, <2>3, <2>4 DEF Told
<1>2. TypeOK /\ TypeOK' /\ AllTold /\ [Next]_vars => AllTold'
  <2> SUFFICES ASSUME TypeOK, TypeOK', AllTold, [Next]_vars PROVE AllTold'
    OBVIOUS
  <2>0. \A b \in Books : /\ row[b] \in Rows /\ work[b] \in Work /\ Told(b)
                         /\ row[b].hash <= file[b] /\ (run = "ocr" => ocrOn)
    BY DEF TypeOK, AllTold, Told
  <2>1. CASE Startup
    <3> SUFFICES ASSUME NEW b \in Books PROVE Told(b)'
      BY DEF AllTold
    <3>1. work'[b].step # "page" /\ run' # "ocr" /\ UNCHANGED <<file, fts>>
      BY <2>0, <2>1 DEF Startup, Told, AtPage
    <3>2. CASE ocrOn' /\ row[b].error = "image-only"
      <4>1. row'[b] = Requeued(row[b])
        BY <2>1, <3>2 DEF Startup
      <4> QED BY <2>0, <3>1, <4>1, ToldColumns, ToldAnew
    <3>3. CASE ~(ocrOn' /\ row[b].error = "image-only")
      <4>1. row'[b] = row[b]
        BY <2>1, <3>3 DEF Startup
      <4>2. Accounted(b)'
        BY <2>0, <3>1, <4>1 DEF Told, Accounted, Missing, Scanned
      <4> QED BY <2>0, <3>1, <3>3, <4>1, <4>2 DEF Told
    <3> QED BY <3>2, <3>3
  (* A commit of r and t for b, that takes b to no OCR page.                *)
  <2>2. ASSUME NEW b \in Books, NEW r, NEW t, CommitOrHang(b, r, t),
               UNCHANGED <<file, run, ocrOn>>, todo' \subseteq todo, work'[b].step # "page",
               \A c \in Books \ {b} : work'[c] = work[c],
               \/ ~r.indexed /\ r.done = 0 /\ r.error = "" /\ r.hash <= file[b]
               \/ /\ \A x \in PageNos \X Versions : t[x] >= fts[b][x]
                  /\ r.hash = row[b].hash /\ r.done = row[b].done
                  /\ r.skipped = row[b].skipped
                  /\ r.pending => row[b].pending
                  /\ r.indexed /\ r.error = "" =>
                       (row[b].indexed /\ row[b].error = "") \/ Missing(b)' = {}
                  /\ r.error = "ocr" => row[b].error = "ocr" /\ r.indexed = row[b].indexed
                  /\ r.error = "image-only" => row[b].error = "image-only" \/ ~ocrOn
        PROVE  AllTold'
    <3>0. row'[b] = r /\ \A c \in Books \ {b} : row'[c] = row[c]
      BY <2>2, CommitSure
    <3>1. /\ row'[b] = r /\ fts'[b] = t
          /\ \A c \in Books \ {b} : row'[c] = row[c] /\ fts'[c] = fts[c]
      BY <2>2, <3>0, CommitSureRows
    <3>2. CASE ~r.indexed /\ r.done = 0 /\ r.error = "" /\ r.hash <= file[b]
      <4>1. Told(b)'
        BY <2>0, <2>2, <3>1, <3>2, ToldAnew
      <4> QED BY <2>2, <3>1, <4>1, OthersTold
    <3>3. CASE ~(~r.indexed /\ r.done = 0 /\ r.error = "" /\ r.hash <= file[b])
      <4>1. Told(b)'
        BY <2>0, <2>2, <3>1, <3>3, ToldKept
      <4> QED BY <2>2, <3>1, <4>1, OthersTold
    <3> QED BY <3>2, <3>3
  <2>3. ASSUME NEW b \in Books, Leave(b)
        PROVE  work'[b].step = "none" /\ \A c \in Books \ {b} : work'[c] = work[c]
    BY <2>3 DEF Leave, Resting, TypeOK
  <2>4. \A b \in Books, x \in PageNos \X Versions : fts[b][x] >= fts[b][x]
    BY DEF TypeOK
  <2>5. ASSUME NEW b \in Books, ScanHashed(b) PROVE AllTold'
    <3> PICK digest \in {file[b]} \union (IF stop THEN {row[b].hash} ELSE {}) :
          LET signed == [row[b] EXCEPT !.stat = work[b].seen, !.hash = digest]
              replaced == digest # row[b].hash
          IN  CommitOrHang(b,
                IF replaced
                THEN [Cleared(signed) EXCEPT !.pending = @ /\ ~work[b].pending]
                ELSE signed,
                RowsAfter(b, replaced))
      BY <2>5 DEF ScanHashed
    <3> DEFINE signed == [row[b] EXCEPT !.stat = work[b].seen, !.hash = digest]
    <3> DEFINE cleared == [Cleared(signed) EXCEPT !.pending = @ /\ ~work[b].pending]
    <3>1. UNCHANGED <<file, run, todo, ocrOn>> /\ Leave(b)
      BY <2>5 DEF ScanHashed
    <3>2. CASE digest = row[b].hash
      <4>1. /\ signed.hash = row[b].hash /\ signed.done = row[b].done
            /\ signed.skipped = row[b].skipped /\ signed.pending = row[b].pending
            /\ signed.indexed = row[b].indexed /\ signed.error = row[b].error
        BY <2>0, <3>2 DEF Rows
      <4>2. CommitOrHang(b, signed, fts[b])
        BY <3>2 DEF RowsAfter
      <4> HIDE DEF signed
      <4> QED BY <2>2, <2>3, <2>4, <3>1, <4>1, <4>2
    <3>3. CASE digest # row[b].hash
      <4>1. /\ ~cleared.indexed /\ cleared.done = 0 /\ cleared.error = ""
            /\ cleared.hash = digest
        BY <2>0 DEF Rows, Cleared
      <4>2. digest <= file[b]
        BY <3>3, DigestOrder
      <4>3. CommitOrHang(b, cleared, NoText)
        BY <3>3 DEF RowsAfter
      <4> HIDE DEF cleared
      <4> QED BY <2>2, <2>3, <3>1, <4>1, <4>2, <4>3
    <3> QED BY <3>2, <3>3
  <2>6. ASSUME NEW b \in Books, IndexGuard(b) PROVE AllTold'
    <3>1. CASE Unsettled(b)
      <4> DEFINE r == [row[b] EXCEPT !.failed = TRUE]
      <4>1. /\ r.hash = row[b].hash /\ r.done = row[b].done
            /\ r.skipped = row[b].skipped /\ r.pending = row[b].pending
            /\ r.indexed = row[b].indexed /\ r.error = row[b].error
        BY <2>0 DEF Rows
      <4>2. CommitOrHang(b, r, fts[b]) /\ UNCHANGED <<file, run, todo, ocrOn>>
        BY <2>6, <3>1 DEF IndexGuard
      <4>3. work'[b].step = "extract" /\ \A c \in Books \ {b} : work'[c] = work[c]
        BY <2>0, <2>6, <3>1 DEF IndexGuard, Goto, Work, TypeOK
      <4> HIDE DEF r
      <4> QED BY <2>2, <2>4, <4>1, <4>2, <4>3
    <3>2. CASE ~Unsettled(b)
      <4>1. UNCHANGED <<file, row, fts, ocrOn, run, todo>> /\ Leave(b)
        BY <2>6, <3>2 DEF IndexGuard
      <4> QED BY <2>3, <4>1, QuietTold
    <3> QED BY <3>1, <3>2
  <2>7. ASSUME NEW b \in Books, SingleReset(b) PROVE AllTold'
    <3> PICK digest \in {file[b]} \union (IF stop THEN {row[b].hash} ELSE {}) :
          CommitOrHang(b,
            [Cleared(row[b]) EXCEPT !.pending = FALSE, !.stat = work[b].seen, !.hash = digest],
            NoText)
      BY <2>7 DEF SingleReset
    <3> DEFINE cleared ==
          [Cleared(row[b]) EXCEPT !.pending = FALSE, !.stat = work[b].seen, !.hash = digest]
    <3>1. /\ ~cleared.indexed /\ cleared.done = 0 /\ cleared.error = ""
          /\ cleared.hash = digest
      BY <2>0 DEF Rows, Cleared
    <3>2. digest <= file[b] /\ UNCHANGED <<file, run, todo, ocrOn>>
      BY <2>0, <2>7, DigestOrder DEF SingleReset
    <3>3. work'[b].step = "index" /\ \A c \in Books \ {b} : work'[c] = work[c]
      BY <2>0, <2>7 DEF SingleReset, Goto, Work, TypeOK
    <3>4. CommitOrHang(b, cleared, NoText)
      OBVIOUS
    <3> HIDE DEF cleared
    <3> QED BY <2>2, <3>1, <3>2, <3>3, <3>4
  <2>8. ASSUME NEW b \in Books, ExtractCancelled(b) \/ ExtractFailed(b) PROVE AllTold'
    <3> PICK r : r \in {[row[b] EXCEPT !.failed = FALSE], Failed(row[b])}
                 /\ Extracted(b, r, fts[b])
      BY <2>8 DEF ExtractCancelled, ExtractFailed
    <3>1. /\ r.hash = row[b].hash /\ r.done = row[b].done /\ r.skipped = row[b].skipped
          /\ r.pending = row[b].pending
          /\ r.error = "failure" \/ (r.error = row[b].error /\ r.indexed = row[b].indexed)
      <4>1. CASE r = [row[b] EXCEPT !.failed = FALSE]
        BY <2>0, <4>1 DEF Rows
      <4>2. CASE r = Failed(row[b])
        BY <2>0, <4>2, ToldColumns
      <4> QED BY <4>1, <4>2
    <3> QED BY <2>2, <2>3, <2>4, <3>1 DEF Extracted
  <2>9. ASSUME NEW b \in Books, ExtractEmpty(b) PROVE AllTold'
    <3>1. CASE ocrOn
      <4>1. Extracted(b, Requeued(row[b]), fts[b])
        BY <2>9, <3>1 DEF ExtractEmpty
      <4>2. /\ ~Requeued(row[b]).indexed /\ Requeued(row[b]).done = 0
            /\ Requeued(row[b]).error = "" /\ Requeued(row[b]).hash <= file[b]
        BY <2>0, ToldColumns
      <4> QED BY <2>2, <2>3, <4>1, <4>2 DEF Extracted
    <3>2. CASE ~ocrOn
      <4> DEFINE r == [row[b] EXCEPT !.indexed = TRUE, !.failed = FALSE, !.error = "image-only"]
      <4>1. /\ r.hash = row[b].hash /\ r.done = row[b].done /\ r.skipped = row[b].skipped
            /\ r.pending = row[b].pending /\ r.error = "image-only"
        BY <2>0 DEF Rows
      <4>2. Extracted(b, r, fts[b])
        BY <2>9, <3>2 DEF ExtractEmpty
      <4> HIDE DEF r
      <4> QED BY <2>2, <2>3, <2>4, <3>2, <4>1, <4>2 DEF Extracted
    <3> QED BY <3>1, <3>2
  <2>10. ASSUME NEW b \in Books, ExtractText(b) PROVE AllTold'
    <3> DEFINE P == (1..Scanned(b).pages) \ Scanned(b).blank
    <3> DEFINE r == [row[b] EXCEPT !.indexed = TRUE, !.failed = FALSE, !.error = ""]
    <3> DEFINE t == WithPages(fts[b], P, file[b])
    <3>0. fts[b] \in [PageNos \X Versions -> Nat] /\ file[b] \in Versions
      BY DEF TypeOK
    <3>1. /\ r.hash = row[b].hash /\ r.done = row[b].done /\ r.skipped = row[b].skipped
          /\ r.pending = row[b].pending /\ r.error = ""
      BY <2>0 DEF Rows
    <3>2. CommitOrHang(b, r, t) /\ Leave(b) /\ UNCHANGED <<file, run, todo, ocrOn>>
      BY <2>10 DEF ExtractText, Extracted
    <3>3. \A x \in PageNos \X Versions :
            /\ fts[b][x] \in Nat /\ (t[x] = fts[b][x] \/ t[x] = fts[b][x] + 1)
            /\ x[1] \in P /\ x[2] = file[b] => t[x] = fts[b][x] + 1
      BY <3>0 DEF WithPages
    <3>4. ASSUME NEW x \in PageNos \X Versions PROVE t[x] >= fts[b][x]
      <4>1. fts[b][x] \in Nat /\ (t[x] = fts[b][x] \/ t[x] = fts[b][x] + 1)
        BY <3>3
      <4> HIDE DEF t
      <4> QED BY <4>1
    <3>5. fts'[b] = t
      BY <3>2, CommitSureRows
    <3>6. Missing(b)' = {}
      <4> SUFFICES ASSUME NEW p \in Missing(b)' PROVE FALSE
        OBVIOUS
      <4>1. Scanned(b)' = Scanned(b)
        BY <3>2 DEF Scanned
      <4>2. p \in P /\ fts'[b][<<p, file[b]>>] = 0
        BY <3>2, <4>1 DEF Missing
      <4>3. p \in PageNos
        BY <4>2, ContentTypes, IndexingAssumption DEF Contents, PageNos
      <4>4. /\ <<p, file[b]>> \in PageNos \X Versions
            /\ <<p, file[b]>>[1] = p /\ <<p, file[b]>>[2] = file[b]
        BY <3>0, <4>3
      <4>5. fts[b][<<p, file[b]>>] \in Nat /\ t[<<p, file[b]>>] = fts[b][<<p, file[b]>>] + 1
        BY <3>3, <4>2, <4>4
      <4> QED BY <3>5, <4>2, <4>5
    <3> HIDE DEF P, r, t
    <3> QED BY <2>2, <2>3, <3>1, <3>2, <3>4, <3>6
  <2>11. ASSUME NEW b \in Books, OcrPick(b) PROVE AllTold'
    <3>0. UNCHANGED <<file, run, ocrOn>> /\ run = "ocr" /\ todo' = todo \ {b}
      BY <2>11 DEF OcrPick
    <3>1. CASE UNCHANGED <<row, fts, work>>
      BY <3>0, <3>1, QuietTold
    <3>2. CASE /\ row[b].pending /\ UNCHANGED <<row, fts>>
               /\ work' = [work EXCEPT ![b] =
                      [Resting EXCEPT !.step = "page", !.at = row[b].done + 1,
                                      !.total = Scanned(b).pages,
                                      !.skipped = row[b].skipped]]
      <4> DEFINE w == [Resting EXCEPT !.step = "page", !.at = row[b].done + 1,
                                      !.total = Scanned(b).pages, !.skipped = row[b].skipped]
      <4>1. w.at = row[b].done + 1 /\ w.skipped = row[b].skipped /\ w.total = Scanned(b).pages
        BY DEF Resting
      <4>2. work'[b] = w /\ \A c \in Books \ {b} : work'[c] = work[c]
        BY <3>2 DEF TypeOK
      <4> HIDE DEF w
      <4>3. Scanned(b)' = Scanned(b) /\ Missing(b)' = Missing(b)
        BY <3>0, <3>2 DEF Scanned, Missing
      <4>4. Told(b)'
        BY <2>0, <3>0, <3>2, <4>1, <4>2, <4>3 DEF Told, Accounted, AtPage
      <4> QED BY <3>0, <3>2, <4>2, <4>4, OthersTold
    <3>3. CASE CommitOrHang(b, [Failed(row[b]) EXCEPT !.pending = FALSE], fts[b])
               /\ UNCHANGED work
      <4> DEFINE r == [Failed(row[b]) EXCEPT !.pending = FALSE]
      <4>1. /\ r.hash = row[b].hash /\ r.done = row[b].done /\ r.skipped = row[b].skipped
            /\ ~r.pending /\ r.error = "failure"
        BY <2>0 DEF Rows, Failed
      <4>2. CommitOrHang(b, r, fts[b]) /\ UNCHANGED work
        BY <3>3
      <4> HIDE DEF r
      <4>3. work[b].step # "page"
        BY <2>0, <2>11 DEF OcrPick, Told, AtPage
      <4> QED BY <2>2, <2>4, <3>0, <4>1, <4>2, <4>3
    <3> QED BY <2>11, <3>1, <3>2, <3>3 DEF OcrPick
  <2>12. ASSUME NEW b \in Books, OcrPage(b) PROVE AllTold'
    BY <2>12, PageTold
  <2>13. ASSUME NEW b \in Books, OcrFinish(b) PROVE AllTold'
    BY <2>13, FinishTold
  <2>14. ASSUME NEW b \in Books, OcrError(b) PROVE AllTold'
    <3> DEFINE r == [Failed(row[b]) EXCEPT !.pending = FALSE]
    <3>1. /\ r.hash = row[b].hash /\ r.done = row[b].done /\ r.skipped = row[b].skipped
          /\ ~r.pending /\ r.error = "failure"
      BY <2>0 DEF Rows, Failed
    <3>2. CommitOrHang(b, r, fts[b]) /\ Leave(b) /\ UNCHANGED <<file, run, todo, ocrOn>>
      BY <2>14 DEF OcrError, CommitOrHang, rest, TypeOK
    <3> HIDE DEF r
    <3> QED BY <2>2, <2>3, <2>4, <3>1, <3>2
  <2>15. ASSUME NEW b \in Books, RequestReocr(b) PROVE AllTold'
    <3>1. work[b].step # "page"
      BY <2>0, <2>15 DEF RequestReocr, Told, AtPage
    <3>2. /\ row'[b] = Requeued(row[b]) /\ \A c \in Books \ {b} : row'[c] = row[c]
          /\ fts'[b] = NoText /\ \A c \in Books \ {b} : fts'[c] = fts[c]
          /\ UNCHANGED <<file, run, todo, work, ocrOn>>
      BY <2>15 DEF RequestReocr, TypeOK
    <3>3. Told(b)'
      BY <2>0, <3>1, <3>2, ToldColumns, ToldAnew
    <3> QED BY <3>2, <3>3, OthersTold
  <2>16. ASSUME NEW b \in Books, ReplaceFile(b) PROVE AllTold'
    BY <2>16, ReplacedTold
  <2>17. ASSUME NEW b \in Books,
                \/ ScanUnchanged(b) \/ ScanHash(b) \/ IndexPick(b) \/ OcrStopped(b)
                \/ RescanSingle(b) \/ TriggerOcr(b)
         PROVE  AllTold'
    <3>1. CASE ScanUnchanged(b) \/ TriggerOcr(b)
      BY <3>1, QuietTold DEF ScanUnchanged, TriggerOcr, rest
    <3>2. CASE ScanHash(b) \/ IndexPick(b) \/ OcrStopped(b) \/ RescanSingle(b)
      <4>1. work'[b].step # "page" /\ \A c \in Books \ {b} : work'[c] = work[c]
        <5>1. CASE ScanHash(b)
          BY <5>1 DEF ScanHash, Resting, TypeOK
        <5>2. CASE IndexPick(b)
          BY <2>0, <5>2 DEF IndexPick, Goto, Work, TypeOK
        <5>3. CASE OcrStopped(b)
          BY <2>3, <5>3 DEF OcrStopped
        <5>4. CASE RescanSingle(b)
          BY <5>4 DEF RescanSingle, Resting, TypeOK
        <5> QED BY <3>2, <5>1, <5>2, <5>3, <5>4
      <4>2. /\ UNCHANGED <<file, row, fts, ocrOn>>
            /\ (run' = run /\ todo' \subseteq todo) \/ (run # "ocr" /\ run' # "ocr")
        BY <3>2 DEF ScanHash, IndexPick, OcrStopped, RescanSingle, rest
      <4> QED BY <4>1, <4>2, QuietTold
    <3> QED BY <2>17, <3>1, <3>2
  <2>18. CASE \/ Rescan \/ EndScan \/ EnterOcr \/ EndOcr \/ Cancel \/ Crash \/ UNCHANGED vars
    <3>1. CASE Rescan \/ EndScan \/ EnterOcr \/ Cancel \/ UNCHANGED vars
      BY <3>1, QuietTold DEF Rescan, EndScan, EnterOcr, Cancel, rest, vars
    <3>2. CASE EndOcr
      BY <3>2, QuietTold DEF EndOcr, Busy, rest
    <3>3. CASE Crash
      BY <3>3, QuietTold DEF Crash, Resting
    <3> QED BY <2>18, <3>1, <3>2, <3>3
  <2> QED
    BY <2>1, <2>5, <2>6, <2>7, <2>8, <2>9, <2>10, <2>11, <2>12, <2>13, <2>14, <2>15, <2>16,
       <2>17, <2>18
    DEF Next, RunStep, Others
<1>3. AllTold => SkipsAccounted
  BY DEF AllTold, Told, Accounted, SkipsAccounted
<1> QED BY <1>1, <1>2, <1>3, TypeCorrect, PTL DEF Spec
=============================================================================
