--------------------------- MODULE AudiobookEditor ---------------------------
(***************************************************************************)
(* EditAudiobookMetadataModal: the metadata of an audiobook, filled in by   *)
(* hand or from a look-up; the conversion of mp3s to one m4b; the detection *)
(* of chapters in the audio and the review of what it found. Both jobs are  *)
(* polled: two seconds, a request, its answer.                              *)
(***************************************************************************)
EXTENDS Integers, FiniteSets, SequencesExt, Arrays

CONSTANTS
  Duration,  \* of the audiobook; a minute is 1
  MaxRows    \* bound: rows added by hand; searching, saving and applying are bounded to one at a time

VARIABLES
  mp3,       \* isMp3, or else an m4a or m4b
  open,      \* whether the modal is
  picked,    \* pickedKey: a candidate of the look-up fills the draft
  busy,      \* requests under way that block their own button: searching, saving, applying
  joined,    \* selectedSiblingIds
  convert,   \* the poll of the conversion, and pickedKey when it was started
  detect,    \* the polls of chapter detection, and detectAutoApply of each
  review,    \* proposedChapters, or no list
  typing,    \* a time being typed into a row's field
  nextKey,   \* nextManualKeyRef
  sent       \* chapters on their way to the server

bVars == <<mp3, open, picked, busy, joined, convert, detect, review, typing, nextKey, sent>>

Times == 0..Duration
NoList == [list |-> FALSE, rows |-> <<>>]
NotTyping == [key |-> 0, time |-> -1]
Polls == {"timer", "asked"}
Off == [at |-> "off", picked |-> FALSE]

Row(key, titled, start) == [key |-> key, titled |-> titled, start |-> start]
ReviewRows == [key : Int, titled : BOOLEAN, start : Times]
Keys(rows) == {r.key : r \in ToSet(rows)}
Titled(rows) == Filtered(rows, {r \in ToSet(rows) : r.titled})
ByStart(s) == Sorted(s, [i \in DOMAIN s |-> s[i].start])

(* Each row ends where the next begins, the last at the end of the book.    *)
Ended(s) ==
  [i \in DOMAIN s |-> [start |-> s[i].start, end |-> IF i < Len(s) THEN s[i + 1].start ELSE Duration]]

(* Deviation: the rows are taken in the order they are listed.              *)
ForApplyAsListed(rows) == Ended(Titled(rows))

(* buildChaptersForApply                                                    *)
ForApply(rows) == Ended(ByStart(Titled(rows)))

(* What detection lists when chapters begin at these times.                 *)
Found(starts) ==
  LET times == SetToSeq(starts)
      s == Sorted(times, times)
  IN [i \in DOMAIN s |-> Row(i - 1, TRUE, s[i])]

EditorTypeOK ==
  /\ mp3 \in BOOLEAN /\ open \in BOOLEAN /\ picked \in BOOLEAN /\ joined \in BOOLEAN
  /\ busy \subseteq {"search", "save", "apply"}
  /\ convert \in [at : Polls, picked : BOOLEAN] \union {Off}
  /\ detect \subseteq [at : Polls, auto : BOOLEAN, n : 1..2]
  /\ review \in [list : BOOLEAN, rows : Seq(ReviewRows)] /\ Len(review.rows) <= MaxRows + Duration + 1
  /\ Cardinality(Keys(review.rows)) = Len(review.rows)
  /\ nextKey \in -MaxRows - 1..-1
  /\ typing \in [key : Keys(review.rows), time : Times] \union {NotTyping}

Init ==
  /\ mp3 \in BOOLEAN /\ open = TRUE /\ picked = FALSE /\ busy = {} /\ joined = FALSE /\ convert = Off /\ detect = {}
  /\ review = NoList /\ typing = NotTyping /\ nextKey = -1 /\ sent = <<>>

-----------------------------------------------------------------------------
(* Metadata                                                                 *)

Search ==
  /\ open /\ busy = {} /\ busy' = busy \union {"search"}
  /\ UNCHANGED <<open, picked, joined, convert, detect, review, typing, nextKey, sent>>
Searched ==
  /\ "search" \in busy /\ busy' = busy \ {"search"}
  /\ UNCHANGED <<open, picked, joined, convert, detect, review, typing, nextKey, sent>>

ApplyCandidate ==
  /\ open /\ picked' = TRUE
  /\ UNCHANGED <<open, busy, joined, convert, detect, review, typing, nextKey, sent>>

Save ==
  /\ open /\ busy = {} /\ busy' = busy \union {"save"}
  /\ UNCHANGED <<open, picked, joined, convert, detect, review, typing, nextKey, sent>>

(* The modal goes, its timers with it; a request it has sent goes on.       *)
Shutting ==
  /\ open /\ open' = FALSE /\ picked' = FALSE /\ joined' = FALSE /\ review' = NoList /\ typing' = NotTyping
  /\ detect' = {d \in detect : d.at = "asked"}
  /\ busy' = busy \intersect {"apply"}

(* Saved: the page closes the modal. Failed: it stays.                      *)
Saved ==
  /\ "save" \in busy
  /\ \/ Shutting /\ convert' = IF convert.at = "timer" THEN Off ELSE convert
     \/ busy' = busy \ {"save"} /\ UNCHANGED <<open, picked, joined, review, typing, detect, convert>>
  /\ UNCHANGED <<nextKey, sent>>
Close ==
  /\ Shutting /\ convert' = IF convert.at = "timer" THEN Off ELSE convert
  /\ UNCHANGED <<nextKey, sent>>

-----------------------------------------------------------------------------
(* Conversion                                                               *)

ToggleSibling ==
  /\ open /\ mp3 /\ joined' = ~joined
  /\ UNCHANGED <<open, picked, busy, convert, detect, review, typing, nextKey, sent>>

Converting(c) == convert' = c /\ UNCHANGED <<open, picked, busy, joined, detect, review, typing, nextKey, sent>>

(* Every poll is a closure of the render that started the conversion.       *)
StartConversion == open /\ mp3 /\ convert = Off /\ Converting([at |-> "timer", picked |-> picked])
PollConversion == convert.at = "timer" /\ Converting([convert EXCEPT !.at = "asked"])
ConversionRunning == convert.at = "asked" /\ Converting([convert EXCEPT !.at = "timer"])
ConversionFailed == convert.at = "asked" /\ Converting(Off)

(* Done: what was picked is written to the new audiobook, and the page goes *)
(* there: the modal closes.                                                 *)
ConversionDone ==
  /\ convert.at = "asked" /\ convert' = Off
  /\ IF open THEN Shutting ELSE UNCHANGED <<open, picked, busy, joined, detect, review, typing>>
  /\ UNCHANGED <<nextKey, sent>>

-----------------------------------------------------------------------------
(* Detection                                                                *)

Detecting(d) == detect' = d /\ UNCHANGED <<open, picked, busy, joined, convert, nextKey, sent>>
Job(auto, n) == [at |-> "timer", auto |-> auto, n |-> n]

StartDetection ==
  /\ open /\ ~mp3 /\ ~review.list /\ detect = {} /\ review' = NoList /\ typing' = NotTyping
  /\ \E auto \in BOOLEAN : Detecting({Job(auto, 1)})

PollDetection ==
  \E d \in detect : /\ d.at = "timer" /\ UNCHANGED <<review, typing>>
                    /\ Detecting((detect \ {d}) \union {[d EXCEPT !.at = "asked"]})

(* The answer: running, failed or cancelled, or done with these chapters,   *)
(* which the server has stored if it was told to.                           *)
Answered(d) ==
  /\ d.at = "asked"
  /\ \/ UNCHANGED <<review, typing>> /\ Detecting((detect \ {d}) \union {[d EXCEPT !.at = "timer"]})
     \/ UNCHANGED <<review, typing>> /\ Detecting(detect \ {d})
     \/ /\ Detecting(detect \ {d})
        /\ IF d.auto \/ ~open THEN UNCHANGED <<review, typing>>
           ELSE \E starts \in SUBSET (0..Duration - 1) : review' = [list |-> TRUE, rows |-> Found(starts)] /\ UNCHANGED typing

-----------------------------------------------------------------------------
(* Review                                                                   *)

Rows(rows) ==
  /\ open /\ review.list /\ review' = [review EXCEPT !.rows = rows]
  /\ UNCHANGED <<open, picked, busy, joined, convert, detect, sent>>
Edited(key, field, value) ==
  LET rows == review.rows
  IN /\ Rows([i \in DOMAIN rows |-> IF rows[i].key = key THEN [rows[i] EXCEPT ![field] = value] ELSE rows[i]])
     /\ UNCHANGED nextKey
Idle == typing = NotTyping /\ UNCHANGED typing

(* A time is typed, and parsed when the field is left, which any click of   *)
(* the modal does; a title is typed or cleared.                             *)
TypeTime(key, time) ==
  /\ open /\ review.list /\ typing = NotTyping /\ typing' = [key |-> key, time |-> time]
  /\ UNCHANGED <<open, picked, busy, joined, convert, detect, review, nextKey, sent>>
LeaveTime(key) ==
  typing.key = key /\ typing # NotTyping /\ typing' = NotTyping /\ Edited(key, "start", typing.time)
TypeTitle(key, titled) == Idle /\ Edited(key, "titled", titled)
RemoveRow(key) == Idle /\ Rows(Filtered(review.rows, {r \in ToSet(review.rows) : r.key # key})) /\ UNCHANGED nextKey

(* A row a minute after the last start.                                     *)
AddRow ==
  LET starts == {r.start : r \in ToSet(review.rows)}
      at == IF starts = {} THEN 0 ELSE Max(starts) + 1
  IN /\ Idle /\ nextKey > -MaxRows - 1 /\ at \in Times
     /\ Rows(Append(review.rows, Row(nextKey, FALSE, at))) /\ nextKey' = nextKey - 1

Discard ==
  /\ open /\ review.list /\ review' = NoList /\ typing' = NotTyping
  /\ UNCHANGED <<open, picked, busy, joined, convert, detect, nextKey, sent>>

Apply ==
  /\ open /\ review.list /\ busy = {} /\ Titled(review.rows) # <<>>
  /\ Idle
  /\ busy' = busy \union {"apply"} /\ sent' = ForApply(review.rows)
  /\ UNCHANGED <<open, picked, joined, convert, detect, review, nextKey>>
Applied ==
  /\ "apply" \in busy /\ busy' = busy \ {"apply"} /\ sent' = <<>>
  /\ (review' = NoList /\ typing' = NotTyping) \/ UNCHANGED <<review, typing>>
  /\ UNCHANGED <<open, picked, joined, convert, detect, nextKey>>

-----------------------------------------------------------------------------
(* What each part of the modal offers                                       *)

Form == Save \/ Close
Lookup == Search \/ ApplyCandidate
Convert == ToggleSibling \/ StartConversion
ReviewRow(key) == \/ \E time \in Times : TypeTime(key, time)
                  \/ LeaveTime(key) \/ RemoveRow(key) \/ \E titled \in BOOLEAN : TypeTitle(key, titled)
Detect == StartDetection \/ (\E key \in Keys(review.rows) : ReviewRow(key)) \/ AddRow \/ Discard \/ Apply

Step == \/ Form \/ Lookup \/ Convert \/ Detect
        \/ Searched \/ Saved \/ Applied
        \/ PollConversion \/ ConversionRunning \/ ConversionFailed \/ ConversionDone
        \/ PollDetection \/ (\E d \in detect : Answered(d))

Next == Step /\ UNCHANGED mp3

Spec == Init /\ [][Next]_bVars

-----------------------------------------------------------------------------
(* Why it holds                                                             *)

(* What is on its way is in order when it leaves, so that the server, which *)
(* sorts it again, keeps it as it is.                                       *)
SentInOrder ==
  \A i \in DOMAIN sent : /\ \A j \in DOMAIN sent : i < j => sent[i].start <= sent[j].start
                         /\ sent[i].end = IF i < Len(sent) THEN sent[i + 1].start ELSE Duration

-----------------------------------------------------------------------------
(* Properties                                                               *)

(* Whatever rows are added, retimed, untitled and removed, the chapters     *)
(* sent follow each other without gaps, in the order the server keeps them, *)
(* to the end of the book (EditAudiobookMetadataModal.jsx:447).             *)
ChaptersTile ==
  LET kept == ByStart(sent)
  IN \A i \in DOMAIN kept : kept[i].end = IF i < Len(kept) THEN kept[i + 1].start ELSE Duration
=============================================================================
