------------------------------- MODULE Reader -------------------------------
(***************************************************************************)
(* The book reader (ReaderView): the page, the reading mode and the pairing *)
(* of pages in a spread, the jumps of its side panels and the history they  *)
(* leave, the bookmark that is being made, and the zoom of the page.        *)
(***************************************************************************)
EXTENDS Integers, Sequences, FiniteSets, FiniteSetsExt

CONSTANTS
  PageCount,   \* page_count of each version of the book
  MaxHistory,  \* bound: entries the reader leaves in the browser's history
  MaxMarks,    \* bound: bookmarks
  MaxAsked     \* bound: searches and writes under way

VARIABLES
  book, loaded,        \* the version that is read, and whether it has come
  page, mode, offset,  \* currentPage, mode, spreadOffset
  came,                \* history: opened here, or by goToPage
  urls, push,          \* the pages in the history, the address last; pushNextRef
  zoom,                \* in steps
  panel, found,        \* the side panel; in search: whether one is under way, and listed
  marks, edited,       \* how many bookmarks there are; one is edited in the panel
  pending, saves       \* the bookmark dialog is open; writes of bookmarks under way

placeVars == <<book, loaded, page, mode, offset, came, urls, push, zoom>>
panelVars == <<panel, found, edited>>
rVars == <<placeVars, panelVars, marks, pending, saves>>

Versions == DOMAIN PageCount
totalPages == IF loaded THEN PageCount[book] ELSE 0
MaxPage == Max({PageCount[b] : b \in Versions})
AllPages == 1..MaxPage
Zooms == 1..2         \* MIN_ZOOM, and beyond
Free == Cardinality(found \intersect {"asked"}) + Cardinality(saves) < MaxAsked
Panels == {"none", "toc", "bookmarks", "search", "details"}

ReaderTypeOK ==
  /\ book \in Versions /\ loaded \in BOOLEAN /\ page \in AllPages
  /\ mode \in {"page", "spread", "pdf"} /\ offset \in {0, 1} /\ came \in {"opened", "gone to"}
  /\ urls \in Seq(AllPages) /\ Len(urls) \in 1..MaxHistory /\ push \in BOOLEAN /\ zoom \in Zooms
  /\ panel \in Panels /\ found \subseteq {"asked", "listed"} /\ marks \in 0..MaxMarks
  /\ edited \in BOOLEAN /\ pending \in BOOLEAN /\ saves \subseteq {"add", "edit", "remove"}

-----------------------------------------------------------------------------
(* Opening                                                                  *)

(* The reader is mounted at a page: the one in the address, or the one that *)
(* was read last, in a mode and a pairing that were chosen last.            *)
Opens(b, p) ==
  /\ book' = b /\ loaded' = FALSE /\ page' = p /\ urls' = <<p>> /\ push' = FALSE /\ came' = "opened"
  /\ mode' \in {"page", "spread", "pdf"} /\ offset' \in {0, 1} /\ zoom' = 1
  /\ panel' = "none" /\ found' = {} /\ edited' = FALSE /\ pending' = FALSE /\ saves' = {}

Init ==
  /\ book \in Versions /\ page \in 1..PageCount[book] /\ urls = <<page>> /\ push = FALSE /\ came = "opened"
  /\ loaded = FALSE /\ mode \in {"page", "spread", "pdf"} /\ offset \in {0, 1} /\ zoom = 1
  /\ panel = "none" /\ found = {} /\ edited = FALSE
  /\ marks = 0 /\ pending = FALSE /\ saves = {}

BookArrives == ~loaded /\ loaded' = TRUE
               /\ UNCHANGED <<book, page, mode, offset, came, urls, push, zoom, panelVars, marks, pending, saves>>

(* ReaderVariantItems: another version, at the page of the address; without *)
(* one, where that version was read last.                                   *)
SwitchVersion(b) ==
  /\ loaded /\ b # book
  /\ \E p \in 1..PageCount[b] : Opens(b, IF urls[Len(urls)] > 1 THEN urls[Len(urls)] ELSE p)
  /\ UNCHANGED marks

-----------------------------------------------------------------------------
(* Pages                                                                    *)

(* Deviation: the page is not moved to the left one of its spread.          *)
LandedUnsnapped(p, m, o) == Max({1, Min({p, totalPages})})

(* goToPage: within the book, and in a spread on its left page.             *)
Landed(p, m, o) ==
  LET q == Max({1, Min({p, totalPages})})
      isLeftPage == IF o = 1 THEN q % 2 # 0 ELSE q % 2 = 0 \/ q = 1
  IN IF m = "spread" /\ ~isLeftPage THEN q - 1 ELSE q

(* goToPage and the effects of a change of page or mode: the zoom is reset, *)
(* and the address is replaced, or pushed after a jump. A jump to the page  *)
(* one is on leaves pushNextRef for the next turn.                          *)
GoesTo(p, m, o, jump) ==
  /\ loaded /\ mode' = m /\ offset' = o
  /\ page' = Landed(p, m, o) /\ came' = "gone to"
  /\ LET pushing == push \/ jump IN
     IF page' # page \/ m # mode
     THEN /\ push' = FALSE
          /\ pushing => Len(urls) < MaxHistory
          /\ urls' = Append(IF pushing THEN urls ELSE SubSeq(urls, 1, Len(urls) - 1), page')
     ELSE push' = pushing /\ UNCHANGED urls
  /\ zoom' = IF page' # page THEN 1 ELSE zoom
  /\ UNCHANGED <<book, loaded, marks, pending, saves>>

(* The pages on the screen: the ones whose text and words are fetched.      *)
hasRight == mode = "spread" /\ (offset = 1 \/ page # 1) /\ page + 1 <= totalPages
Visible == IF hasRight THEN {page, page + 1} ELSE {page}

step == IF mode = "spread" THEN 2 ELSE 1
(* The arrow keys, the wheel, a swipe, and the toolbar's buttons.           *)
Turn(d) == mode # "pdf" /\ GoesTo(page + d * step, mode, offset, FALSE) /\ UNCHANGED panelVars
(* The page number typed in the toolbar.                                    *)
CommitPage(p) == mode # "pdf" /\ GoesTo(p, mode, offset, FALSE) /\ UNCHANGED panelVars
Jump(p) == GoesTo(p, mode, offset, TRUE) /\ UNCHANGED panelVars

(* The menu's modes: an effect moves the page to its spread's left page.    *)
SetMode(m) ==
  /\ loaded /\ m # mode /\ UNCHANGED panelVars
  /\ IF m = "spread" THEN GoesTo(page, m, offset, FALSE)
     ELSE /\ mode' = m /\ push' = FALSE /\ (push => Len(urls) < MaxHistory)
          /\ urls' = Append(IF push THEN urls ELSE SubSeq(urls, 1, Len(urls) - 1), page)
          /\ UNCHANGED <<book, loaded, page, offset, came, zoom, marks, pending, saves>>
PairCover == mode = "spread" /\ GoesTo(page, mode, 1 - offset, FALSE) /\ UNCHANGED panelVars

(* The browser's back button: the address changes, and nothing reads it.    *)
BrowserBack ==
  /\ Len(urls) > 1 /\ urls' = SubSeq(urls, 1, Len(urls) - 1)
  /\ UNCHANGED <<book, loaded, page, mode, offset, came, push, zoom, panelVars, marks, pending, saves>>

(* The buttons and keys of the zoom, the wheel and a pinch.                 *)
ZoomTo(z) ==
  /\ loaded /\ mode # "pdf" /\ z \in Zooms /\ zoom' = z
  /\ UNCHANGED <<book, loaded, page, mode, offset, came, urls, push, panelVars, marks, pending, saves>>

-----------------------------------------------------------------------------
(* Panels                                                                   *)

Opening(p) == panel' = p /\ found' = {} /\ edited' = FALSE /\ UNCHANGED <<placeVars, marks, pending, saves>>
TogglePanel(p) == loaded /\ Opening(IF panel = p THEN "none" ELSE p)
ClosePanel == panel # "none" /\ Opening("none")

(* handleInput, and doSearch when the typing pauses.                        *)
Finding(f) == found' = f /\ UNCHANGED <<placeVars, panel, edited, marks, pending, saves>>
Type == panel = "search" /\ Free /\ Finding(found \union {"asked"})
Searched == "asked" \in found /\ (Finding({"listed"}) \/ Finding(found \ {"asked"}))

JumpAnywhere == \E p \in 1..totalPages : Jump(p)
TocSidebar == panel = "toc" /\ (ClosePanel \/ JumpAnywhere)
DetailsSidebar == panel = "details" /\ ClosePanel
SearchSidebar == panel = "search" /\ (ClosePanel \/ Type \/ ("listed" \in found /\ JumpAnywhere))

(* BookmarkSidebar: startEdit, saveEdit, cancelEdit, handleDelete.          *)
Marking(e, s) == edited' = e /\ saves' = s /\ UNCHANGED <<placeVars, panel, found, marks, pending>>
StartEdit == ~edited /\ Marking(TRUE, saves)
SaveEdit == edited /\ Free /\ Marking(edited, saves \union {"edit"})
CancelEdit == edited /\ Marking(FALSE, saves)
DeleteMark == Free /\ Marking(edited, saves \union {"remove"})
MarkRow == marks > 0 /\ (StartEdit \/ DeleteMark \/ JumpAnywhere)
BookmarkSidebar == panel = "bookmarks" /\ (ClosePanel \/ MarkRow \/ SaveEdit \/ CancelEdit)

(* saveBookmark is answered, and closes the dialog that is open by then; an *)
(* edit closes the row that is edited by then.                              *)
MarkWritten(s) ==
  /\ s \in saves /\ saves' = saves \ {s}
  /\ marks' = CASE s = "add" -> marks + 1 [] s = "remove" -> marks - 1 [] OTHER -> marks
  /\ pending' = (pending /\ s # "add")
  /\ edited' = (edited /\ s # "edit" /\ marks' > 0)
  /\ UNCHANGED <<placeVars, panel, found>>
MarkFails(s) == s \in saves /\ saves' = saves \ {s} /\ UNCHANGED <<placeVars, panelVars, marks, pending>>

(* The toolbar's button or the selection's, and the dialog.                 *)
Dialog(p, s) == pending' = p /\ saves' = s /\ UNCHANGED <<placeVars, panelVars, marks>>
BookmarkPage == loaded /\ mode # "pdf" /\ ~pending /\ Dialog(TRUE, saves)
SaveBookmark == pending /\ Free /\ marks < MaxMarks /\ Dialog(TRUE, saves \union {"add"})
BookmarkDialog == SaveBookmark \/ (pending /\ Dialog(FALSE, saves))

-----------------------------------------------------------------------------
(* What the reader offers                                                   *)

SpreadNav == \E d \in {-1, 1} : Turn(d)
PageInput == \E p \in 1..totalPages : CommitPage(p)
ZoomCluster == \E z \in Zooms : z # zoom /\ ZoomTo(z)
MoreMenu == PairCover \/ (\E m \in {"page", "spread", "pdf"} : SetMode(m)) \/ \E b \in Versions : SwitchVersion(b)
PanelButtons == \E p \in Panels \ {"none"} : TogglePanel(p)
Sidebars == TocSidebar \/ SearchSidebar \/ BookmarkSidebar \/ DetailsSidebar

Answers == \/ BookArrives
           \/ Searched
           \/ \E s \in saves : MarkWritten(s) \/ MarkFails(s)

Next ==
  \/ Answers \/ BrowserBack \/ SpreadNav \/ PageInput \/ ZoomCluster \/ MoreMenu
  \/ PanelButtons \/ Sidebars \/ BookmarkPage \/ BookmarkDialog

Spec == Init /\ [][Next]_rVars

-----------------------------------------------------------------------------
(* Why it holds                                                             *)

(* A page one has gone to is one of the book, and the left one of its spread*)
OnLeftPage ==
  came = "gone to" =>
    /\ loaded /\ page \in 1..PageCount[book]
    /\ mode = "spread" => IF offset = 1 THEN page % 2 # 0 ELSE page % 2 = 0 \/ page = 1
PagesNumbered == book \in Versions /\ page \in Nat /\ urls \in Seq(Nat) /\ urls # <<>>

-----------------------------------------------------------------------------
(* Properties                                                               *)

(* However the mode, the pairing of pages and the page were changed before, *)
(* a turn from a page one has gone to shows the pages that come next, and   *)
(* leaves none out. (A spread one has been opened on need not be aligned:   *)
(* the address and the saved page are taken as they are.)                   *)
LeavesNoneOut ==
  came = "gone to" /\ SpreadNav =>
    \A p \in 1..totalPages : /\ ~(p > Max(Visible) /\ p < Min(Visible'))
                             /\ ~(p < Min(Visible) /\ p > Max(Visible'))
TurnsSkipNothing == [][LeavesNoneOut]_rVars

(* The back button returns to the page before a jump (ReaderView.jsx:104).  *)
(* It does not hold: the address goes back, and nothing reads the page in it*)
(* again.                                                                   *)
BackReturns == [][BrowserBack => page' = urls'[Len(urls')]]_rVars
=============================================================================
