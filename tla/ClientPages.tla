----------------------------- MODULE ClientPages -----------------------------
(***************************************************************************)
(* The pages of the browser client. A page is mounted with no state and     *)
(* forgets it when it is left, so a behaviour is that of one of them, whose  *)
(* variables are the cells c1, c2, ...                                      *)
(***************************************************************************)
EXTENDS Integers, Sequences

(* Each page's constants, as its module describes them, where two pages have *)
(* one of the same name with a name of its own here.                        *)
CONSTANTS
  Systems, ParentOf, KindOf, ShelfTags, TagsOf, Taggable, MaxGroups,
  Books, EditFields, MaxSent,
  PageCount, MaxHistory, MaxMarks, MaxLoads,
  Pages, KeysOf, Filters,
  NItems, FolderOf, MaxGets,
  Duration, MaxRows,
  Tools, HISTORY_LIMIT, MaxFeatures,
  FileNames, MaxFiles, MaxAsks,
  NCopies, MaxActs, MaxLists,
  MaxCampaignWrites,
  Things, MaxCats, MaxWrites, MaxRequests,
  TagNames, MaxHearts, MaxTagAsks,
  MaxNotes, MaxNoteAsks

VARIABLES
  focus,  \* the page that is looked at
  c1, c2, c3, c4, c5, c6, c7, c8, c9, c10, c11, c12, c13, c14, c15, c16, c17, c18
          \* its variables, in the order its module declares them

vars == <<focus, c1, c2, c3, c4, c5, c6, c7, c8, c9, c10, c11, c12, c13, c14, c15, c16, c17, c18>>

Library == INSTANCE Shelf WITH
  Tags <- ShelfTags, loaded <- c1, tagged <- c2, grouped <- c3, query <- c4, bulk <- c5,
  ids <- c6, anchor <- c7, asked <- c8, editing <- c9
System == INSTANCE SystemBooks WITH
  Fields <- EditFields, server <- c1, main <- c2, ever <- c3, page <- c4, rows <- c5,
  systemEditor <- c6, editing <- c7, form <- c8, picked <- c9, bulk <- c10,
  drafts <- c11, at <- c12, saving <- c13, asks <- c14, sent <- c15
Book == INSTANCE Reader WITH
  MaxAsked <- MaxLoads, book <- c1, loaded <- c2, page <- c3, mode <- c4, offset <- c5,
  came <- c6, urls <- c7, push <- c8, zoom <- c9, panel <- c10, found <- c11,
  marks <- c12, edited <- c13, pending <- c14, saves <- c15
Media == INSTANCE Gallery WITH
  arrived <- c1, more <- c2, collapsed <- c3, kept <- c4, seeded <- c5, opened <- c6,
  mine <- c7, grouped <- c8, filter <- c9, presets <- c10, bulk <- c11, ids <- c12,
  paths <- c13, anchor <- c14, applying <- c15
Item == INSTANCE DetailView WITH
  MaxAsked <- MaxGets, kind <- c1, route <- c2, shown <- c3, gets <- c4, siblings <- c5,
  fetched <- c6, fetches <- c7, editor <- c8, saves <- c9
Chapters == INSTANCE AudiobookEditor WITH
  mp3 <- c1, open <- c2, picked <- c3, busy <- c4, joined <- c5, convert <- c6,
  detect <- c7, review <- c8, typing <- c9, nextKey <- c10, sent <- c11
Vtt == INSTANCE VttEditor WITH
  origin <- c1, phase <- c2, doc <- c3, undo <- c4, redo <- c5, dirty <- c6, tool <- c7,
  draft <- c8, selection <- c9, reading <- c10, sending <- c11, carried <- c12,
  dialog <- c13, stored <- c14, late <- c15
Files == INSTANCE FileTree WITH
  Names <- FileNames, disk <- c1, there <- c2, listing <- c3, loaded <- c4,
  expanded <- c5, loading <- c6, asks <- c7, cursor <- c8, beside <- c9, keep <- c10,
  pending <- c11, dialog <- c12, content <- c13, named <- c14
Copies == INSTANCE Duplicates WITH
  MaxAsked <- MaxLists, gone <- c1, mainOf <- c2, groups <- c3, dismissed <- c4,
  scan <- c5, found <- c6, view <- c7, listed <- c8, running <- c9, cleared <- c10,
  shut <- c11, pair <- c12, data <- c13, kept <- c14, confirm <- c15, busy <- c16,
  asks <- c17, acts <- c18
Party == INSTANCE Campaign WITH
  MaxWrites <- MaxCampaignWrites, me <- c1, server <- c2, seen <- c3, loaded <- c4,
  panel <- c5, asks <- c6, writes <- c7
Links == INSTANCE CampaignResources WITH
  Items <- Things, MaxAsked <- MaxRequests, server <- c1, links <- c2, cats <- c3, managed <- c4,
  dialog <- c5, picked <- c6, held <- c7, busy <- c8, requests <- c9, written <- c10
Hearts == INSTANCE Tags WITH
  Names <- TagNames, MaxAsked <- MaxTagAsks, saved <- c1, favorites <- c2, items <- c3,
  reloads <- c4, toggles <- c5, catalog <- c6, allTags <- c7, flagged <- c8,
  active <- c9, detail <- c10, loading <- c11, renaming <- c12, asked <- c13
Wiki == INSTANCE WikiNotes WITH
  MaxAsked <- MaxNoteAsks, exists <- c1, parent <- c2, text <- c3, listed <- c4,
  listedIn <- c5, selected <- c6, open <- c7, editing <- c8, creating <- c9,
  asked <- c10, lists <- c11, saved <- c12, picked <- c13,
  bulk <- c14

(* The cells a part does not use.                                          *)
Blank18 == c18 = 0
Blank17 == c17 = 0 /\ Blank18
Blank16 == c16 = 0 /\ Blank17
Blank15 == c15 = 0 /\ Blank16
Blank14 == c14 = 0 /\ Blank15
Blank13 == c13 = 0 /\ Blank14
Blank12 == c12 = 0 /\ Blank13
Blank11 == c11 = 0 /\ Blank12
Blank10 == c10 = 0 /\ Blank11
Blank9 == c9 = 0 /\ Blank10
Blank8 == c8 = 0 /\ Blank9
From8 == <<c8, c9, c10, c11, c12, c13, c14, c15, c16, c17, c18>>
From10 == <<c10, c11, c12, c13, c14, c15, c16, c17, c18>>
From11 == <<c11, c12, c13, c14, c15, c16, c17, c18>>
From12 == <<c12, c13, c14, c15, c16, c17, c18>>
From14 == <<c14, c15, c16, c17, c18>>
From15 == <<c15, c16, c17, c18>>
From16 == <<c16, c17, c18>>

Init ==
  \/ focus = "shelf" /\ Library!Init /\ Blank10
  \/ focus = "system" /\ System!Init /\ Blank16
  \/ focus = "reader" /\ Book!Init /\ Blank16
  \/ focus = "gallery" /\ Media!Init /\ Blank16
  \/ focus = "detail" /\ Item!Init /\ Blank10
  \/ focus = "audiobook" /\ Chapters!Init /\ Blank12
  \/ focus = "vtt" /\ Vtt!Init /\ Blank16
  \/ focus = "files" /\ Files!Init /\ Blank15
  \/ focus = "duplicates" /\ Copies!Init
  \/ focus = "campaign" /\ Party!Init /\ Blank8
  \/ focus = "resources" /\ Links!Init /\ Blank11
  \/ focus = "tags" /\ Hearts!Init /\ Blank14
  \/ focus = "wiki" /\ Wiki!Init /\ Blank15

Next ==
  \/ focus = "shelf" /\ Library!Next /\ UNCHANGED <<focus, From10>>
  \/ focus = "system" /\ System!Next /\ UNCHANGED <<focus, From16>>
  \/ focus = "reader" /\ Book!Next /\ UNCHANGED <<focus, From16>>
  \/ focus = "gallery" /\ Media!Next /\ UNCHANGED <<focus, From16>>
  \/ focus = "detail" /\ Item!Next /\ UNCHANGED <<focus, From10>>
  \/ focus = "audiobook" /\ Chapters!Next /\ UNCHANGED <<focus, From12>>
  \/ focus = "vtt" /\ Vtt!Next /\ UNCHANGED <<focus, From16>>
  \/ focus = "files" /\ Files!Next /\ UNCHANGED <<focus, From15>>
  \/ focus = "duplicates" /\ Copies!Next /\ UNCHANGED focus
  \/ focus = "campaign" /\ Party!Next /\ UNCHANGED <<focus, From8>>
  \/ focus = "resources" /\ Links!Next /\ UNCHANGED <<focus, From11>>
  \/ focus = "tags" /\ Hearts!Next /\ UNCHANGED <<focus, From14>>
  \/ focus = "wiki" /\ Wiki!Next /\ UNCHANGED <<focus, From15>>

Spec == Init /\ [][Next]_vars

-----------------------------------------------------------------------------
(* What each module states of its page                                      *)

(* Every variable of a page keeps its type.                                 *)
TypeOK ==
  /\ focus = "shelf" => Library!ShelfTypeOK
  /\ focus = "system" => System!SystemTypeOK
  /\ focus = "reader" => Book!ReaderTypeOK
  /\ focus = "gallery" => Media!GalleryTypeOK
  /\ focus = "detail" => Item!DetailTypeOK
  /\ focus = "audiobook" => Chapters!EditorTypeOK
  /\ focus = "vtt" => Vtt!VttTypeOK
  /\ focus = "files" => Files!TreeTypeOK
  /\ focus = "duplicates" => Copies!DuplicatesTypeOK
  /\ focus = "campaign" => Party!CampaignTypeOK
  /\ focus = "resources" => Links!ResourcesTypeOK
  /\ focus = "tags" => Hearts!TagsTypeOK
  /\ focus = "wiki" => Wiki!WikiTypeOK

(* A system is found in one way only (Shelf).                               *)
FoundOnce == focus = "shelf" => Library!FoundOnce

(* The page of a system shows nothing the server has not stored             *)
(* (SystemBooks).                                                           *)
PageNeverAhead == focus = "system" => System!PageNeverAhead

(* Turning the page leaves no page out (Reader).                            *)
TurnsSkipNothing == [][focus = "reader" => Book!LeavesNoneOut]_vars

(* A folder opened by hand stays open (Gallery).                            *)
OpenedStaysOpen == focus = "gallery" => Media!OpenedStaysOpen

(* The next item is one of the same folder, and the nearest (DetailView).   *)
StepsStayInFolder == [][focus = "detail" => Item!StepsToANeighbour]_vars

(* The chapters that are sent cover the audiobook (AudiobookEditor).        *)
ChaptersTile == focus = "audiobook" => Chapters!ChaptersTile

(* An editor that shows nothing unsaved has nothing unsaved (VttEditor).    *)
CleanMeansKept == focus = "vtt" => Vtt!CleanMeansKept

(* The cursor is on a row of the tree, and a folder with content goes only  *)
(* by its name (FileTree).                                                  *)
CursorOnARow == focus = "files" => Files!CursorOnARow
FolderGoesByName == focus = "files" => Files!FolderGoesByName

(* No pair of copies that was found is left out of the list (Duplicates).   *)
NoPairSkipped == focus = "duplicates" => Copies!NoPairSkipped

(* An archived campaign stays as it was (Campaign).                         *)
ArchivedStaysAsItWas == [][focus = "campaign" => Party!KeptAsItWas]_vars

(* Every link is in one group (CampaignResources).                          *)
NothingHidden == focus = "resources" => Links!NothingHidden

(* Nothing without a heart is listed among the favourites (Tags).           *)
RowsHaveHearts == focus = "tags" => Hearts!RowsHaveHearts

(* No note is its own ancestor (WikiNotes).                                 *)
NotesFormATree == focus = "wiki" => Wiki!NotesFormATree
=============================================================================
