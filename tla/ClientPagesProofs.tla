-------------------------- MODULE ClientPagesProofs --------------------------
(***************************************************************************)
(* What holds of the client's pages, for every value of their constants.    *)
(* Each page's state is the cells that ClientPages gives it.                *)
(***************************************************************************)
EXTENDS ClientPages, ArraysProofs

(* A behaviour stays on the page it looks at, and a step is that page's.    *)
LEMMA OnePage ==
  ASSUME [Next]_vars
  PROVE  /\ focus' = focus
         /\ \/ UNCHANGED vars
            \/ /\ focus = "system" => System!Next
               /\ focus = "reader" => Book!Next
               /\ focus = "gallery" => Media!Next
               /\ focus = "detail" => Item!Next
               /\ focus = "audiobook" => Chapters!Next
               /\ focus = "vtt" => Vtt!Next
               /\ focus = "files" => Files!Next
               /\ focus = "duplicates" => Copies!Next
               /\ focus = "campaign" => Party!Next
               /\ focus = "resources" => Links!Next
               /\ focus = "tags" => Hearts!Next
               /\ focus = "wiki" => Wiki!Next
BY DEF Next, vars

-----------------------------------------------------------------------------
(* Hearts: c2 favorites, c3 items, c4 answers on their way                  *)

HeartsKept == Hearts!AnswersMatch /\ Hearts!RowsHaveHearts

LEMMA TagsStep ==
  ASSUME HeartsKept, Hearts!Next
  PROVE  HeartsKept'
<1> USE DEF HeartsKept, Hearts!AnswersMatch, Hearts!RowsHaveHearts
<1>1. CASE Hearts!Visible
  BY <1>1 DEF Hearts!Visible, Hearts!Reload
<1>2. ASSUME NEW r \in c4, Hearts!Reloaded(r) PROVE HeartsKept'
  BY <1>2 DEF Hearts!Reloaded
<1>3. ASSUME NEW q \in c5, Hearts!FavoriteAdded(q) PROVE HeartsKept'
  BY <1>3 DEF Hearts!FavoriteAdded, Hearts!Reload
<1>4. ASSUME NEW q \in c5, Hearts!FavoriteTaken(q) PROVE HeartsKept'
  BY <1>4 DEF Hearts!FavoriteTaken
<1>5. CASE UNCHANGED <<c2, c3, c4>>
  BY <1>5
<1>6. ASSUME NEW q \in c5, Hearts!FavoriteServed(q) \/ Hearts!FavoriteRefused(q)
      PROVE  UNCHANGED <<c2, c3, c4>>
  BY <1>6 DEF Hearts!FavoriteServed, Hearts!FavoriteRefused
<1>7. ASSUME NEW k, \/ Hearts!ToggleFavorite(k) \/ Hearts!ToggleTagFavorite(k)
                    \/ Hearts!SelectTag(k) \/ Hearts!SaveRename(k) \/ Hearts!Opened(k)
      PROVE  UNCHANGED <<c2, c3, c4>>
  BY <1>7 DEF Hearts!ToggleFavorite, Hearts!ToggleTagFavorite, Hearts!SelectTag,
              Hearts!SaveRename, Hearts!Opened, Hearts!PageOnly, Hearts!heartVars
<1>8. ASSUME NEW b, Hearts!Renaming(b) \/ Hearts!DeleteTag PROVE UNCHANGED <<c2, c3, c4>>
  BY <1>8 DEF Hearts!Renaming, Hearts!DeleteTag, Hearts!PageOnly, Hearts!heartVars
<1>9. ASSUME NEW q, \/ Hearts!TagServed(q) \/ Hearts!ListArrives(q) \/ Hearts!ItemsArrive(q)
                    \/ Hearts!RenameDone(q) \/ Hearts!DeleteDone(q) \/ Hearts!TagRefused(q)
      PROVE  UNCHANGED <<c2, c3, c4>>
  BY <1>9 DEF Hearts!TagServed, Hearts!ListArrives, Hearts!ItemsArrive, Hearts!RenameDone,
              Hearts!DeleteDone, Hearts!TagRefused, Hearts!PageOnly, Hearts!heartVars
<1> QED
  BY <1>1, <1>2, <1>3, <1>4, <1>5, <1>6, <1>7, <1>8, <1>9 DEF Hearts!Next

(* Nothing without a heart is listed among the favourites, whatever toggles *)
(* and answers overtake each other: an answer has rows for its own hearts.  *)
THEOREM FavouritesHaveHearts == Spec => []RowsHaveHearts
<1> DEFINE I == focus = "tags" => HeartsKept
<1>1. Init => I
  BY DEF Init, Hearts!Init, HeartsKept, Hearts!AnswersMatch, Hearts!RowsHaveHearts
<1>2. I /\ [Next]_vars => I'
  <2> SUFFICES ASSUME I, [Next]_vars PROVE I'
    OBVIOUS
  <2>1. CASE UNCHANGED vars
    BY <2>1 DEF vars, HeartsKept, Hearts!AnswersMatch, Hearts!RowsHaveHearts
  <2> QED
    BY <2>1, OnePage, TagsStep
<1>3. I => RowsHaveHearts
  BY DEF RowsHaveHearts, HeartsKept
<1> QED
  BY <1>1, <1>2, <1>3, PTL DEF Spec

-----------------------------------------------------------------------------
(* Galleries: c2 more, c3 collapsed, c4 kept, c6 opened, c7 opened by hand  *)

FoldersKept == Media!HandRemembered /\ Media!OpenedStaysOpen

LEMMA GalleryStep ==
  ASSUME FoldersKept, Media!Next
  PROVE  FoldersKept'
<1> USE DEF FoldersKept, Media!HandRemembered, Media!OpenedStaysOpen
<1>1. CASE Media!PageArrives
  BY <1>1 DEF Media!PageArrives, Media!Shut
<1>2. ASSUME NEW S, NEW o, NEW m, Media!Collapse(S, o, m), m \subseteq o, m \intersect S = {}
      PROVE  FoldersKept'
  BY <1>2 DEF Media!Collapse
<1>3. ASSUME NEW k, Media!ToggleCollapse(k) PROVE FoldersKept'
  BY <1>2, <1>3 DEF Media!ToggleCollapse
<1>4. CASE Media!CollapseAll \/ Media!ExpandAll
  BY <1>2, <1>4 DEF Media!CollapseAll, Media!ExpandAll
<1>5. CASE Media!Leave
  BY <1>5 DEF Media!Leave, Media!Mounted
<1>6. CASE UNCHANGED Media!loadVars
  BY <1>6 DEF Media!loadVars
<1>7. ASSUME Media!LoadFails PROVE UNCHANGED <<c3, c4, c6, c7>>
  BY <1>7 DEF Media!LoadFails
<1>8. ASSUME \/ Media!PresetsArrive \/ Media!Applied \/ Media!Group \/ Media!ClearFilters
             \/ Media!Preset \/ Media!ApplyTags \/ Media!EnterBulk \/ Media!ExitBulk
      PROVE  UNCHANGED Media!loadVars
  BY <1>8 DEF Media!PresetsArrive, Media!Applied, Media!Group, Media!ClearFilters, Media!Preset,
              Media!ApplyTags, Media!EnterBulk, Media!ExitBulk, Media!SetFilter, Media!Pick
<1>9. ASSUME NEW f, Media!SetFilter(f) \/ Media!ToggleFolder(f) PROVE UNCHANGED Media!loadVars
  BY <1>9 DEF Media!SetFilter, Media!ToggleFolder, Media!Pick
<1>10. ASSUME NEW i, NEW shift, Media!ToggleItem(i, shift) PROVE UNCHANGED Media!loadVars
  BY <1>10 DEF Media!ToggleItem, Media!Pick
<1>11. CASE Media!Card
  BY <1>5, <1>6, <1>10, <1>11 DEF Media!Card
<1>12. CASE Media!FolderHeader
  BY <1>3, <1>6, <1>9, <1>12 DEF Media!FolderHeader
<1>13. CASE Media!Toolbar \/ Media!SortFilterBar \/ Media!SavedMenu \/ Media!BulkBar
  BY <1>4, <1>6, <1>8, <1>9, <1>13
     DEF Media!Toolbar, Media!SortFilterBar, Media!FilterModal, Media!TagQueryEditor,
         Media!SavedMenu, Media!BulkBar
<1>14. CASE Media!Layout
  BY <1>11, <1>12, <1>13, <1>14 DEF Media!Layout, Media!Subfolders, Media!ListRow
<1>15. CASE Media!LoadFails
  BY <1>7, <1>15
<1> QED
  BY <1>1, <1>6, <1>8, <1>14, <1>15 DEF Media!Next

(* A folder opened by hand stays open while the pages of the gallery arrive:*)
(* none is forgotten by openedFolders, and until the session remembers which*)
(* are shut there was no hand.                                              *)
THEOREM HandsAreRespected == Spec => []OpenedStaysOpen
<1> DEFINE I == focus = "gallery" => FoldersKept
<1>1. Init => I
  BY DEF Init, Media!Init, FoldersKept, Media!HandRemembered, Media!OpenedStaysOpen
<1>2. I /\ [Next]_vars => I'
  <2> SUFFICES ASSUME I, [Next]_vars PROVE I'
    OBVIOUS
  <2>1. CASE UNCHANGED vars
    BY <2>1 DEF vars, FoldersKept, Media!HandRemembered, Media!OpenedStaysOpen
  <2> QED
    BY <2>1, OnePage, GalleryStep
<1>3. I => OpenedStaysOpen
  BY DEF OpenedStaysOpen, FoldersKept
<1> QED
  BY <1>1, <1>2, <1>3, PTL DEF Spec

-----------------------------------------------------------------------------
(* Pages of media: c2 route, c5 siblings                                    *)

LEMMA StepLands ==
  ASSUME Item!WholeFolder, NEW d \in {-1, 1}, Item!Step(d), NItems \in Nat
  PROVE  /\ FolderOf[c2'] = FolderOf[c2]
         /\ \A i \in Item!Items : (c2 < i /\ i < c2') \/ (c2' < i /\ i < c2)
                                    => FolderOf[i] # FolderOf[c2]
<1>1. PICK to \in Item!Neighbours(d) : c2' = to
  BY DEF Item!Step, Item!Goes
<1>2. c2 \in c5 /\ to \in c5
  BY <1>1 DEF Item!Neighbours
<1>3. PICK f \in Item!Folders : c5 = {i \in Item!Items : FolderOf[i] = f}
  BY <1>2 DEF Item!WholeFolder
<1>4. \A i \in Item!Items : i \in Int
  BY DEF Item!Items
<1>5. \A i \in c5 : IF d = 1 THEN i > c2 => to <= i ELSE i < c2 => to >= i
  BY <1>1, <1>2 DEF Item!Neighbours
<1>6. IF d = 1 THEN to > c2 ELSE to < c2
  BY <1>1, <1>2 DEF Item!Neighbours
<1>7. FolderOf[to] = f /\ FolderOf[c2] = f
  BY <1>2, <1>3
<1>8. ASSUME NEW i \in Item!Items, (c2 < i /\ i < c2') \/ (c2' < i /\ i < c2), FolderOf[i] = f
      PROVE  FALSE
  <2>1. i \in c5
    BY <1>3, <1>8
  <2>2. c2 \in Int /\ to \in Int /\ i \in Int
    BY <1>2, <1>3, <1>4
  <2> QED
    BY <2>1, <2>2, <1>1, <1>5, <1>6, <1>8
<1> QED
  BY <1>1, <1>7, <1>8

LEMMA DetailStep ==
  ASSUME Item!WholeFolder, Item!Next
  PROVE  Item!WholeFolder'
<1> USE DEF Item!WholeFolder
<1>1. ASSUME NEW f \in Item!Folders, Item!SiblingsArrive(f) PROVE Item!WholeFolder'
  BY <1>1 DEF Item!SiblingsArrive
<1>2. CASE Item!Leave
  BY <1>2 DEF Item!Leave
<1>3. CASE UNCHANGED c5
  BY <1>3
<1>4. ASSUME NEW i, NEW b, Item!Arrives(i, b) \/ Item!Saved(i) \/ Item!SaveFails(i)
      PROVE  UNCHANGED c5
  BY <1>4 DEF Item!Arrives, Item!Saved, Item!SaveFails
<1>5. ASSUME NEW i, Item!Open(i) \/ Item!Converted(i) \/ Item!Step(i) \/ Item!Edit(i)
      PROVE  UNCHANGED c5
  BY <1>5 DEF Item!Open, Item!Goes, Item!Converted, Item!Step, Item!Edit
<1>6. ASSUME \/ Item!SaveTags \/ Item!SaveFolderTags \/ Item!Cancel \/ Item!ToggleFlag
             \/ Item!SetCover \/ Item!MarkNotStarted \/ Item!ReloadMap \/ Item!MetadataSaved
             \/ Item!ChaptersApplied
      PROVE  UNCHANGED c5
  BY <1>6 DEF Item!SaveTags, Item!SaveFolderTags, Item!Cancel, Item!ToggleFlag, Item!SetCover,
              Item!MarkNotStarted, Item!ReloadMap, Item!MetadataSaved, Item!ChaptersApplied,
              Item!Write
<1>7. CASE Item!Answers
  BY <1>1, <1>3, <1>4, <1>7 DEF Item!Answers
<1>8. CASE Item!Toolbar \/ Item!Steps \/ Item!Tags
  BY <1>2, <1>3, <1>5, <1>6, <1>8 DEF Item!Toolbar, Item!Steps, Item!Tags
<1>9. CASE Item!AudiobookEditing
  BY <1>3, <1>5, <1>6, <1>9 DEF Item!AudiobookEditing
<1> QED
  BY <1>3, <1>5, <1>6, <1>7, <1>8, <1>9
     DEF Item!Next, Item!MapPage, Item!MapDetails, Item!TokenPage, Item!TokenDetails,
         Item!ModelPage, Item!ModelDetails, Item!AudioPage, Item!AudioDetails,
         Item!AudiobookPage, Item!AudiobookDetails

(* A step to the next item stays in the folder of the route and leaves none *)
(* of it out, whichever items and folders are still being fetched: what the *)
(* buttons step through is one whole folder, and the route has to be in it. *)
THEOREM StepsLeaveNoneOut ==
  ASSUME NItems \in Nat
  PROVE  Spec => StepsStayInFolder
<1> DEFINE I == focus = "detail" => Item!WholeFolder
<1>1. Init => I
  BY DEF Init, Item!Init, Item!Mounted, Item!WholeFolder
<1>2. I /\ [Next]_vars => I'
  <2> SUFFICES ASSUME I, [Next]_vars PROVE I'
    OBVIOUS
  <2>1. CASE UNCHANGED vars
    BY <2>1 DEF vars, Item!WholeFolder
  <2> QED
    BY <2>1, OnePage, DetailStep
<1>3. I /\ [Next]_vars => [focus = "detail" => Item!StepsToANeighbour]_vars
  BY StepLands DEF Item!StepsToANeighbour, Item!Steps
<1> QED
  BY <1>1, <1>2, <1>3, PTL DEF Spec, StepsStayInFolder

-----------------------------------------------------------------------------
(* The file manager: c3 listing, c4 loaded, c5 expanded, c8 cursor, c14 named*)

LEMMA TreeStep ==
  ASSUME Files!CursorOnARow, Files!FolderGoesByName, Files!Next
  PROVE  (Files!CursorOnARow /\ Files!FolderGoesByName)'
<1> USE DEF Files!CursorOnARow, Files!FolderGoesByName, Files!Now
<1> DEFINE Kept == UNCHANGED <<c3, c4, c5, c8, c14>>
           Good == (Files!CursorOnARow /\ Files!FolderGoesByName)'
<1>1. CASE Kept
  BY <1>1
<1>2. ASSUME NEW c, NEW rows, NEW kept, Files!Settled(c, rows, kept)
      PROVE  c8' \in Files!ToSet(rows) \union {Files!Nowhere}
  BY <1>2 DEF Files!Settled, Files!Fallback
<1>3. ASSUME NEW a, Files!Listed(a) \/ Files!ListingFails(a) PROVE Good
  <2>1. ASSUME NEW got, Files!Answered(a, got) PROVE Good
    BY <1>2, <2>1 DEF Files!Answered, Files!talk
  <2> QED
    BY <1>3, <2>1 DEF Files!Listed, Files!ListingFails
<1>4. CASE Files!ToggleExpand
  BY <1>2, <1>4 DEF Files!ToggleExpand, Files!talk
<1>5. ASSUME NEW row, Files!CursorTo(row) PROVE Good
  BY <1>5 DEF Files!CursorTo, Files!shown, Files!talk
<1>6. CASE Files!ClearSelection
  BY <1>6 DEF Files!ClearSelection, Files!shown, Files!talk
<1>7. CASE Files!Delete
  <2>1. UNCHANGED <<c3, c4, c5, c8>>
    BY <1>7 DEF Files!Delete, Files!shown, Files!moving
  <2>2. ~c14'
    BY <1>7 DEF Files!Delete, Files!MayGo, Files!talk
  <2> QED
    BY <2>1, <2>2
<1>8. ASSUME NEW row, Files!OpenDelete(row) PROVE Good
  BY <1>8 DEF Files!OpenDelete, Files!shown, Files!moving
<1>9. ASSUME NEW a, Files!Browse(a) PROVE Kept
  BY <1>9 DEF Files!Browse, Files!shown, Files!moving, Files!talk
<1>10. ASSUME Files!RefreshButton \/ Files!ContentKnown \/ Files!CloseDialog \/ Files!NewFolder
       PROVE  Kept
  BY <1>10 DEF Files!RefreshButton, Files!ContentKnown, Files!CloseDialog, Files!NewFolder,
               Files!shown, Files!moving, Files!talk
<1>11. ASSUME NEW p, NEW n, \/ Files!Rename(p, n) \/ Files!Move(p, n) \/ Files!MoveTo(p, n)
                            \/ Files!Elsewhere(p, n)
       PROVE  Kept
  BY <1>11 DEF Files!Rename, Files!Move, Files!MoveTo, Files!Elsewhere, Files!shown,
               Files!moving, Files!talk
<1>12. CASE Files!Listings
  BY <1>1, <1>3, <1>9, <1>12 DEF Files!Listings
<1>13. CASE Files!Keys
  BY <1>4, <1>5, <1>6, <1>8, <1>13 DEF Files!Keys, Files!FileRow
<1>14. CASE Files!ContextMenu \/ Files!DeleteModal
  BY <1>1, <1>7, <1>8, <1>10, <1>14 DEF Files!ContextMenu, Files!DeleteModal
<1>15. CASE Files!Dialogs \/ Files!Drag \/ Files!RefreshButton
  BY <1>1, <1>10, <1>11, <1>15
     DEF Files!Dialogs, Files!RenameModal, Files!MoveModal, Files!Drag
<1> QED
  BY <1>1, <1>11, <1>12, <1>13, <1>14, <1>15 DEF Files!Next

LEMMA TreeKept ==
  LET I == focus = "files" => Files!CursorOnARow /\ Files!FolderGoesByName
  IN /\ Init => I
     /\ I /\ [Next]_vars => I'
<1> DEFINE I == focus = "files" => Files!CursorOnARow /\ Files!FolderGoesByName
<1>1. Init => I
  BY DEF Init, Files!Init, Files!CursorOnARow, Files!FolderGoesByName
<1>2. I /\ [Next]_vars => I'
  <2> SUFFICES ASSUME I, [Next]_vars PROVE I'
    OBVIOUS
  <2>1. CASE UNCHANGED vars
    BY <2>1 DEF vars, Files!CursorOnARow, Files!FolderGoesByName, Files!Now
  <2> QED
    BY <2>1, OnePage, TreeStep
<1> QED
  BY <1>1, <1>2

(* However listings, renames, moves and collapses overtake each other, the  *)
(* cursor is nowhere or on a row that is shown.                             *)
THEOREM CursorIsShown == Spec => []CursorOnARow
<1> DEFINE I == focus = "files" => Files!CursorOnARow /\ Files!FolderGoesByName
<1>1. I => CursorOnARow
  BY DEF CursorOnARow
<1> QED
  BY <1>1, TreeKept, PTL DEF Spec

(* A folder that has content goes only by its name, also when the content   *)
(* came after the dialog had looked.                                        *)
THEOREM NameIsAsked == Spec => []FolderGoesByName
<1> DEFINE I == focus = "files" => Files!CursorOnARow /\ Files!FolderGoesByName
<1>1. I => FolderGoesByName
  BY DEF FolderGoesByName
<1> QED
  BY <1>1, TreeKept, PTL DEF Spec

-----------------------------------------------------------------------------
(* The VTT editor: c1 origin, c3 doc, c6 dirty, c11 sending, c14 stored,    *)
(* c15 late                                                                 *)

(* What only edits the document marks it unsaved, or leaves it as it is.    *)
LEMMA Drawn ==
  ASSUME Vtt!CleanMeansKept, Vtt!Drawing
  PROVE  Vtt!CleanMeansKept'
<1> USE DEF Vtt!CleanMeansKept
<1> DEFINE Same == UNCHANGED <<c1, c3, c6, c14, c15>>
           Edited == c1' = c1 /\ c6' = TRUE
<1>1. Same => Vtt!CleanMeansKept'
  OBVIOUS
<1>2. Edited => Vtt!CleanMeansKept'
  OBVIOUS
<1> USE DEF Vtt!UNCH_place, Vtt!keepVars, Vtt!docVars
<1>3. ASSUME NEW t, Vtt!SetTool(t) PROVE Same
  BY <1>3 DEF Vtt!SetTool
<1>4. ASSUME NEW d, Vtt!Commit(d), Vtt!UNCH_place PROVE Edited
  BY <1>4 DEF Vtt!Commit
<1>5. ASSUME Vtt!Undo \/ Vtt!Redo PROVE Edited
  BY <1>5 DEF Vtt!Undo, Vtt!Redo, Vtt!Moves
<1>6. ASSUME Vtt!CommitPolyline PROVE Same \/ Edited
  BY <1>6, <1>4 DEF Vtt!CommitPolyline
<1>7. ASSUME Vtt!HandleClick PROVE Same \/ Edited
  BY <1>7, <1>4 DEF Vtt!HandleClick, Vtt!SelectAt, Vtt!PlaceLight, Vtt!PlacePortal, Vtt!AddPoint
<1>8. ASSUME Vtt!DeleteFeature PROVE Edited
  BY <1>8, <1>4 DEF Vtt!DeleteFeature
<1>9. ASSUME NEW key, Vtt!UpdateFeature(key) PROVE Edited
  BY <1>9, <1>4 DEF Vtt!UpdateFeature
<1>10. ASSUME Vtt!EnvironmentPanel PROVE Edited
  BY <1>10, <1>4 DEF Vtt!EnvironmentPanel
<1>11. ASSUME Vtt!Recalibrate \/ Vtt!Escape PROVE Same
  BY <1>11 DEF Vtt!Recalibrate, Vtt!Escape
<1>12. Vtt!Drawing => Same \/ Edited
  <2>1. Vtt!VttToolbar => Same \/ Edited
    BY <1>3, <1>5 DEF Vtt!VttToolbar
  <2>2. Vtt!VttCanvas => Same \/ Edited
    BY <1>6, <1>7 DEF Vtt!VttCanvas
  <2>3. Vtt!VttSidebar => Same \/ Edited
    BY <1>8, <1>9, <1>10, <1>11 DEF Vtt!VttSidebar, Vtt!LightProperties, Vtt!PortalProperties
  <2>4. Vtt!OnKey => Same \/ Edited
    BY <1>5, <1>6, <1>8, <1>11 DEF Vtt!OnKey
  <2> QED
    BY <2>1, <2>2, <2>3, <2>4 DEF Vtt!Drawing
<1> QED
  BY <1>1, <1>2, <1>12

LEMMA VttStep ==
  ASSUME Vtt!CleanMeansKept, Vtt!Next
  PROVE  Vtt!CleanMeansKept'
<1> USE DEF Vtt!CleanMeansKept
<1> USE DEF Vtt!keepVars, Vtt!docVars
<1>1. ASSUME NEW k, Vtt!VttSourcePicker(k) \/ Vtt!FileRead(k) \/ Vtt!FileFails(k)
      PROVE  Vtt!CleanMeansKept'
  BY <1>1 DEF Vtt!VttSourcePicker, Vtt!FileRead, Vtt!FileFails, Vtt!Reset
<1>2. CASE Vtt!Load
  BY <1>2 DEF Vtt!Load, Vtt!Reset
<1>3. CASE Vtt!GridCalibrator
  BY <1>3 DEF Vtt!GridCalibrator
<1>4. CASE Vtt!Save \/ Vtt!SendToCampaign
  BY <1>4 DEF Vtt!Save, Vtt!SendToCampaign, Vtt!Under
<1>5. CASE Vtt!Leave \/ Vtt!Uploaded
  BY <1>5 DEF Vtt!Leave, Vtt!Uploaded, Vtt!GoBack
<1>6. CASE Vtt!DownloadStandalone
  BY <1>6 DEF Vtt!DownloadStandalone
<1>7. CASE Vtt!Saved
  BY <1>7 DEF Vtt!Saved
<1>8. CASE Vtt!SendingFails
  BY <1>8 DEF Vtt!SendingFails
<1>9. CASE Vtt!ChooseCampaign \/ Vtt!CampaignChosen \/ Vtt!DialogBack
  BY <1>9 DEF Vtt!ChooseCampaign, Vtt!CampaignChosen, Vtt!DialogBack, Vtt!Dialog
<1>10. CASE Vtt!Drawing
  BY <1>10, Drawn
<1> QED
  BY <1>1, <1>2, <1>3, <1>4, <1>5, <1>6, <1>7, <1>8, <1>9, <1>10
     DEF Vtt!Next, Vtt!Opening, Vtt!Header, Vtt!SendVttToCampaignDialog

(* An editor that shows nothing unsaved holds what was saved, exported or   *)
(* opened last, wherever undo and redo have gone meanwhile.                 *)
THEOREM NothingUnsavedIsHidden == Spec => []CleanMeansKept
<1>1. Init => CleanMeansKept
  BY DEF Init, Vtt!Init, CleanMeansKept, Vtt!CleanMeansKept
<1>2. CleanMeansKept /\ [Next]_vars => CleanMeansKept'
  <2> SUFFICES ASSUME CleanMeansKept, [Next]_vars PROVE CleanMeansKept'
    OBVIOUS
  <2>1. CASE UNCHANGED vars
    BY <2>1 DEF vars, CleanMeansKept, Vtt!CleanMeansKept
  <2> QED
    BY <2>1, OnePage, VttStep DEF CleanMeansKept
<1> QED
  BY <1>1, <1>2, PTL DEF Spec

-----------------------------------------------------------------------------
(* Links of a campaign: c1 server, c2 links, c3 categories, c9 requests     *)

(* What the server keeps is of its type whatever it is asked to do.         *)
LEMMA LinksServed ==
  ASSUME MaxCats \in Nat, NEW w, Links!Accepts(w),
         c1 \in [links : Links!Links, cats : SUBSET Links!Cats, made : 0..MaxCats]
  PROVE  Links!Effect(w) \in [links : Links!Links, cats : SUBSET Links!Cats, made : 0..MaxCats]
<1> USE DEF Links!Links, Links!Cats, Links!None, Links!Unlinked
<1>0. c1.links \in Links!Links /\ c1.cats \in SUBSET Links!Cats /\ c1.made \in 0..MaxCats
  OBVIOUS
<1>1. CASE w.do = "link"
  BY <1>1 DEF Links!Effect
<1>2. CASE w.do = "file"
  <2>1. w.to \in -1..MaxCats
    BY <1>0, <1>2 DEF Links!Accepts
  <2> QED
    BY <1>2, <2>1 DEF Links!Effect
<1>3. CASE w.do = "remove"
  BY <1>3 DEF Links!Effect
<1>4. CASE w.do = "create"
  <2> DEFINE c == c1.cats \union {c1.made + 1}
             m == c1.made + 1
  <2>1. m \in 0..MaxCats /\ c \in SUBSET (1..MaxCats)
    BY <1>0, <1>4 DEF Links!Accepts
  <2>2. Links!Effect(w) = [c1 EXCEPT !.cats = c, !.made = m]
    BY <1>4 DEF Links!Effect
  <2> HIDE DEF c, m
  <2> QED
    BY <2>1, <2>2
<1>5. CASE w.do \in {"uncategorize", "delete_items"}
  <2> DEFINE c == c1.cats \ {w.to}
             l == [i \in Things |-> IF c1.links[i] = w.to /\ w.to \in c1.cats
                     THEN (IF w.do = "uncategorize" THEN Links!None ELSE Links!Unlinked)
                     ELSE c1.links[i]]
  <2>1. l \in [Things -> -1..MaxCats]
    BY <1>0
  <2>2. c \in SUBSET (1..MaxCats)
    BY <1>0
  <2>3. Links!Effect(w) = [c1 EXCEPT !.cats = c, !.links = l]
    BY <1>5 DEF Links!Effect
  <2> HIDE DEF c, l
  <2> QED
    BY <2>1, <2>2, <2>3
<1> QED
  BY <1>1, <1>2, <1>3, <1>4, <1>5 DEF Links!Effect

(* What is sent has no categories in it.                                    *)
LEMMA Sent ==
  ASSUME NEW do, NEW item, NEW to, NEW set
  PROVE  LET w == Links!Write(do, item, to, set)
         IN "cats" \in DOMAIN w /\ w.cats \subseteq Links!Cats
BY DEF Links!Write

LEMMA ResourcesStep ==
  ASSUME MaxCats \in Nat, Links!Numbered, Links!Next
  PROVE  Links!Numbered'
<1> DEFINE Fine(r) == "cats" \in DOMAIN r /\ r.cats \subseteq Links!Cats
           Kept == UNCHANGED <<c1, c3>>
<1>0. \A r \in c9 : Fine(r)
  BY DEF Links!Numbered
<1>s. \A do, item, to, set : Fine(Links!Write(do, item, to, set))
  BY Sent
<1> HIDE DEF Fine
<1>k. Kept /\ (\A r \in c9' : Fine(r)) => Links!Numbered'
  BY DEF Links!Numbered, Fine
<1>1. ASSUME NEW r \in c9, NEW s, NEW new, new.cats \subseteq Links!Cats, Links!Answered(r, s, new)
      PROVE  \A q \in c9' : Fine(q)
  BY <1>0, <1>1 DEF Links!Answered, Fine
<1>2. ASSUME NEW r \in c9, Links!Serve(r) PROVE Links!Numbered'
  <2>1. UNCHANGED c3
    BY <1>2 DEF Links!Serve
  <2>2. CASE UNCHANGED c1 /\ Links!Answered(r, "failed", Links!Empty)
    <3>1. Links!Empty.cats \subseteq Links!Cats
      BY DEF Links!Empty
    <3> QED
      BY <1>1, <1>k, <2>1, <2>2, <3>1
  <2>3. CASE /\ Links!Accepts(r) /\ c1' = Links!Effect(r)
             /\ Links!Answered(r, "ok", IF r.do \in {"links", "cats", "managed"} THEN c1 ELSE Links!Empty)
    <3> DEFINE new == IF r.do \in {"links", "cats", "managed"} THEN c1 ELSE Links!Empty
    <3>1. new.cats \subseteq Links!Cats
      BY DEF Links!Empty, Links!Numbered
    <3>2. \A q \in c9' : Fine(q)
      BY <1>1, <2>3, <3>1
    <3>3. c1' \in [links : Links!Links, cats : SUBSET Links!Cats, made : 0..MaxCats]
      BY <2>3, LinksServed DEF Links!Numbered
    <3> QED
      BY <2>1, <3>2, <3>3 DEF Links!Numbered, Fine
  <2> QED
    BY <1>2, <2>2, <2>3 DEF Links!Serve
<1>3. CASE Links!Elsewhere
  <2>1. PICK w : Links!Accepts(w) /\ c1' = Links!Effect(w)
    BY <1>3 DEF Links!Elsewhere
  <2>2. c1' \in [links : Links!Links, cats : SUBSET Links!Cats, made : 0..MaxCats]
    BY <2>1, LinksServed DEF Links!Numbered
  <2>3. UNCHANGED <<c3, c9>>
    BY <1>3 DEF Links!Elsewhere
  <2> QED
    BY <2>2, <2>3 DEF Links!Numbered
<1>4. ASSUME NEW r \in c9, Links!Fetched(r) PROVE Links!Numbered'
  BY <1>4 DEF Links!Fetched, Links!Numbered
<1>5. ASSUME NEW r \in c9, Links!Wrote(r) PROVE Links!Numbered'
  <2>1. \A q \in Links!Then(r) : Fine(q)
    BY <1>s DEF Links!Then, Links!Refetches, Links!Load
  <2> QED
    BY <1>0, <1>5, <1>k, <2>1 DEF Links!Wrote
<1>6. ASSUME NEW w, Fine(w), Links!Send(w) PROVE Links!Numbered'
  BY <1>0, <1>6, <1>k DEF Links!Send
<1>7. ASSUME NEW w, Fine(w), Links!Put(w) \/ Links!Wait(w) PROVE Links!Numbered'
  BY <1>6, <1>7 DEF Links!Put, Links!Wait
<1>8. ASSUME NEW d, NEW h, Links!Show(d, h, {}) \/ Links!Show(d, h, {Links!Load("managed")})
      PROVE  Links!Numbered'
  BY <1>0, <1>8, <1>s, <1>k DEF Links!Show, Links!Load
<1>9. CASE Links!Close
  <2>1. \A r \in c9 : Fine([r EXCEPT !.own = (r.do \notin Links!Awaited \union {"managed"})])
    BY <1>0 DEF Fine
  <2> QED
    BY <1>9, <1>k, <2>1 DEF Links!Close
<1>10. ASSUME NEW i, Links!ToggleRow(i) PROVE Links!Numbered'
  BY <1>10 DEF Links!ToggleRow, Links!Numbered
<1>11. ASSUME NEW i, NEW c, \/ Links!Remove(i) \/ Links!SetVisibility(i) \/ Links!SetCategory(i, c)
                            \/ Links!DropToGroup(i, c) \/ Links!DropOnResource(i, c)
                            \/ Links!Rename(c) \/ Links!DoDelete(c)
       PROVE  Links!Numbered'
  BY <1>7, <1>11, <1>s DEF Links!Remove, Links!SetVisibility, Links!SetCategory, Links!DropToGroup,
                           Links!DropOnResource, Links!Rename, Links!DoDelete
<1>12. CASE Links!Submit \/ Links!Create \/ Links!MoveRow
  BY <1>7, <1>12, <1>s DEF Links!Submit, Links!Create, Links!MoveRow
<1>13. CASE Links!ResourceRow \/ Links!Panel
  BY <1>8, <1>11, <1>13 DEF Links!ResourceRow, Links!Panel
<1>14. CASE Links!Picker \/ Links!Manager \/ Links!DeleteChoice
  BY <1>8, <1>10, <1>11, <1>12, <1>14 DEF Links!Picker, Links!Manager, Links!DeleteChoice
<1> QED
  BY <1>2, <1>3, <1>4, <1>5, <1>9, <1>13, <1>14 DEF Links!Next, Links!Arrives

(* Every link of the panel is in one of its groups and in no other, in      *)
(* whatever order links and categories arrive: no category has the number   *)
(* that stands for none.                                                    *)
THEOREM EveryLinkIsShown ==
  ASSUME MaxCats \in Nat \ {0}
  PROVE  Spec => []NothingHidden
<1> DEFINE I == focus = "resources" => Links!Numbered
<1>1. Init => I
  <2> SUFFICES ASSUME Init, focus = "resources" PROVE Links!Numbered
    OBVIOUS
  <2>1. Links!Init
    BY DEF Init
  <2>2. c1 \in [links : Links!Links, cats : SUBSET Links!Cats, made : 0..MaxCats]
    <3>1. PICK l \in [Things -> {-1, 1}] : c1 = [links |-> l, cats |-> {1}, made |-> 1]
      BY <2>1 DEF Links!Init, Links!Unlinked
    <3> QED
      BY <3>1 DEF Links!Links, Links!Cats, Links!Unlinked
  <2>3. \A r \in c9 : "cats" \in DOMAIN r /\ r.cats \subseteq Links!Cats
    BY <2>1, Sent DEF Links!Init, Links!Refetches, Links!Load
  <2> QED
    BY <2>1, <2>2, <2>3 DEF Links!Init, Links!Numbered
<1>2. I /\ [Next]_vars => I'
  <2> SUFFICES ASSUME I, [Next]_vars PROVE I'
    OBVIOUS
  <2>1. CASE UNCHANGED vars
    BY <2>1 DEF vars, Links!Numbered
  <2> QED
    BY <2>1, OnePage, ResourcesStep
<1>3. I => NothingHidden
  <2> SUFFICES ASSUME Links!Numbered, NEW i \in Links!Listed(c2)
               PROVE  \E g \in Links!Groups : i \in g /\ \A h \in Links!Groups \ {g} : i \notin h
    BY DEF NothingHidden, Links!NothingHidden
  <2>1. 0 \notin c3
    BY DEF Links!Numbered, Links!Cats
  <2>2. i \in Things /\ c2[i] # -1
    BY DEF Links!Listed, Links!Unlinked
  <2>3. CASE c2[i] \in c3
    <3>1. i \in Links!CatGroup(c2[i]) /\ Links!CatGroup(c2[i]) \in Links!Groups
      BY <2>2, <2>3 DEF Links!CatGroup, Links!Groups
    <3>2. i \notin Links!TypeGroup
      BY <2>1, <2>3 DEF Links!TypeGroup, Links!None
    <3>3. \A c \in c3 : i \in Links!CatGroup(c) => c = c2[i]
      BY DEF Links!CatGroup
    <3> QED
      BY <3>1, <3>2, <3>3 DEF Links!Groups
  <2>4. CASE c2[i] \notin c3
    <3>1. i \in Links!TypeGroup /\ Links!TypeGroup \in Links!Groups
      BY <2>2, <2>4 DEF Links!TypeGroup, Links!Groups, Links!Unlinked
    <3>2. \A c \in c3 : i \notin Links!CatGroup(c)
      BY <2>4 DEF Links!CatGroup
    <3> QED
      BY <3>1, <3>2 DEF Links!Groups
  <2> QED
    BY <2>3, <2>4
<1> QED
  BY <1>1, <1>2, <1>3, PTL DEF Spec

-----------------------------------------------------------------------------
(* A campaign: c1 me, c2 server, c3 seen, c4 loaded, c5 panel, c6 asks      *)

(* Whatever is asked, by whom, leaves a campaign a campaign; and once it is *)
(* archived nothing but unarchiving it and leaving it is allowed.           *)
LEMMA WriteServed ==
  ASSUME c2 \in Party!Campaigns, NEW u \in Party!Users, NEW w, Party!Allowed(u, w),
         w.do = "status" => w.arg \in {"accepted", "declined"},
         w.do = "schedule" => w.arg \in {"none", "off", "on"}
  PROVE  LET s == Party!Effect(u, w)
         IN /\ s \in Party!Campaigns
            /\ c2.archived /\ s.archived =>
                 s = c2 \/ s = [c2 EXCEPT !.member = "out", !.sheet = FALSE]
<1> DEFINE s == Party!Effect(u, w)
           Goal == /\ s \in Party!Campaigns
                   /\ c2.archived /\ s.archived =>
                        s = c2 \/ s = [c2 EXCEPT !.member = "out", !.sheet = FALSE]
<1> USE DEF Party!Campaigns
<1>1. ASSUME w.do = "archive" PROVE Goal
  <2> DEFINE yes == w.arg = "yes"
  <2>1. s = [c2 EXCEPT !.archived = yes]
    BY <1>1 DEF Party!Effect
  <2>2. yes \in BOOLEAN
    OBVIOUS
  <2> HIDE DEF yes, s
  <2> QED
    BY <2>1, <2>2
<1>2. CASE w.do = "invite"
  BY <1>2 DEF Party!Effect, Party!Allowed, Party!CanManage
<1>3. CASE w.do = "status"
  BY <1>3 DEF Party!Effect, Party!Allowed
<1>4. CASE w.do = "remove"
  BY <1>4 DEF Party!Effect
<1>5. ASSUME w.do = "sheet" PROVE Goal
  <2> DEFINE put == w.arg = "put"
  <2>1. s = [c2 EXCEPT !.sheet = put] /\ ~c2.archived
    BY <1>5 DEF Party!Effect, Party!Allowed
  <2>2. put \in BOOLEAN
    OBVIOUS
  <2> HIDE DEF put, s
  <2> QED
    BY <2>1, <2>2
<1>6. CASE w.do = "mark"
  BY <1>6 DEF Party!Effect, Party!Allowed
<1>7. CASE w.do = "cancel"
  BY <1>7 DEF Party!Effect, Party!Allowed, Party!CanManage
<1>8. CASE w.do = "schedule"
  BY <1>8 DEF Party!Effect, Party!Allowed, Party!CanManage
<1>9. w.do \in {"archive", "invite", "status", "remove", "sheet", "mark", "cancel", "schedule"}
  BY DEF Party!Allowed
<1> QED
  BY <1>1, <1>2, <1>3, <1>4, <1>5, <1>6, <1>7, <1>8, <1>9

LEMMA WritesAsked ==
  /\ \A part : Party!WellAsked(Party!Load(part))
  /\ \A parts : \A a \in Party!Loads(parts) : Party!WellAsked(a)
  /\ \A do, arg : /\ do = "status" => arg \in {"accepted", "declined"}
                  /\ do = "schedule" => arg \in {"none", "off", "on"}
                  => Party!WellAsked(Party!Write(do, arg))
BY DEF Party!WellAsked, Party!Load, Party!Loads, Party!Write, Party!AskFields

LEMMA CampaignStep ==
  ASSUME Party!CampaignKept, Party!Next
  PROVE  Party!CampaignKept' /\ Party!KeptAsItWas
<1> DEFINE Good == Party!CampaignKept' /\ Party!KeptAsItWas
           Kept == UNCHANGED <<c1, c2>>
<1>0. c1 \in Party!Users /\ c2 \in Party!Campaigns /\ \A a \in c6 : Party!WellAsked(a)
  BY DEF Party!CampaignKept
<1>k. Kept /\ (\A a \in c6' : Party!WellAsked(a)) => Good
  BY <1>0 DEF Party!CampaignKept, Party!KeptAsItWas
<1>1. ASSUME NEW a \in c6, NEW s, NEW r, Party!Answered(a, s, r)
      PROVE  \A x \in c6' : Party!WellAsked(x)
  <2>1. Party!WellAsked([a EXCEPT !.state = s, !.reply = r])
    BY <1>0 DEF Party!WellAsked, Party!AskFields
  <2> QED
    BY <1>0, <1>1, <2>1 DEF Party!Answered
<1>2. ASSUME NEW a \in c6, Party!Serve(a) PROVE Good
  <2>1. \A x \in c6' : Party!WellAsked(x)
    BY <1>1, <1>2 DEF Party!Serve
  <2>2. c1' = c1
    BY <1>2 DEF Party!Serve
  <2>3. c2' = c2 \/ (Party!Allowed(c1, a) /\ c2' = Party!Effect(c1, a))
    BY <1>2 DEF Party!Serve
  <2>4. CASE c2' = c2
    BY <1>k, <2>1, <2>2, <2>4
  <2>5. CASE Party!Allowed(c1, a) /\ c2' = Party!Effect(c1, a)
    <3>1. /\ a.do = "status" => a.arg \in {"accepted", "declined"}
          /\ a.do = "schedule" => a.arg \in {"none", "off", "on"}
      BY <1>0 DEF Party!WellAsked
    <3>2. /\ c2' \in Party!Campaigns
          /\ c2.archived /\ c2'.archived =>
               c2' = c2 \/ c2' = [c2 EXCEPT !.member = "out", !.sheet = FALSE]
      BY <1>0, <2>5, <3>1, WriteServed
    <3> QED
      BY <1>0, <2>1, <2>2, <3>2 DEF Party!CampaignKept, Party!KeptAsItWas
  <2> QED
    BY <2>3, <2>4, <2>5
<1>3. CASE Party!Elsewhere
  <2>1. PICK w \in Party!Writes : Party!Allowed(Party!Other(c1), w) /\ c2' = Party!Effect(Party!Other(c1), w)
    BY <1>3 DEF Party!Elsewhere
  <2>2. UNCHANGED <<c1, c6>>
    BY <1>3 DEF Party!Elsewhere
  <2>3. /\ w.do = "status" => w.arg \in {"accepted", "declined"}
        /\ w.do = "schedule" => w.arg \in {"none", "off", "on"}
    BY <2>1 DEF Party!Writes
  <2>4. Party!Other(c1) \in Party!Users
    BY DEF Party!Other, Party!Users
  <2>5. /\ c2' \in Party!Campaigns
        /\ c2.archived /\ c2'.archived =>
             c2' = c2 \/ c2' = [c2 EXCEPT !.member = "out", !.sheet = FALSE]
    BY <1>0, <2>1, <2>3, <2>4, WriteServed
  <2> QED
    BY <1>0, <2>2, <2>5 DEF Party!CampaignKept, Party!KeptAsItWas
<1>4. ASSUME NEW a \in c6, Party!Loaded(a) PROVE Good
  BY <1>0, <1>4, <1>k DEF Party!Loaded
<1>5. ASSUME NEW a \in c6, Party!Written(a) PROVE Good
  BY <1>0, <1>5, <1>k, WritesAsked DEF Party!Written
<1>6. CASE Party!Leave
  BY <1>6, <1>k, WritesAsked DEF Party!Leave
<1>7. ASSUME NEW do, NEW arg, Party!Send(do, arg),
             do = "status" => arg \in {"accepted", "declined"},
             do = "schedule" => arg \in {"none", "off", "on"}
      PROVE  Good
  BY <1>0, <1>7, <1>k, WritesAsked DEF Party!Send
<1>8. ASSUME NEW p, Party!Open(p) PROVE Good
  BY <1>0, <1>8, <1>k DEF Party!Open
<1>9. CASE Party!Header
  BY <1>6, <1>7, <1>8, <1>9 DEF Party!Header, Party!ToggleArchived, Party!LeaveCampaign, Party!Ask
<1>10. CASE Party!Roster
  BY <1>7, <1>8, <1>10 DEF Party!Roster, Party!InvitePanel, Party!Invite, Party!Ask
<1>11. CASE Party!MemberRow
  BY <1>7, <1>11 DEF Party!MemberRow, Party!Respond, Party!RemoveMember, Party!Ask
<1>12. CASE Party!Sheet
  BY <1>7, <1>8, <1>12
     DEF Party!Sheet, Party!UploadSheet, Party!ReplaceSheet, Party!RemoveSheet, Party!Ask
<1>13. CASE Party!AvailabilityCell
  BY <1>7, <1>13 DEF Party!AvailabilityCell, Party!CancelDate, Party!SetAvailability, Party!Ask
<1>14. CASE Party!Editor
  BY <1>7, <1>8, <1>14
     DEF Party!Editor, Party!ScheduleSetup, Party!ToggleSchedule, Party!ScheduleEditor,
         Party!SaveSchedule, Party!DeleteSchedule, Party!Ask
<1> QED
  BY <1>2, <1>3, <1>4, <1>5, <1>9, <1>10, <1>11, <1>12, <1>13, <1>14
     DEF Party!Next, Party!Arrives

(* While a campaign stays archived it stays as it was, whatever the pages   *)
(* that have not heard of it still send: each write checks for itself.      *)
THEOREM ArchivedIsFrozen == Spec => ArchivedStaysAsItWas
<1> DEFINE I == focus = "campaign" => Party!CampaignKept
<1>1. Init => I
  <2> SUFFICES ASSUME Init, focus = "campaign" PROVE Party!CampaignKept
    OBVIOUS
  <2>1. Party!Init
    BY DEF Init
  <2>2. c2 \in Party!Campaigns
    BY <2>1 DEF Party!Init, Party!Campaigns, Party!Fresh
  <2> QED
    BY <2>1, <2>2, WritesAsked DEF Party!Init, Party!CampaignKept
<1>2. I /\ [Next]_vars => I'
  <2> SUFFICES ASSUME I, [Next]_vars PROVE I'
    OBVIOUS
  <2>1. CASE UNCHANGED vars
    BY <2>1 DEF vars, Party!CampaignKept
  <2> QED
    BY <2>1, OnePage, CampaignStep
<1>3. I /\ [Next]_vars => [focus = "campaign" => Party!KeptAsItWas]_vars
  BY OnePage, CampaignStep
<1> QED
  BY <1>1, <1>2, <1>3, PTL DEF Spec, ArchivedStaysAsItWas

-----------------------------------------------------------------------------
(* The reader: c1 book, c2 loaded, c3 page, c4 mode, c5 offset, c6 came,    *)
(* c7 urls, c8 push                                                         *)

(* Every version of the book has a page.                                    *)
BooksHavePages == \A b \in DOMAIN PageCount : PageCount[b] \in Nat \ {0}

LEMMA MaxOfTwo ==
  ASSUME NEW a \in Int, NEW b \in Int
  PROVE  Book!Max({a, b}) = IF a >= b THEN a ELSE b
<1> DEFINE m == IF a >= b THEN a ELSE b
<1>1. m \in {a, b} /\ \A y \in {a, b} : m >= y
  OBVIOUS
<1>2. \A x \in {a, b} : (\A y \in {a, b} : x >= y) => x = m
  OBVIOUS
<1> QED
  BY <1>1, <1>2 DEF Book!Max

LEMMA MinOfTwo ==
  ASSUME NEW a \in Int, NEW b \in Int
  PROVE  Book!Min({a, b}) = IF a <= b THEN a ELSE b
<1> DEFINE m == IF a <= b THEN a ELSE b
<1>1. m \in {a, b} /\ \A y \in {a, b} : m <= y
  OBVIOUS
<1>2. \A x \in {a, b} : (\A y \in {a, b} : x <= y) => x = m
  OBVIOUS
<1> QED
  BY <1>1, <1>2 DEF Book!Min

(* Where goToPage lands.                                                    *)
LEMMA Lands ==
  ASSUME c2, PageCount[c1] \in Nat \ {0}, NEW p \in Int, NEW m, NEW o
  PROVE  LET n == PageCount[c1]
             q == IF p < 1 THEN 1 ELSE IF p > n THEN n ELSE p
         IN Book!Landed(p, m, o) =
              IF m # "spread" THEN q
              ELSE IF o = 1 THEN (IF q % 2 # 0 THEN q ELSE q - 1)
              ELSE IF q % 2 = 0 \/ q = 1 THEN q ELSE q - 1
<1> DEFINE n == PageCount[c1]
           q == IF p < 1 THEN 1 ELSE IF p > n THEN n ELSE p
           low == IF p <= n THEN p ELSE n
<1>1. Book!totalPages = n
  BY DEF Book!totalPages
<1>2. Book!Min({p, n}) = low
  BY MinOfTwo
<1>3. low \in Int /\ q = IF 1 >= low THEN 1 ELSE low
  OBVIOUS
<1>4. Book!Max({1, low}) = q
  BY <1>3, MaxOfTwo
<1> QED
  BY <1>1, <1>2, <1>4 DEF Book!Landed

LEMMA LandsLeft ==
  ASSUME c2, PageCount[c1] \in Nat \ {0}, NEW p \in Int, NEW m, NEW o
  PROVE  LET q == Book!Landed(p, m, o)
         IN /\ q \in 1..PageCount[c1]
            /\ m = "spread" => IF o = 1 THEN q % 2 # 0 ELSE q % 2 = 0 \/ q = 1
<1> DEFINE n == PageCount[c1]
           r == IF p < 1 THEN 1 ELSE IF p > n THEN n ELSE p
<1>1. r \in 1..n
  OBVIOUS
<1> HIDE DEF r
<1>2. (r - 1) % 2 = IF r % 2 = 0 THEN 1 ELSE 0
  BY <1>1
<1>3. r % 2 = 0 => r > 1
  BY <1>1
<1>4. Book!Landed(p, m, o) =
        IF m # "spread" THEN r
        ELSE IF o = 1 THEN (IF r % 2 # 0 THEN r ELSE r - 1)
        ELSE IF r % 2 = 0 \/ r = 1 THEN r ELSE r - 1
  BY Lands DEF r
<1> QED
  BY <1>1, <1>2, <1>3, <1>4

ReaderKept == Book!OnLeftPage /\ Book!PagesNumbered

LEMMA ReaderStep ==
  ASSUME BooksHavePages, ReaderKept, Book!Next
  PROVE  ReaderKept'
<1> DEFINE Kept == UNCHANGED <<c1, c2, c3, c4, c5, c6, c7>>
<1>0. /\ c1 \in DOMAIN PageCount /\ PageCount[c1] \in Nat \ {0} /\ c3 \in Nat
      /\ c7 \in Seq(Nat) /\ c7 # <<>> /\ Len(c7) \in Nat \ {0}
  BY LenProperties, EmptySeq DEF ReaderKept, Book!PagesNumbered, Book!Versions, BooksHavePages
<1>1. CASE Kept
  BY <1>1 DEF ReaderKept, Book!OnLeftPage, Book!PagesNumbered
<1>2. ASSUME NEW us \in Seq(Nat), NEW p \in Nat
      PROVE  Append(us, p) \in Seq(Nat) /\ Append(us, p) # <<>>
  BY AppendProperties, LenProperties, EmptySeq
<1>3. SubSeq(c7, 1, Len(c7) - 1) \in Seq(Nat)
  BY <1>0, SubSeqProperties
<1>4. ASSUME NEW p \in Int, NEW m, NEW o, NEW jump, Book!GoesTo(p, m, o, jump) PROVE ReaderKept'
  <2>1. c2 /\ c3' = Book!Landed(p, m, o) /\ c4' = m /\ c5' = o /\ UNCHANGED <<c1, c2>>
    BY <1>4 DEF Book!GoesTo
  <2>2. /\ c3' \in 1..PageCount[c1]
        /\ m = "spread" => IF o = 1 THEN c3' % 2 # 0 ELSE c3' % 2 = 0 \/ c3' = 1
    BY <1>0, <2>1, LandsLeft
  <2>3. c3' \in Nat
    BY <1>0, <2>2
  <2>4. c7' = c7 \/ c7' = Append(c7, c3') \/ c7' = Append(SubSeq(c7, 1, Len(c7) - 1), c3')
    BY <1>4 DEF Book!GoesTo
  <2>5. c7' \in Seq(Nat) /\ c7' # <<>>
    BY <1>0, <1>2, <1>3, <2>3, <2>4
  <2> QED
    BY <1>0, <2>1, <2>2, <2>3, <2>5
       DEF ReaderKept, Book!OnLeftPage, Book!PagesNumbered, Book!Versions
<1>5. ASSUME NEW b \in Book!Versions, NEW p \in Nat, Book!Opens(b, p) PROVE ReaderKept'
  <2>1. <<p>> \in Seq(Nat) /\ <<p>> # <<>>
    OBVIOUS
  <2> QED
    BY <1>5, <2>1 DEF Book!Opens, ReaderKept, Book!OnLeftPage, Book!PagesNumbered
<1>6. ASSUME NEW b \in Book!Versions, Book!SwitchVersion(b) PROVE ReaderKept'
  <2>1. c7[Len(c7)] \in Nat
    BY <1>0, ElementOfSeq
  <2>2. PICK p \in 1..PageCount[b] : Book!Opens(b, IF c7[Len(c7)] > 1 THEN c7[Len(c7)] ELSE p)
    BY <1>6 DEF Book!SwitchVersion
  <2>3. PageCount[b] \in Nat
    BY DEF BooksHavePages, Book!Versions
  <2>4. p \in Nat
    BY <2>2, <2>3
  <2>5. (IF c7[Len(c7)] > 1 THEN c7[Len(c7)] ELSE p) \in Nat
    BY <2>1, <2>4
  <2> QED
    BY <1>5, <2>2, <2>5
<1>7. CASE Book!BookArrives
  BY <1>7 DEF Book!BookArrives, ReaderKept, Book!OnLeftPage, Book!PagesNumbered
<1>8. ASSUME NEW m, Book!SetMode(m) PROVE ReaderKept'
  <2>1. CASE m = "spread"
    <3>1. Book!GoesTo(c3, m, c5, FALSE)
      BY <1>8, <2>1 DEF Book!SetMode
    <3>2. c3 \in Int
      BY <1>0
    <3> QED
      BY <1>4, <3>1, <3>2
  <2>2. CASE m # "spread"
    <3>1. /\ c4' = m /\ UNCHANGED <<c1, c2, c3, c5, c6>>
          /\ c7' = Append(c7, c3) \/ c7' = Append(SubSeq(c7, 1, Len(c7) - 1), c3)
      BY <1>8, <2>2 DEF Book!SetMode
    <3>2. c7' \in Seq(Nat) /\ c7' # <<>>
      BY <1>0, <1>2, <1>3, <3>1
    <3> QED
      BY <2>2, <3>1, <3>2 DEF ReaderKept, Book!OnLeftPage, Book!PagesNumbered
  <2> QED
    BY <2>1, <2>2
<1>9. CASE Book!PairCover
  <2>1. Book!GoesTo(c3, c4, 1 - c5, FALSE)
    BY <1>9 DEF Book!PairCover
  <2>2. c3 \in Int
    BY <1>0
  <2> QED
    BY <1>4, <2>1, <2>2
<1>10. CASE Book!BrowserBack
  <2>1. Len(c7) > 1 /\ c7' = SubSeq(c7, 1, Len(c7) - 1) /\ UNCHANGED <<c1, c2, c3, c4, c5, c6>>
    BY <1>10 DEF Book!BrowserBack
  <2>2. Len(c7') = Len(c7) - 1
    BY <1>0, <2>1, SubSeqProperties
  <2>3. Len(c7') # 0 /\ Len(<<>>) = 0
    BY <1>0, <2>1, <2>2
  <2>4. c7' # <<>>
    BY <2>3
  <2> QED
    BY <1>3, <2>1, <2>4 DEF ReaderKept, Book!OnLeftPage, Book!PagesNumbered
<1>11. ASSUME NEW d \in {-1, 1}, Book!Turn(d) PROVE ReaderKept'
  <2>1. c3 + d * Book!step \in Int
    BY <1>0 DEF Book!step
  <2> QED
    BY <1>4, <1>11, <2>1 DEF Book!Turn
<1>12. ASSUME NEW p \in 1..Book!totalPages, Book!CommitPage(p) \/ Book!Jump(p) PROVE ReaderKept'
  <2>1. p \in Int
    OBVIOUS
  <2> QED
    BY <1>4, <1>12, <2>1 DEF Book!CommitPage, Book!Jump
<1>13. ASSUME NEW x, \/ Book!ZoomTo(x) \/ Book!TogglePanel(x) \/ Book!MarkWritten(x) \/ Book!MarkFails(x)
       PROVE  Kept
  BY <1>13 DEF Book!ZoomTo, Book!TogglePanel, Book!Opening, Book!MarkWritten, Book!MarkFails, Book!placeVars
<1>14. ASSUME \/ Book!ClosePanel \/ Book!Type \/ Book!Searched \/ Book!StartEdit \/ Book!SaveEdit
              \/ Book!CancelEdit \/ Book!DeleteMark \/ Book!BookmarkPage \/ Book!BookmarkDialog
       PROVE  Kept
  BY <1>14 DEF Book!ClosePanel, Book!Opening, Book!Type, Book!Searched, Book!Finding, Book!StartEdit,
               Book!SaveEdit, Book!CancelEdit, Book!DeleteMark, Book!Marking, Book!BookmarkPage,
               Book!BookmarkDialog, Book!SaveBookmark, Book!Dialog, Book!placeVars
<1>15. CASE Book!Sidebars
  BY <1>1, <1>12, <1>14, <1>15
     DEF Book!Sidebars, Book!TocSidebar, Book!SearchSidebar, Book!BookmarkSidebar,
         Book!DetailsSidebar, Book!MarkRow, Book!JumpAnywhere
<1>16. CASE Book!MoreMenu
  BY <1>6, <1>8, <1>9, <1>16 DEF Book!MoreMenu
<1>17. CASE Book!Answers
  BY <1>1, <1>7, <1>13, <1>14, <1>17 DEF Book!Answers
<1>18. CASE Book!SpreadNav \/ Book!PageInput
  BY <1>11, <1>12, <1>18 DEF Book!SpreadNav, Book!PageInput
<1>19. CASE Book!ZoomCluster \/ Book!PanelButtons \/ Book!BookmarkPage \/ Book!BookmarkDialog
  BY <1>1, <1>13, <1>14, <1>19 DEF Book!ZoomCluster, Book!PanelButtons
<1> QED
  BY <1>10, <1>15, <1>16, <1>17, <1>18, <1>19 DEF Book!Next

(* What is on the screen, from its first page to its last.                  *)
LEMMA OnScreen ==
  ASSUME c2, PageCount[c1] \in Nat \ {0}, c3 \in Nat
  PROVE  /\ Book!Min(Book!Visible) = c3
         /\ Book!Max(Book!Visible) = IF Book!hasRight THEN c3 + 1 ELSE c3
<1>1. CASE Book!hasRight
  <2>1. Book!Visible = {c3, c3 + 1} /\ c3 \in Int /\ c3 + 1 \in Int
    BY <1>1 DEF Book!Visible
  <2> QED
    BY <1>1, <2>1, MaxOfTwo, MinOfTwo
<1>2. CASE ~Book!hasRight
  <2>1. Book!Visible = {c3, c3} /\ c3 \in Int
    BY <1>2 DEF Book!Visible
  <2> QED
    BY <1>2, <2>1, MaxOfTwo, MinOfTwo
<1> QED
  BY <1>1, <1>2

(* From x, a turn of one page or of a spread lands on y.                    *)
LEMMA TurnOfAPage ==
  ASSUME NEW n \in Nat, NEW x \in 1..n, NEW d \in {-1, 1}
  PROVE  LET to == x + d
             y == IF to < 1 THEN 1 ELSE IF to > n THEN n ELSE to
         IN /\ d = 1 => y >= x /\ y <= x + 1
            /\ d = -1 => y <= x /\ y >= x - 1
OBVIOUS

LEMMA TurnOfASpread ==
  ASSUME NEW n \in Nat, NEW x \in 1..n, NEW o, NEW d \in {-1, 1},
         IF o = 1 THEN x % 2 # 0 ELSE x % 2 = 0 \/ x = 1
  PROVE  LET to == x + 2 * d
             q == IF to < 1 THEN 1 ELSE IF to > n THEN n ELSE to
             y == IF o = 1 THEN (IF q % 2 # 0 THEN q ELSE q - 1)
                  ELSE IF q % 2 = 0 \/ q = 1 THEN q ELSE q - 1
         IN /\ d = 1 => y >= x /\ y <= IF (o # 1 /\ x = 1) \/ x + 1 > n THEN x + 1 ELSE x + 2
            /\ d = -1 => y <= x /\ y >= IF o # 1 /\ x = 2 THEN 1 ELSE x - 2
<1>1. CASE d = 1
  BY <1>1
<1>2. CASE d = -1
  BY <1>2
<1> QED
  BY <1>1, <1>2

(* What a turn to y leaves out, of the n pages, when x is on the screen.    *)
LEMMA NoneLeftOut ==
  ASSUME NEW n \in Nat, NEW x \in 1..n, NEW y \in 1..n, NEW p \in 1..n, NEW o, NEW d \in {-1, 1},
         NEW two, two => IF o = 1 THEN x % 2 # 0 ELSE x % 2 = 0 \/ x = 1,
         ~two /\ d = 1 => y >= x /\ y <= x + 1,
         ~two /\ d = -1 => y <= x /\ y >= x - 1,
         two /\ d = 1 =>
           y >= x /\ y <= IF (o # 1 /\ x = 1) \/ x + 1 > n THEN x + 1 ELSE x + 2,
         two /\ d = -1 => y <= x /\ y >= IF o # 1 /\ x = 2 THEN 1 ELSE x - 2
  PROVE  LET last(z) == IF two /\ (o = 1 \/ z # 1) /\ z + 1 <= n THEN z + 1 ELSE z
         IN ~(p > last(x) /\ p < y) /\ ~(p < x /\ p > last(y))
<1>1. CASE two
  BY <1>1
<1>2. CASE ~two
  BY <1>2
<1> QED
  BY <1>1, <1>2

(* A turn shows the pages next to the ones that were on the screen.         *)
LEMMA TurnShowsTheNext ==
  ASSUME BooksHavePages, ReaderKept
  PROVE  Book!LeavesNoneOut
<1> DEFINE n == PageCount[c1]
           two == c4 = "spread"
           last(z) == IF two /\ (c5 = 1 \/ z # 1) /\ z + 1 <= n THEN z + 1 ELSE z
<1> SUFFICES ASSUME c2, c3 \in 1..n, two => IF c5 = 1 THEN c3 % 2 # 0 ELSE c3 % 2 = 0 \/ c3 = 1,
                    NEW d \in {-1, 1}, Book!Turn(d), NEW p \in 1..n
             PROVE  /\ ~(p > Book!Max(Book!Visible) /\ p < Book!Min(Book!Visible'))
                    /\ ~(p < Book!Min(Book!Visible) /\ p > Book!Max(Book!Visible'))
  BY DEF Book!LeavesNoneOut, Book!SpreadNav, Book!totalPages, ReaderKept, Book!OnLeftPage
<1>1. n \in Nat \ {0} /\ c3 \in Nat
  BY DEF ReaderKept, Book!PagesNumbered, Book!Versions, BooksHavePages
<1>2. Book!step = IF two THEN 2 ELSE 1
  BY DEF Book!step
<1>3. PICK to : to = c3 + d * Book!step
  OBVIOUS
<1>4. c3' = Book!Landed(to, c4, c5) /\ c4' = c4 /\ c5' = c5 /\ c1' = c1
  BY <1>3 DEF Book!Turn, Book!GoesTo
<1>5. c2'
  BY <1>3 DEF Book!Turn, Book!GoesTo
<1>6. Book!hasRight <=> two /\ (c5 = 1 \/ c3 # 1) /\ c3 + 1 <= n
  BY DEF Book!hasRight, Book!totalPages
<1>7. Book!hasRight' <=> two /\ (c5 = 1 \/ c3' # 1) /\ c3' + 1 <= n
  BY <1>4, <1>5 DEF Book!hasRight, Book!totalPages
<1> HIDE DEF two
<1>8. to = IF two THEN c3 + 2 * d ELSE c3 + d
  BY <1>1, <1>2, <1>3
<1>9. to \in Int
  BY <1>1, <1>8
<1>10. LET q == IF to < 1 THEN 1 ELSE IF to > n THEN n ELSE to IN
      c3' = IF ~two THEN q
            ELSE IF c5 = 1 THEN (IF q % 2 # 0 THEN q ELSE q - 1)
            ELSE IF q % 2 = 0 \/ q = 1 THEN q ELSE q - 1
  BY <1>1, <1>4, <1>9, Lands DEF two
<1>11. c3' \in 1..n /\ (two => IF c5 = 1 THEN c3' % 2 # 0 ELSE c3' % 2 = 0 \/ c3' = 1)
  BY <1>1, <1>4, <1>9, LandsLeft DEF two
<1>12. Book!Min(Book!Visible) = c3 /\ Book!Max(Book!Visible) = last(c3)
  BY <1>1, <1>6, OnScreen
<1>13. Book!Min(Book!Visible') = c3' /\ Book!Max(Book!Visible') = last(c3')
  <2>1. Book!Visible' = {c3', last(c3')}
    BY <1>7 DEF Book!Visible
  <2>2. c3' \in Int
    BY <1>1, <1>11
  <2>3. last(c3') = c3' \/ last(c3') = c3' + 1
    OBVIOUS
  <2>4. last(c3') \in Int /\ last(c3') >= c3'
    <3> HIDE DEF last
    <3> QED
      BY <2>2, <2>3
  <2> HIDE DEF last
  <2> QED
    BY <2>1, <2>2, <2>4, MaxOfTwo, MinOfTwo
<1>14. /\ ~two /\ d = 1 => c3' >= c3 /\ c3' <= c3 + 1
       /\ ~two /\ d = -1 => c3' <= c3 /\ c3' >= c3 - 1
  BY <1>1, <1>8, <1>10, TurnOfAPage
<1>15. /\ two /\ d = 1 =>
             c3' >= c3 /\ c3' <= IF (c5 # 1 /\ c3 = 1) \/ c3 + 1 > n THEN c3 + 1 ELSE c3 + 2
       /\ two /\ d = -1 => c3' <= c3 /\ c3' >= IF c5 # 1 /\ c3 = 2 THEN 1 ELSE c3 - 2
  <2>1. CASE two
    BY <1>1, <1>8, <1>10, <2>1, TurnOfASpread
  <2> QED
    BY <2>1
<1>16. ~(p > last(c3) /\ p < c3') /\ ~(p < c3 /\ p > last(c3'))
  <2> HIDE DEF n
  <2>1. n \in Nat /\ c3 \in 1..n /\ c3' \in 1..n /\ p \in 1..n /\ d \in {-1, 1}
    BY <1>1, <1>11 DEF n
  <2>2. two => IF c5 = 1 THEN c3 % 2 # 0 ELSE c3 % 2 = 0 \/ c3 = 1
    OBVIOUS
  <2> QED
    BY <1>14, <1>15, <2>1, <2>2, NoneLeftOut
<1> HIDE DEF last
<1> QED
  BY <1>12, <1>13, <1>16

(* However the mode, the pairing and the page were changed before, a turn   *)
(* leaves no page out.                                                      *)
THEOREM TurnsLeaveNoneOut ==
  ASSUME BooksHavePages
  PROVE  Spec => TurnsSkipNothing
<1> DEFINE I == focus = "reader" => ReaderKept
<1>1. Init => I
  <2> SUFFICES ASSUME Book!Init PROVE ReaderKept
    BY DEF Init
  <2>1. c3 \in Nat
    BY DEF Book!Init, Book!Versions, BooksHavePages
  <2>2. <<c3>> \in Seq(Nat) /\ <<c3>> # <<>>
    BY <2>1
  <2> QED
    BY <2>1, <2>2 DEF Book!Init, ReaderKept, Book!OnLeftPage, Book!PagesNumbered
<1>2. I /\ [Next]_vars => I'
  <2> SUFFICES ASSUME I, [Next]_vars PROVE I'
    OBVIOUS
  <2>1. CASE UNCHANGED vars
    BY <2>1 DEF vars, ReaderKept, Book!OnLeftPage, Book!PagesNumbered
  <2> QED
    BY <2>1, OnePage, ReaderStep
<1>3. I /\ [Next]_vars => [focus = "reader" => Book!LeavesNoneOut]_vars
  BY TurnShowsTheNext
<1> QED
  BY <1>1, <1>2, <1>3, PTL DEF Spec, TurnsSkipNothing

-----------------------------------------------------------------------------
(* A system's books: c1 server, c2 main, c3 ever, c4 page, c5 rows,         *)
(* c7 editing, c8 form, c10 bulk, c11 drafts, c12 at, c14 asks              *)

LEMMA PatchedContent ==
  ASSUME NEW c \in System!Content, NEW p \in System!Patches
  PROVE  /\ System!Patched(c, p) \in System!Content
         /\ \A f \in EditFields : System!Patched(c, p)[f] = IF f \in DOMAIN p THEN p[f] ELSE c[f]
         /\ DOMAIN p \subseteq EditFields
<1>1. PICK F \in SUBSET EditFields : p \in [F -> BOOLEAN]
  BY DEF System!Patches
<1>2. \A f \in EditFields : (IF f \in DOMAIN p THEN p[f] ELSE c[f]) \in BOOLEAN
  BY <1>1 DEF System!Content
<1> QED
  BY <1>1, <1>2 DEF System!Patched, System!Content

(* A page that is patched for some of its books.                            *)
LEMMA PatchedPage ==
  ASSUME NEW c \in [Books -> System!Content], NEW a, System!AskKept(a), NEW D, D \subseteq DOMAIN a.patch
  PROVE  LET q == [b \in Books |-> IF b \in D THEN System!Patched(c[b], a.patch[b]) ELSE c[b]]
         IN /\ q \in [Books -> System!Content]
            /\ \A b \in Books, f \in EditFields :
                 q[b][f] = IF b \in D /\ f \in DOMAIN a.patch[b] THEN a.patch[b][f] ELSE c[b][f]
<1> DEFINE q == [b \in Books |-> IF b \in D THEN System!Patched(c[b], a.patch[b]) ELSE c[b]]
<1>1. ASSUME NEW b \in Books
      PROVE  /\ q[b] \in System!Content
             /\ \A f \in EditFields :
                  q[b][f] = IF b \in D /\ f \in DOMAIN a.patch[b] THEN a.patch[b][f] ELSE c[b][f]
  <2>1. c[b] \in System!Content
    OBVIOUS
  <2>2. CASE b \in D
    <3>1. a.patch[b] \in System!Patches
      BY <2>2 DEF System!AskKept
    <3>2. q[b] = System!Patched(c[b], a.patch[b])
      BY <2>2
    <3> HIDE DEF q
    <3> QED
      BY <2>1, <2>2, <3>1, <3>2, PatchedContent
  <2>3. CASE b \notin D
    BY <2>1, <2>3
  <2> QED
    BY <2>2, <2>3
<1>2. q = [b \in Books |-> q[b]]
  OBVIOUS
<1> HIDE DEF q
<1>3. q \in [Books -> System!Content]
  BY <1>1, <1>2
<1> QED
  BY <1>1, <1>3 DEF q

(* What was stored stays so.                                                *)
LEMMA StaysStored ==
  ASSUME c3 \subseteq c3', NEW p, System!WasStored(p)
  PROVE  System!WasStored(p)'
BY DEF System!WasStored

LEMMA StaysAsked ==
  ASSUME c3 \subseteq c3', NEW a, System!AskKept(a)
  PROVE  System!AskKept(a)'
<1>1. System!WasStored(a.page)'
  BY StaysStored DEF System!AskKept
<1>2. c3 \subseteq c3'
  OBVIOUS
<1> QED
  BY <1>1, <1>2 DEF System!AskKept, System!AskFields

(* A page that shows the answer to a request.                               *)
LEMMA ShowsTheAnswer ==
  ASSUME System!WasStored(c4), NEW a, System!AskKept(a), a.answered, a.kind \in {"book", "bulk", "tags"},
         NEW D, D \subseteq DOMAIN a.patch \ a.refused
  PROVE  System!WasStored([b \in Books |-> IF b \in D THEN System!Patched(c4[b], a.patch[b]) ELSE c4[b]])
<1> DEFINE q == [b \in Books |-> IF b \in D THEN System!Patched(c4[b], a.patch[b]) ELSE c4[b]]
<1>1. c4 \in [Books -> System!Content] /\ \A b \in Books, f \in EditFields : c4[b][f] => <<b, f>> \in c3
  BY DEF System!WasStored
<1>2. \A b \in D : \A f \in DOMAIN a.patch[b] : a.patch[b][f] => <<b, f>> \in c3
  BY DEF System!AskKept
<1>3. /\ q \in [Books -> System!Content]
      /\ \A b \in Books, f \in EditFields :
           q[b][f] = IF b \in D /\ f \in DOMAIN a.patch[b] THEN a.patch[b][f] ELSE c4[b][f]
  BY <1>1, PatchedPage
<1> HIDE DEF q
<1>4. System!WasStored(q)
  BY <1>1, <1>2, <1>3 DEF System!WasStored
<1> QED
  BY <1>4 DEF q

LEMMA NewAsk ==
  ASSUME System!WasStored(c4), c5 \subseteq Books, NEW kind, NEW patch, NEW follow,
         kind = "versions" => follow \in Books,
         \A b \in DOMAIN patch : b \in Books /\ patch[b] \in System!Patches
  PROVE  System!AskKept(System!Ask(kind, patch, follow))
<1> DEFINE own == kind = "system"
           p == IF own THEN c4 ELSE System!Blanks
           r == IF own THEN c5 ELSE {}
           a == System!Ask(kind, patch, follow)
<1>1. System!WasStored(System!Blanks)
  BY DEF System!WasStored, System!Blanks, System!Blank, System!Content
<1>2. System!WasStored(p) /\ r \subseteq Books
  BY <1>1
<1> HIDE DEF p, r
<1>3. a = [kind |-> kind, patch |-> patch, follow |-> follow, page |-> p, rows |-> r,
           answered |-> FALSE, refused |-> {}]
  BY DEF System!Ask, p, r
<1> HIDE DEF a
<1>4. /\ DOMAIN a = System!AskFields /\ a.kind = kind /\ a.patch = patch /\ a.follow = follow
      /\ a.page = p /\ a.rows = r /\ a.answered = FALSE /\ a.refused = {}
  BY <1>3 DEF System!AskFields
<1>5. System!AskKept(a)
  BY <1>2, <1>4 DEF System!AskKept
<1> QED
  BY <1>5 DEF a

(* The server: what it takes it has stored, and what it answers is that.    *)
LEMMA SystemServes ==
  ASSUME System!ShownKept, NEW a \in c14, System!Serve(a)
  PROVE  System!ShownKept'
<1>0. /\ System!WasStored(c1) /\ System!WasStored(c4) /\ c2 \subseteq Books /\ c5 \subseteq Books
      /\ System!AskKept(a) /\ \A x \in c14 : System!AskKept(x)
  BY DEF System!ShownKept
<1>1. UNCHANGED <<c4, c5, c8, c10, c11, c12>>
  BY DEF System!Serve, System!pageVars, System!editorVars, System!bulkVars
<1>2. ASSUME c3 \subseteq c3', System!WasStored(c1)', c2' \subseteq Books, NEW b, System!AskKept(b)',
             c14' = (c14 \ {a}) \union {b}
      PROVE  System!ShownKept'
  <2>1. \A x \in c14 : System!AskKept(x)'
    BY <1>0, <1>2, StaysAsked
  <2>2. \A x \in c14' : System!AskKept(x)'
    BY <1>2, <2>1
  <2>3. System!WasStored(c4)'
    BY <1>0, <1>1, <1>2 DEF System!WasStored
  <2> QED
    BY <1>1, <1>2, <2>2, <2>3 DEF System!ShownKept
<1>3. ASSUME a.kind = "reload", System!Reads(a) PROVE System!ShownKept'
  <2>0. PICK b : b = [a EXCEPT !.answered = TRUE, !.page = c1, !.rows = c2]
    OBVIOUS
  <2>1. UNCHANGED <<c1, c2, c3>> /\ c14' = (c14 \ {a}) \union {b}
    BY <1>3, <2>0 DEF System!Reads, System!serverVars
  <2>2. /\ DOMAIN b = System!AskFields /\ b.kind = a.kind /\ b.patch = a.patch /\ b.follow = a.follow
        /\ b.page = c1 /\ b.rows = c2 /\ b.refused = a.refused
    BY <1>0, <2>0 DEF System!AskKept, System!AskFields
  <2>4. System!WasStored(c1)'
    BY <1>0, <2>1 DEF System!WasStored
  <2>5. System!WasStored(b.page)'
    BY <1>0, <2>1, <2>2 DEF System!WasStored
  <2>6. System!AskKept(b)'
    BY <1>0, <1>3, <2>1, <2>2, <2>5 DEF System!AskKept
  <2> QED
    BY <1>0, <1>2, <2>1, <2>4, <2>6
<1>4. ASSUME a.kind = "versions", System!Versions(a) PROVE System!ShownKept'
  <2>0. PICK b : b = [a EXCEPT !.answered = TRUE]
    OBVIOUS
  <2>1. UNCHANGED <<c1, c3>> /\ c14' = (c14 \ {a}) \union {b}
    BY <1>4, <2>0 DEF System!Versions
  <2>2. /\ DOMAIN b = System!AskFields /\ b.kind = a.kind /\ b.patch = a.patch /\ b.follow = a.follow
        /\ b.page = a.page /\ b.rows = a.rows /\ b.refused = a.refused
    BY <1>0, <2>0 DEF System!AskKept, System!AskFields
  <2>4. c2' \subseteq Books
    BY <1>0, <1>4 DEF System!Versions, System!AskKept
  <2>5. System!WasStored(c1)'
    BY <1>0, <2>1 DEF System!WasStored
  <2>6. System!AskKept(a)'
    BY <1>0, <2>1, StaysAsked
  <2>7. System!AskKept(b)'
    BY <1>4, <2>2, <2>6 DEF System!AskKept
  <2> QED
    BY <1>2, <2>1, <2>4, <2>5, <2>7
<1>5. CASE System!Writes(a)
  <2>1. PICK no \in SUBSET (DOMAIN a.patch) :
          /\ no # {} => a.kind \in {"bulk", "tags"}
          /\ System!Stored([b \in Books |-> IF b \in DOMAIN a.patch \ no
                                            THEN System!Patched(c1[b], a.patch[b]) ELSE c1[b]])
          /\ c14' = (c14 \ {a}) \union {[a EXCEPT !.answered = TRUE, !.refused = no]}
          /\ c2' = c2
    BY <1>5 DEF System!Writes
  <2>0. PICK b, D : b = [a EXCEPT !.answered = TRUE, !.refused = no] /\ D = DOMAIN a.patch \ no
    OBVIOUS
  <2> DEFINE s == [x \in Books |-> IF x \in D THEN System!Patched(c1[x], a.patch[x]) ELSE c1[x]]
  <2>2. c1' = s /\ c3' = c3 \union {bf \in Books \X EditFields : s[bf[1]][bf[2]]}
    BY <2>0, <2>1 DEF System!Stored
  <2>3. /\ s \in [Books -> System!Content]
        /\ \A x \in Books, f \in EditFields :
             s[x][f] = IF x \in D /\ f \in DOMAIN a.patch[x] THEN a.patch[x][f] ELSE c1[x][f]
    <3>1. c1 \in [Books -> System!Content] /\ D \subseteq DOMAIN a.patch
      BY <1>0, <2>0 DEF System!WasStored
    <3>2. System!AskKept(a)
      BY <1>0
    <3>3. PICK c : c = c1
      OBVIOUS
    <3>4. c \in [Books -> System!Content]
      BY <3>1, <3>3
    <3> DEFINE q == [x \in Books |-> IF x \in D THEN System!Patched(c[x], a.patch[x]) ELSE c[x]]
    <3>5. /\ q \in [Books -> System!Content]
          /\ \A x \in Books, f \in EditFields :
             q[x][f] = IF x \in D /\ f \in DOMAIN a.patch[x] THEN a.patch[x][f] ELSE c[x][f]
      BY <3>1, <3>2, <3>4, PatchedPage
    <3> QED
      BY <3>3, <3>5
  <2>4. /\ DOMAIN b = System!AskFields /\ b.kind = a.kind /\ b.patch = a.patch /\ b.follow = a.follow
        /\ b.page = a.page /\ b.rows = a.rows /\ b.refused = no
    BY <1>0, <2>0 DEF System!AskKept, System!AskFields
  <2>5. c14' = (c14 \ {a}) \union {b}
    BY <2>0, <2>1
  <2> HIDE DEF s
  <2>6. \A x \in Books, f \in EditFields : s[x][f] => <<x, f>> \in c3'
    BY <2>2
  <2>7. System!WasStored(c1)' /\ c3 \subseteq c3'
    BY <2>2, <2>3, <2>6 DEF System!WasStored
  <2>8. System!AskKept(a)'
    BY <1>0, <2>7, StaysAsked
  <2>9. ASSUME NEW x \in D, NEW f \in DOMAIN a.patch[x], a.patch[x][f] PROVE <<x, f>> \in c3'
    <3>1. x \in Books /\ a.patch[x] \in System!Patches
      BY <1>0, <2>0 DEF System!AskKept
    <3>2. f \in EditFields
      BY <3>1 DEF System!Patches
    <3> QED
      BY <2>3, <2>6, <2>9, <3>1, <3>2
  <2>10. System!AskKept(b)'
    BY <2>0, <2>1, <2>4, <2>8, <2>9 DEF System!AskKept
  <2> QED
    BY <1>0, <1>2, <2>1, <2>5, <2>7, <2>10
<1> QED
  BY <1>3, <1>4, <1>5 DEF System!Serve

(* What the answers and the user change, the server's part left alone.      *)
LEMMA ShownKeptBy ==
  ASSUME System!ShownKept, UNCHANGED <<c1, c2, c3>>, System!WasStored(c4'), c5' \subseteq Books,
         c8' \in System!Content, c11' \in [Books -> System!Content], c10' => c12' \in Books,
         \A a \in c14' : System!AskKept(a)
  PROVE  System!ShownKept'
<1>1. \A a \in c14' : System!AskKept(a)'
  BY StaysAsked
<1> QED
  BY <1>1 DEF System!ShownKept, System!WasStored

LEMMA SystemAnswers ==
  ASSUME System!ShownKept, NEW a \in c14, System!Arrives(a) \/ System!Fails(a)
  PROVE  System!ShownKept'
<1>0. /\ System!WasStored(c1) /\ System!WasStored(c4) /\ c2 \subseteq Books /\ c5 \subseteq Books
      /\ c4 \in [Books -> System!Content]
      /\ c8 \in System!Content /\ c11 \in [Books -> System!Content] /\ (c10 => c12 \in Books)
      /\ System!AskKept(a) /\ \A x \in c14 : System!AskKept(x)
  BY DEF System!ShownKept, System!WasStored
<1>b. System!Blank \in System!Content /\ System!Blanks \in [Books -> System!Content]
  BY DEF System!Blank, System!Blanks, System!Content
<1>a. ASSUME a.answered, a.kind \in {"book", "bulk"}, a.refused = {} PROVE System!WasStored(System!AsAsked(a))
  <2>1. DOMAIN a.patch \subseteq DOMAIN a.patch \ a.refused
    BY <1>a
  <2> QED
    BY <1>0, <1>a, <2>1, ShowsTheAnswer DEF System!AsAsked
<1>1. CASE System!Reloaded(a)
  <2>1. c4' = a.page /\ c5' = a.rows /\ c14' = c14 \ {a} /\ UNCHANGED <<c1, c2, c3, c10, c11, c12>>
    BY <1>1 DEF System!Reloaded, System!Showing, System!serverVars, System!bulkVars
  <2>2. System!WasStored(a.page) /\ a.page \in [Books -> System!Content] /\ a.rows \subseteq Books
    BY <1>0 DEF System!AskKept, System!WasStored
  <2>3. c8' = System!Blank \/ (c7' \in c5' /\ c8' = c4'[c7']) \/ c8' = c8
    BY <1>1 DEF System!Reloaded
  <2>4. c8' \in System!Content
    BY <1>0, <1>b, <2>1, <2>2, <2>3
  <2> QED
    BY <1>0, <2>1, <2>2, <2>4, ShownKeptBy
<1>2. ASSUME a.answered, System!BookSaved(a) PROVE System!ShownKept'
  <2>1. /\ c4' = System!AsAsked(a) /\ c8' = System!Blank /\ c14' = c14 \ {a}
        /\ UNCHANGED <<c1, c2, c3, c5, c10, c11, c12>>
    BY <1>2 DEF System!BookSaved, System!Showing, System!serverVars, System!bulkVars
  <2>2. a.kind = "book" /\ a.refused = {}
    BY <1>0, <1>2 DEF System!BookSaved, System!AskKept
  <2>3. System!WasStored(c4')
    BY <1>2, <2>1, <2>2, <1>a DEF System!AsAsked
  <2> QED
    BY <1>0, <1>b, <2>1, <2>3, ShownKeptBy
<1>3. CASE System!SystemSaved(a)
  <2>1. c4' = a.page /\ c5' = a.rows /\ c14' = c14 \ {a} /\ UNCHANGED <<c1, c2, c3, c8, c10, c11, c12>>
    BY <1>3 DEF System!SystemSaved, System!Showing, System!serverVars, System!bulkVars
  <2>2. System!WasStored(a.page) /\ a.rows \subseteq Books
    BY <1>0 DEF System!AskKept
  <2> QED
    BY <1>0, <2>1, <2>2, ShownKeptBy
<1>4. ASSUME a.answered, System!BulkSaved(a) PROVE System!ShownKept'
  <2>1. /\ c14' = c14 \ {a} /\ UNCHANGED <<c1, c2, c3, c5, c8>> /\ a.kind = "bulk"
        /\ \/ a.refused = {} /\ c4' = System!AsAsked(a) /\ c10' = FALSE /\ c11' = System!Blanks
           \/ c4' = c4 /\ UNCHANGED <<c10, c11, c12>>
    BY <1>4 DEF System!BulkSaved, System!Showing, System!Dismissed, System!serverVars, System!editorVars
  <2>2. System!WasStored(c4')
    BY <1>0, <1>4, <2>1, <1>a DEF System!AsAsked
  <2>3. c11' \in [Books -> System!Content] /\ (c10' => c12' \in Books)
    BY <1>0, <1>b, <2>1
  <2> QED
    BY <1>0, <2>1, <2>2, <2>3, ShownKeptBy
<1>5. ASSUME a.answered, System!TagsAdded(a) PROVE System!ShownKept'
  <2>1. /\ c14' = c14 \ {a} /\ UNCHANGED <<c1, c2, c3, c5, c8, c10, c11, c12>> /\ a.kind = "tags"
        /\ c4' = [b \in Books |-> IF b \in DOMAIN a.patch \ a.refused
                                  THEN System!Patched(c4[b], a.patch[b]) ELSE c4[b]]
    BY <1>5 DEF System!TagsAdded, System!Showing, System!serverVars, System!editorVars
  <2>2. System!WasStored(c4')
    BY <1>0, <1>5, <2>1, ShowsTheAnswer
  <2> QED
    BY <1>0, <2>1, <2>2, ShownKeptBy
<1>6. CASE System!Fetched(a)
  <2>1. PICK b \in DOMAIN a.patch :
          /\ c8' = IF a.follow = 0 /\ c7 = b THEN System!Patched(c8, a.patch[b]) ELSE c8
          /\ c11' = IF a.follow = b /\ c10 THEN [c11 EXCEPT ![b] = System!Patched(@, a.patch[b])] ELSE c11
    BY <1>6 DEF System!Fetched
  <2>2. c14' = c14 \ {a} /\ UNCHANGED <<c1, c2, c3, c4, c5, c10, c12>>
    BY <1>6 DEF System!Fetched, System!Showing, System!serverVars
  <2>3. b \in Books /\ a.patch[b] \in System!Patches
    BY <1>0, <2>1 DEF System!AskKept
  <2>4. System!Patched(c8, a.patch[b]) \in System!Content /\ System!Patched(c11[b], a.patch[b]) \in System!Content
    BY <1>0, <2>3, PatchedContent
  <2>5. c8' \in System!Content /\ c11' \in [Books -> System!Content]
    BY <1>0, <2>1, <2>4
  <2> QED
    BY <1>0, <2>2, <2>5, ShownKeptBy
<1>7. CASE System!VersionsChanged(a)
  <2>1. c14' = (c14 \ {a}) \union {System!Ask("reload", System!None, a.follow)}
        /\ UNCHANGED <<c1, c2, c3, c4, c5, c8, c10, c11, c12>>
    BY <1>7 DEF System!VersionsChanged, System!serverVars, System!pageVars, System!editorVars, System!bulkVars
  <2>2. System!AskKept(System!Ask("reload", System!None, a.follow))
    BY <1>0, NewAsk DEF System!None
  <2> QED
    BY <1>0, <2>1, <2>2, ShownKeptBy
<1>8. CASE System!Fails(a)
  BY <1>0, <1>8, ShownKeptBy DEF System!Fails, System!serverVars, System!pageVars, System!editorVars
<1> QED
  BY <1>1, <1>2, <1>3, <1>4, <1>5, <1>6, <1>7, <1>8 DEF System!Arrives

LEMMA SystemUsed ==
  ASSUME "tags" \in EditFields, System!ShownKept,
         \/ System!Header \/ System!Category \/ System!BookForm \/ System!FetchDialog
         \/ System!VersionsSection \/ System!SystemForm \/ System!BulkBar \/ System!Carousel
         \/ System!BookFields \/ System!SystemFields \/ System!ApplyAllDialog
  PROVE  System!ShownKept'
<1> DEFINE Goal == System!ShownKept'
<1>0. /\ System!WasStored(c4) /\ c5 \subseteq Books
      /\ c8 \in System!Content /\ c11 \in [Books -> System!Content] /\ (c10 => c12 \in Books)
      /\ \A x \in c14 : System!AskKept(x)
  BY DEF System!ShownKept
<1>b. System!Blank \in System!Content /\ System!Blanks \in [Books -> System!Content]
  BY DEF System!Blank, System!Blanks, System!Content
<1>p. c4 \in [Books -> System!Content]
  BY <1>0 DEF System!WasStored
<1>c. ASSUME NEW c \in System!Content PROVE c \in System!Patches
  BY DEF System!Content, System!Patches
<1>1. ASSUME System!Leave PROVE Goal
  <2>1. System!WasStored(System!Blanks)
    BY <1>b DEF System!WasStored, System!Blanks, System!Blank
  <2>2. System!AskKept(System!Ask("reload", System!None, 0))
    BY <1>0, NewAsk DEF System!None
  <2>3. ASSUME NEW x \in c14, ~x.answered PROVE System!AskKept([x EXCEPT !.kind = "gone"])
    <3>1. PICK y : y = [x EXCEPT !.kind = "gone"]
      OBVIOUS
    <3>2. /\ DOMAIN y = System!AskFields /\ y.kind = "gone" /\ y.patch = x.patch /\ y.follow = x.follow
          /\ y.page = x.page /\ y.rows = x.rows /\ y.answered = x.answered /\ y.refused = x.refused
      BY <1>0, <3>1 DEF System!AskKept, System!AskFields
    <3>3. System!AskKept(x)
      BY <1>0
    <3> QED
      BY <2>3, <3>1, <3>2, <3>3 DEF System!AskKept
  <2>4. \A x \in c14' : System!AskKept(x)
    BY <1>1, <2>2, <2>3 DEF System!Leave
  <2>5. /\ c4' = System!Blanks /\ c5' = {} /\ c8' = System!Blank /\ c10' = FALSE /\ c11' = System!Blanks
        /\ UNCHANGED <<c1, c2, c3>>
    BY <1>1 DEF System!Leave, System!serverVars
  <2> QED
    BY <1>b, <2>1, <2>4, <2>5, ShownKeptBy
<1>2. ASSUME NEW kind, NEW patch, NEW follow, System!Send(kind, patch, follow),
             kind = "versions" => follow \in Books,
             \A b \in DOMAIN patch : b \in Books /\ patch[b] \in System!Patches
      PROVE  \A x \in c14' : System!AskKept(x)
  <2>1. System!AskKept(System!Ask(kind, patch, follow))
    BY <1>0, <1>2, NewAsk
  <2> QED
    BY <1>0, <1>2, <2>1 DEF System!Send
<1>3. ASSUME UNCHANGED <<c1, c2, c3, c4, c5>>, \A x \in c14' : System!AskKept(x),
             c8' \in System!Content, c11' \in [Books -> System!Content], c10' => c12' \in Books
      PROVE  Goal
  BY <1>0, <1>3, ShownKeptBy
<1>4. ASSUME NEW b, NEW d \in System!Content, System!Editing(b, d) PROVE Goal
  BY <1>0, <1>3, <1>4 DEF System!Editing, System!serverVars, System!pageVars, System!bulkVars
<1>5. ASSUME NEW kind, NEW patch, NEW follow, System!Send(kind, patch, follow), System!Asking,
             kind = "versions" => follow \in Books,
             \A b \in DOMAIN patch : b \in Books /\ patch[b] \in System!Patches
      PROVE  Goal
  <2>1. \A x \in c14' : System!AskKept(x)
    BY <1>2, <1>5
  <2> QED
    BY <1>0, <1>3, <1>5, <2>1 DEF System!Asking, System!serverVars, System!pageVars, System!editorVars, System!bulkVars
<1>6. CASE System!BookForm
  <2>1. ASSUME System!SaveBook PROVE Goal
    <3>1. c7 \in Books /\ c8 \in System!Patches
      BY <1>0, <1>c, <2>1 DEF System!SaveBook
    <3> QED
      BY <1>5, <2>1, <3>1 DEF System!SaveBook
  <2>2. ASSUME System!CancelBook PROVE Goal
    BY <1>4, <1>b, <2>2 DEF System!CancelBook
  <2>3. ASSUME NEW f \in EditFields, System!SetForm(f) PROVE Goal
    <3>1. [c8 EXCEPT ![f] = ~@] \in System!Content
      BY <1>0 DEF System!Content
    <3> QED
      BY <1>4, <2>3, <3>1 DEF System!SetForm
  <2> QED
    BY <1>6, <2>1, <2>2, <2>3 DEF System!BookForm
<1>7. CASE System!FetchDialog
  <2>1. ASSUME NEW p \in System!Patches, System!FetchBook(p) PROVE Goal
    <3>1. c7 \in Books
      BY <1>0, <2>1 DEF System!FetchBook
    <3> QED
      BY <1>5, <2>1, <3>1 DEF System!FetchBook
  <2>2. ASSUME NEW p \in System!Patches, System!FetchDraft(p) PROVE Goal
    <3>1. c12 \in Books
      BY <1>0, <2>2 DEF System!FetchDraft
    <3> QED
      BY <1>5, <2>2, <3>1 DEF System!FetchDraft
  <2> QED
    BY <1>7, <2>1, <2>2 DEF System!FetchDialog, System!Incoming
<1>8. CASE System!VersionsSection
  BY <1>5, <1>8 DEF System!VersionsSection, System!MakeMain, System!None
<1>9. ASSUME System!EditSystem PROVE Goal
  BY <1>0, <1>3, <1>9 DEF System!EditSystem, System!serverVars, System!pageVars, System!bulkVars
<1>10. CASE System!SystemForm
  BY <1>5, <1>9, <1>10 DEF System!SystemForm, System!SaveSystem, System!None
<1>11. CASE System!Header
  BY <1>1, <1>9, <1>11 DEF System!Header
<1>12. ASSUME NEW p, System!Picking(p) PROVE Goal
  BY <1>0, <1>3, <1>12 DEF System!Picking, System!serverVars, System!pageVars, System!editorVars
<1>13. CASE System!Category
  <2>1. ASSUME NEW b \in Books, System!EditBook(b) PROVE Goal
    BY <1>4, <1>p, <2>1 DEF System!EditBook
  <2> QED
    BY <1>12, <1>13, <2>1
       DEF System!Category, System!FolderGroup, System!BookLine, System!BookCard, System!ActionsMenu,
           System!ToggleBook
<1>14. CASE System!BulkBar
  <2>1. ASSUME System!ApplyTags PROVE Goal
    <3> DEFINE tag == [f \in {"tags"} |-> TRUE]
    <3>1. tag \in System!Patches
      <4>1. {"tags"} \in SUBSET EditFields
        OBVIOUS
      <4>2. tag \in [{"tags"} -> BOOLEAN]
        OBVIOUS
      <4> HIDE DEF tag
      <4> QED
        BY <4>1, <4>2 DEF System!Patches
    <3>3. System!Send("tags", [b \in System!items |-> tag], 0)
      BY <2>1 DEF System!ApplyTags
    <3> HIDE DEF tag
    <3>2. System!items \subseteq Books
      BY <1>0 DEF System!items
    <3>4. \A x \in c14' : System!AskKept(x)
      BY <1>2, <3>1, <3>2, <3>3
    <3> QED
      BY <1>0, <1>3, <2>1, <3>4 DEF System!ApplyTags, System!serverVars, System!pageVars, System!editorVars
  <2>2. ASSUME System!OpenBulk PROVE Goal
    <3>1. /\ c11' = [b \in Books |-> IF b \in System!items THEN c4[b] ELSE System!Blank]
          /\ c12' \in System!items /\ UNCHANGED <<c1, c2, c3, c4, c5, c8, c14>>
      BY <2>2 DEF System!OpenBulk, System!serverVars, System!pageVars, System!editorVars
    <3>2. c12' \in Books
      BY <1>0, <3>1 DEF System!items
    <3>3. c11' \in [Books -> System!Content]
      BY <1>b, <1>p, <3>1
    <3> QED
      BY <1>0, <1>3, <3>1, <3>2, <3>3
  <2> QED
    BY <1>12, <1>14, <2>1, <2>2 DEF System!BulkBar, System!ExitBulk
<1>15. ASSUME NEW d \in [Books -> System!Content], NEW b \in Books, System!Drafting(d, b) PROVE Goal
  BY <1>0, <1>3, <1>15 DEF System!Drafting, System!serverVars, System!pageVars, System!editorVars
<1>16. CASE System!Carousel
  <2>1. ASSUME System!CloseBulk PROVE Goal
    BY <1>0, <1>3, <1>b, <2>1
       DEF System!CloseBulk, System!Dismissed, System!serverVars, System!pageVars, System!editorVars
  <2>2. ASSUME System!SaveAll PROVE Goal
    <3> DEFINE changed == {b \in System!items : System!Changed(b) # {}}
    <3>1. UNCHANGED <<c1, c2, c3, c4, c5, c8>>
      BY <2>2 DEF System!SaveAll, System!serverVars, System!pageVars, System!editorVars
    <3>2. CASE changed = {}
      BY <1>0, <1>3, <1>b, <2>2, <3>1, <3>2 DEF System!SaveAll, System!Dismissed
    <3>3. CASE changed # {}
      <4>1. /\ System!Send("bulk", [b \in changed |-> [f \in System!Changed(b) |-> c11[b][f]]], 0)
            /\ UNCHANGED <<c10, c11, c12>>
        BY <2>2, <3>3 DEF System!SaveAll
      <4>2. ASSUME NEW b \in changed
            PROVE  b \in Books /\ [f \in System!Changed(b) |-> c11[b][f]] \in System!Patches
        <5>1. b \in Books /\ System!Changed(b) \subseteq EditFields /\ c11[b] \in System!Content
          BY <1>0 DEF System!items, System!Changed
        <5>2. [f \in System!Changed(b) |-> c11[b][f]] \in [System!Changed(b) -> BOOLEAN]
          BY <5>1 DEF System!Content
        <5> QED
          BY <5>1, <5>2 DEF System!Patches
      <4>3. \A x \in c14' : System!AskKept(x)
        BY <1>2, <4>1, <4>2
      <4> QED
        BY <1>0, <1>3, <3>1, <4>1, <4>3
    <3> QED
      BY <3>2, <3>3
  <2>3. ASSUME NEW b \in Books, System!Go(b) PROVE Goal
    BY <1>0, <1>15, <2>3 DEF System!Go
  <2> QED
    BY <1>16, <2>1, <2>2, <2>3 DEF System!Carousel
<1>17. CASE System!BookFields \/ System!SystemFields
  <2>1. PICK f \in EditFields : System!SetField(f)
    BY <1>17 DEF System!BookFields, System!SystemFields
  <2>2. c12 \in Books
    BY <1>0, <2>1 DEF System!SetField, System!Drafting
  <2>3. [c11 EXCEPT ![c12][f] = ~@] \in [Books -> System!Content]
    BY <1>0, <2>2 DEF System!Content
  <2> QED
    BY <1>15, <2>1, <2>2, <2>3 DEF System!SetField
<1>18. CASE System!ApplyAllDialog
  <2>1. PICK F \in SUBSET EditFields : System!ApplyToAll(F)
    BY <1>18 DEF System!ApplyAllDialog
  <2>2. c12 \in Books
    BY <1>0, <2>1 DEF System!ApplyToAll, System!Drafting
  <2> DEFINE d == [b \in Books |-> IF b \in System!items
                                  THEN [f \in EditFields |-> c11[IF f \in F THEN c12 ELSE b][f]] ELSE c11[b]]
  <2>3. ASSUME NEW b \in Books PROVE [f \in EditFields |-> c11[IF f \in F THEN c12 ELSE b][f]] \in System!Content
    BY <1>0, <2>2 DEF System!Content
  <2>4. d \in [Books -> System!Content]
    BY <1>0, <2>3
  <2> QED
    BY <1>15, <2>1, <2>2, <2>4 DEF System!ApplyToAll
<1> QED
  BY <1>6, <1>7, <1>8, <1>10, <1>11, <1>13, <1>14, <1>16, <1>17, <1>18

(* In whatever order the answers come, what is shown has been stored.       *)
THEOREM ShownWasStored ==
  ASSUME "tags" \in EditFields
  PROVE  Spec => []PageNeverAhead
<1> DEFINE I == focus = "system" => System!ShownKept
<1>1. Init => I
  <2> SUFFICES ASSUME System!Init PROVE System!ShownKept
    BY DEF Init
  <2>1. System!Blank \in System!Content /\ System!WasStored(System!Blanks)
    BY DEF System!Blank, System!Blanks, System!Content, System!WasStored
  <2>2. /\ c1 = System!Blanks /\ c2 = Books /\ c3 = {} /\ c4 = System!Blanks /\ c5 = {} /\ c8 = System!Blank
        /\ c10 = FALSE /\ c11 = System!Blanks /\ c14 = {System!Ask("reload", System!None, 0)}
    BY DEF System!Init
  <2>3. System!AskKept(System!Ask("reload", System!None, 0))
    BY <2>1, <2>2, NewAsk DEF System!None
  <2> QED
    BY <2>1, <2>2, <2>3 DEF System!ShownKept, System!Blanks
<1>2. I /\ [Next]_vars => I'
  <2> SUFFICES ASSUME I, [Next]_vars PROVE I'
    OBVIOUS
  <2>1. CASE UNCHANGED vars
    BY <2>1, StaysAsked DEF vars, System!ShownKept, System!WasStored
  <2>2. System!Next /\ System!ShownKept => System!ShownKept'
    BY SystemServes, SystemAnswers, SystemUsed DEF System!Next
  <2> QED
    BY <2>1, <2>2, OnePage
<1>3. I => PageNeverAhead
  BY DEF PageNeverAhead, System!PageNeverAhead, System!ShownKept, System!WasStored
<1> QED
  BY <1>1, <1>2, <1>3, PTL DEF Spec

-----------------------------------------------------------------------------
(* The notes of a campaign: c1 exists, c2 parent                            *)

WikiKept ==
  /\ c1 \subseteq Wiki!Notes /\ c2 \in [Wiki!Notes -> Wiki!Notes \union {0}]
  /\ Wiki!NoLoops /\ Wiki!ParentsExist

(* A note that gets a parent that is not below it closes no loop: without   *)
(* what is below it, a loop would be one of before.                         *)
LEMMA MoveClosesNoLoop ==
  ASSUME WikiKept, NEW n \in Wiki!Notes, NEW p \in c1 \union {0},
         p \notin Wiki!Below(n, c2), c2' = [c2 EXCEPT ![n] = p]
  PROVE  Wiki!NoLoops'
<1> USE DEF WikiKept
<1>1. PICK D \in SUBSET Wiki!Notes :
        n \in D /\ p \notin D /\ \A k \in Wiki!Notes : c2[k] \in D => k \in D
  <2>1. CASE p \in Wiki!Notes
    BY <2>1 DEF Wiki!Below
  <2>2. CASE p = 0
    <3>1. n \in Wiki!Notes /\ p \notin Wiki!Notes
      BY <2>2 DEF Wiki!Notes
    <3> QED BY <3>1
  <2> QED BY <2>1, <2>2
<1> SUFFICES ASSUME NEW S \in SUBSET Wiki!Notes, S # {}, \A m \in S : c2'[m] \in S
             PROVE  FALSE
  BY DEF Wiki!NoLoops
<1>2. CASE n \notin S
  BY <1>2 DEF Wiki!NoLoops
<1>3. CASE n \in S
  <2>1. \A m \in S \ D : c2[m] \in S \ D
    BY <1>1
  <2>2. p \in S \ D
    BY <1>1, <1>3
  <2> QED BY <2>1, <2>2 DEF Wiki!NoLoops
<1> QED
  BY <1>2, <1>3

(* Nor does a note that goes: its parent is between its children and theirs.*)
LEMMA RemovalClosesNoLoop ==
  ASSUME WikiKept, NEW n \in Wiki!Notes, Wiki!Removed(n)
  PROVE  WikiKept'
<1> USE DEF WikiKept
<1>1. CASE n \notin c1
  BY <1>1 DEF Wiki!Removed, Wiki!NoLoops, Wiki!ParentsExist
<1>2. CASE n \in c1
  <2>0. 0 \notin Wiki!Notes
    BY DEF Wiki!Notes
  <2>1. c2' = [m \in Wiki!Notes |-> IF m = n THEN 0 ELSE IF c2[m] = n THEN c2[n] ELSE c2[m]]
    BY <1>2 DEF Wiki!Removed
  <2>2. c1' = c1 \ {n}
    BY DEF Wiki!Removed
  <2>3. c2[n] # n
    <3>1. {n} \in SUBSET Wiki!Notes /\ {n} # {}
      OBVIOUS
    <3> QED BY <3>1 DEF Wiki!NoLoops
  <2>4. Wiki!ParentsExist'
    BY <2>1, <2>2, <2>3 DEF Wiki!ParentsExist
  <2>5. ASSUME NEW S \in SUBSET Wiki!Notes, S # {}, \A m \in S : c2'[m] \in S
        PROVE  FALSE
    <3>1. n \notin S
      BY <2>0, <2>1, <2>5
    <3>2. CASE \E m \in S : c2[m] = n
      <4>1. \A m \in S \union {n} : c2[m] \in S \union {n}
        BY <2>1, <2>5, <3>1, <3>2
      <4> QED BY <4>1 DEF Wiki!NoLoops
    <3>3. CASE \A m \in S : c2[m] # n
      BY <2>1, <2>5, <3>1, <3>3 DEF Wiki!NoLoops
    <3> QED BY <3>2, <3>3
  <2>6. Wiki!NoLoops'
    BY <2>5 DEF Wiki!NoLoops
  <2> QED BY <2>1, <2>2, <2>4, <2>6
<1> QED BY <1>1, <1>2

LEMMA MovedNote ==
  ASSUME WikiKept, NEW n \in Wiki!Notes, NEW p, Wiki!Moved(n, p), c1' = c1
  PROVE  WikiKept'
<1> USE DEF WikiKept
<1>1. CASE n \in c1 /\ Wiki!MoveAllowed(n, p)
  <2>1. p \in c1 \union {0} /\ c2' = [c2 EXCEPT ![n] = p]
    BY <1>1 DEF Wiki!Moved, Wiki!MoveAllowed
  <2>2. p \notin Wiki!Below(n, c2)
    BY <1>1 DEF Wiki!MoveAllowed, Wiki!Below, Wiki!Notes
  <2>3. Wiki!NoLoops'
    BY <2>1, <2>2, MoveClosesNoLoop
  <2> QED BY <2>1, <2>3 DEF Wiki!ParentsExist
<1>2. CASE ~(n \in c1 /\ Wiki!MoveAllowed(n, p))
  BY <1>2 DEF Wiki!Moved, Wiki!NoLoops, Wiki!ParentsExist
<1> QED BY <1>1, <1>2

(* A new note has no children yet.                                          *)
LEMMA CreatedNote ==
  ASSUME WikiKept, NEW n \in Wiki!Notes \ c1, NEW p \in c1 \union {0},
         c1' = c1 \union {n}, c2' = [c2 EXCEPT ![n] = p]
  PROVE  WikiKept'
<1> USE DEF WikiKept
<1>0. 0 \notin Wiki!Notes
  BY DEF Wiki!Notes
<1>1. Wiki!ParentsExist'
  BY DEF Wiki!ParentsExist
<1>2. ASSUME NEW S \in SUBSET Wiki!Notes, S # {}, \A m \in S : c2'[m] \in S
      PROVE  FALSE
  <2>1. \A m \in S \ {n} : c2[m] \in S \ {n}
    BY <1>0, <1>2 DEF Wiki!ParentsExist
  <2>2. S \ {n} # {}
    BY <1>0, <1>2
  <2> QED BY <2>1, <2>2 DEF Wiki!NoLoops
<1>3. Wiki!NoLoops'
  BY <1>2 DEF Wiki!NoLoops
<1> QED BY <1>1, <1>3

LEMMA WikiStep ==
  ASSUME WikiKept, Wiki!Next
  PROVE  WikiKept'
<1> DEFINE Kept == UNCHANGED <<c1, c2>>
<1> USE DEF Wiki!server
<1>1. CASE Kept
  BY <1>1 DEF WikiKept, Wiki!NoLoops, Wiki!ParentsExist
<1>2. ASSUME NEW n \in Wiki!Notes, NEW p, Wiki!Drop(n, p) \/ Wiki!OtherMoves(n, p)
      PROVE  WikiKept'
  BY <1>2, MovedNote DEF Wiki!Drop, Wiki!OtherMoves
<1>3. CASE Wiki!Delete
  BY <1>3, RemovalClosesNoLoop DEF Wiki!Delete, WikiKept
<1>4. ASSUME NEW n \in Wiki!Notes, Wiki!BulkDeletes(n) PROVE WikiKept'
  BY <1>4, RemovalClosesNoLoop DEF Wiki!BulkDeletes
<1>5. CASE Wiki!Save
  <2>1. CASE Kept
    BY <1>1, <2>1
  <2>2. CASE ~Kept
    <3>1. PICK n \in Wiki!Notes \ c1 :
            /\ c1' = c1 \union {n}
            /\ \E p \in (c1 \intersect c4) \union {0} : c2' = [c2 EXCEPT ![n] = p]
      BY <1>5, <2>2 DEF Wiki!Save
    <3> QED BY <3>1, CreatedNote
  <2> QED BY <2>1, <2>2
<1>6. ASSUME Wiki!Edit \/ Wiki!Patch \/ Wiki!BackToList \/ Wiki!Cancel \/ Wiki!Filter
             \/ Wiki!StartCreate \/ Wiki!DeletePicked \/ Wiki!BulkEnds \/ Wiki!SaveArrives
      PROVE  Kept
  BY <1>6 DEF Wiki!Edit, Wiki!Patch, Wiki!BackToList, Wiki!Cancel, Wiki!Filter,
              Wiki!StartCreate, Wiki!DeletePicked, Wiki!BulkEnds, Wiki!SaveArrives
<1>7. ASSUME NEW n, Wiki!Click(n) \/ Wiki!Pick(n) \/ Wiki!ListArrives(n) \/ Wiki!NoteArrives(n)
      PROVE  Kept
  BY <1>7 DEF Wiki!Click, Wiki!Pick, Wiki!ListArrives, Wiki!NoteArrives
<1> QED
  BY <1>1, <1>2, <1>3, <1>4, <1>5, <1>6, <1>7
     DEF Wiki!Next, Wiki!Sidebar, Wiki!Row, Wiki!Note, Wiki!Editor, Wiki!Answers, Wiki!Bulk

(* Without loops no note is below itself: the notes between it and its      *)
(* parent would be one.                                                     *)
LEMMA NoneBelowItself ==
  ASSUME WikiKept
  PROVE  Wiki!NotesFormATree
<1> USE DEF WikiKept
<1> DEFINE B(m) == Wiki!Below(m, c2)
<1>1. ASSUME NEW m \in Wiki!Notes
      PROVE  /\ m \in B(m) /\ B(m) \in SUBSET Wiki!Notes
             /\ \A k \in Wiki!Notes : c2[k] \in B(m) => k \in B(m)
             /\ \A S \in SUBSET Wiki!Notes :
                  m \in S /\ (\A k \in Wiki!Notes : c2[k] \in S => k \in S) => B(m) \subseteq S
  BY DEF Wiki!Below
<1> HIDE DEF B
<1>2. ASSUME NEW m \in Wiki!Notes, NEW k \in B(m), k # m
      PROVE  c2[k] \in B(m)
  <2> SUFFICES ASSUME c2[k] \notin B(m) PROVE FALSE
    OBVIOUS
  <2>1. \A j \in Wiki!Notes : c2[j] \in B(m) \ {k} => j \in B(m) \ {k}
    BY <1>1
  <2>2. B(m) \ {k} \in SUBSET Wiki!Notes /\ m \in B(m) \ {k}
    BY <1>1, <1>2
  <2>3. B(m) \subseteq B(m) \ {k}
    BY <1>1, <2>1, <2>2
  <2> QED BY <1>2, <2>3
<1> SUFFICES ASSUME NEW n \in c1, c2[n] \in Wiki!Below(n, c2) PROVE FALSE
  BY DEF Wiki!NotesFormATree
<1> DEFINE p == c2[n]
           L == {m \in B(n) : p \in B(m)}
<1>3. n \in Wiki!Notes /\ p \in B(n) /\ p \in Wiki!Notes
  BY <1>1 DEF B
<1>4. ASSUME NEW m \in L PROVE c2[m] \in L
  <2>1. m \in Wiki!Notes /\ m \in B(n) /\ p \in B(m)
    BY <1>1, <1>3
  <2>2. CASE m = n
    BY <1>1, <1>3, <2>2
  <2>3. CASE m # n
    <3>1. c2[m] \in B(n) /\ c2[m] \in Wiki!Notes
      BY <1>1, <1>2, <1>3, <2>1, <2>3
    <3>2. m \in B(c2[m])
      BY <1>1, <2>1, <3>1
    <3>3. B(m) \subseteq B(c2[m])
      BY <1>1, <2>1, <3>1, <3>2
    <3> QED BY <2>1, <3>1, <3>3
  <2> QED BY <2>2, <2>3
<1>5. L \in SUBSET Wiki!Notes /\ n \in L
  BY <1>1, <1>3
<1> QED
  BY <1>4, <1>5 DEF Wiki!NoLoops

(* However members move notes on trees that are out of date, and while      *)
(* others are deleted one by one, no note becomes its own ancestor: the     *)
(* server looks at the tree as it is, and lifts what a note leaves.         *)
THEOREM NotesAreATree == Spec => []NotesFormATree
<1> DEFINE I == focus = "wiki" => WikiKept
<1>1. Init => I
  <2>1. ASSUME Wiki!Init PROVE WikiKept
    <3>1. c1 \subseteq Wiki!Notes /\ c2 = [n \in Wiki!Notes |-> 0]
      BY <2>1 DEF Wiki!Init
    <3>2. 0 \notin Wiki!Notes
      BY DEF Wiki!Notes
    <3> QED BY <3>1, <3>2 DEF WikiKept, Wiki!NoLoops, Wiki!ParentsExist
  <2> QED BY <2>1 DEF Init
<1>2. I /\ [Next]_vars => I'
  <2> SUFFICES ASSUME I, [Next]_vars PROVE I'
    OBVIOUS
  <2>1. CASE UNCHANGED vars
    BY <2>1 DEF vars, WikiKept, Wiki!NoLoops, Wiki!ParentsExist
  <2> QED
    BY <2>1, OnePage, WikiStep
<1>3. I => NotesFormATree
  BY NoneBelowItself DEF NotesFormATree
<1> QED
  BY <1>1, <1>2, <1>3, PTL DEF Spec

-----------------------------------------------------------------------------
(* Duplicates: c1 gone, c2 mainOf, c3 groups, c4 dismissed, c5 scan, c6 found*)

LEMMA MoreThanAPair ==
  ASSUME NCopies \in Nat, NEW S \in SUBSET Copies!Copies,
         NEW e \in SUBSET S, Copies!Cardinality(e) = 2
  PROVE  Copies!Cardinality(S) > 1
<1>1. \A T : Copies!Cardinality(T) = Cardinality(T)
  BY DEF Copies!Cardinality, Cardinality
<1>2. IsFiniteSet(S)
  <2>1. IsFiniteSet(1..NCopies)
    BY FS_Interval
  <2> QED BY <2>1, FS_Subset DEF Copies!Copies
<1>3. Cardinality(S) \in Nat /\ Cardinality(e) <= Cardinality(S)
  BY <1>2, FS_Subset, FS_CardinalityType
<1> QED
  BY <1>1, <1>3

(* Every pair is an edge of one of the groups that are built: of the least  *)
(* set around it that no edge leaves.                                       *)
LEMMA PairsGrouped ==
  ASSUME NCopies \in Nat, NEW E \in SUBSET Copies!Pairs, NEW e \in E
  PROVE  \E g \in Copies!BuildGroups(E) : e \in g.edges /\ e \subseteq g.members
<1> DEFINE Closed(T) == \A f \in E : f \intersect T = {} \/ f \subseteq T
           S == {c \in Copies!Copies : \A T \in SUBSET Copies!Copies : Closed(T) /\ e \subseteq T => c \in T}
<1>1. \A f \in E : f \in SUBSET Copies!Copies /\ Copies!Cardinality(f) = 2
  BY DEF Copies!Pairs, Copies!kSubset
<1>2. e \subseteq S /\ S \in SUBSET Copies!Copies
  BY <1>1
<1>3. \A T \in SUBSET Copies!Copies : Closed(T) /\ e \subseteq T => S \subseteq T
  OBVIOUS
<1>4. Closed(S)
  <2> SUFFICES ASSUME NEW f \in E, NEW c \in f, c \in S, NEW d \in f PROVE d \in S
    OBVIOUS
  <2>1. ASSUME NEW T \in SUBSET Copies!Copies, Closed(T), e \subseteq T PROVE d \in T
    BY <1>3, <2>1
  <2> QED BY <1>1, <2>1
<1> HIDE DEF S
<1>5. ASSUME NEW T \in SUBSET S, T # {}, T # S PROVE ~Closed(T)
  <2> SUFFICES ASSUME Closed(T) PROVE FALSE
    OBVIOUS
  <2>1. CASE e \intersect T = {}
    <3>1. Closed(S \ T)
      BY <1>4
    <3>2. e \subseteq S \ T
      BY <1>2, <2>1
    <3>3. S \ T \in SUBSET Copies!Copies
      BY <1>2
    <3>4. S \subseteq S \ T
      BY <1>3, <3>1, <3>2, <3>3
    <3> QED BY <1>5, <3>4
  <2>2. CASE e \subseteq T
    BY <1>2, <1>3, <1>5, <2>2
  <2> QED BY <2>1, <2>2
<1>6. Copies!Component(E, S)
  BY <1>4, <1>5 DEF Copies!Component
<1>7. Copies!Cardinality(S) > 1
  BY <1>1, <1>2, MoreThanAPair
<1> DEFINE g == [members |-> S, edges |-> {f \in E : f \subseteq S}]
<1>8. g \in Copies!BuildGroups(E)
  BY <1>2, <1>6, <1>7 DEF Copies!BuildGroups
<1> QED
  BY <1>2, <1>8

(* A verdict takes away the edge it is about, and no other.                 *)
LEMMA OthersStayGrouped ==
  ASSUME Copies!PairsKept, NEW r, NEW k, Copies!Dismiss(r, k)
  PROVE  Copies!PairsKept'
<1> USE DEF Copies!PairsKept
<1>1. c3' = UNION {Copies!Trimmed(g, r) : g \in c3} /\ c6' = c6 \ {r}
  BY DEF Copies!Dismiss
<1>2. ASSUME NEW g \in c3, NEW h \in Copies!Trimmed(g, r) PROVE h \in Copies!Groups
  <2>1. g \in [members : SUBSET Copies!Copies, edges : SUBSET Copies!Pairs]
    BY DEF Copies!Groups
  <2>2. g.edges \ {r} \in SUBSET Copies!Pairs
    BY <2>1
  <2>3. UNION (g.edges \ {r}) \in SUBSET Copies!Copies
    BY <2>2 DEF Copies!Pairs, Copies!kSubset
  <2>4. h = g \/ h = [members |-> UNION (g.edges \ {r}), edges |-> g.edges \ {r}]
    BY <1>2 DEF Copies!Trimmed
  <2> QED BY <2>1, <2>2, <2>3, <2>4 DEF Copies!Groups
<1>3. ASSUME NEW e \in c6, e # r
      PROVE  \E h \in c3' : e \in h.edges /\ e \subseteq h.members
  <2>1. PICK g \in c3 : e \in g.edges /\ e \subseteq g.members
    OBVIOUS
  <2>2. \E h \in Copies!Trimmed(g, r) : e \in h.edges /\ e \subseteq h.members
    <3>1. CASE g.edges \ {r} = g.edges
      BY <2>1, <3>1 DEF Copies!Trimmed
    <3>2. CASE g.edges \ {r} # g.edges
      <4> DEFINE left == g.edges \ {r}
                 h == [members |-> UNION left, edges |-> left]
      <4>1. e \in left /\ e \subseteq UNION left
        BY <1>3, <2>1
      <4>2. h \in Copies!Trimmed(g, r)
        BY <3>2, <4>1 DEF Copies!Trimmed
      <4> QED BY <4>1, <4>2
    <3> QED BY <3>1, <3>2
  <2> QED BY <1>1, <2>1, <2>2
<1>4. c3' \subseteq Copies!Groups
  BY <1>1, <1>2
<1> QED
  BY <1>1, <1>3, <1>4

LEMMA DuplicatesStep ==
  ASSUME NCopies \in Nat, Copies!PairsKept, Copies!Next
  PROVE  Copies!PairsKept'
<1> DEFINE Kept == UNCHANGED <<c3, c6>>
<1> USE DEF Copies!serverVars
<1>1. CASE Kept
  BY <1>1 DEF Copies!PairsKept
<1>2. ASSUME NEW a \in c17, Copies!Serve(a) PROVE Copies!PairsKept'
  <2>1. ASSUME NEW k, Copies!Dismiss({a.a, a.b}, k) PROVE Copies!PairsKept'
    BY <2>1, OthersStayGrouped
  <2>2. ASSUME NEW k, \/ Copies!Link(a.a, a.b, k) /\ UNCHANGED <<c5, c6>>
                      \/ Copies!Promote(a.a, a.b, k) /\ UNCHANGED <<c5, c6>>
                      \/ Copies!Delete(a.a, k) /\ UNCHANGED <<c5, c6>>
                      \/ Copies!StartScan(k) \/ Copies!CancelScan(k)
        PROVE  Kept
    BY <2>2 DEF Copies!Link, Copies!Promote, Copies!Delete, Copies!StartScan,
                Copies!CancelScan, Copies!Refused
  <2> QED
    BY <1>1, <1>2, <2>1, <2>2 DEF Copies!Serve
<1>3. ASSUME NEW a \in c17, Copies!Arrives(a) PROVE Kept
  BY <1>3 DEF Copies!Arrives
<1>4. CASE Copies!ScanEnds
  <2>1. c6' \in SUBSET Copies!Pairs /\ c3' = Copies!BuildGroups(c6')
    BY <1>4 DEF Copies!ScanEnds
  <2>2. \A g \in c3' : g \in Copies!Groups
    BY <2>1 DEF Copies!BuildGroups, Copies!Groups
  <2>3. \A e \in c6' : \E g \in c3' : e \in g.edges /\ e \subseteq g.members
    BY <2>1, PairsGrouped
  <2> QED BY <2>1, <2>2, <2>3 DEF Copies!PairsKept
<1>5. ASSUME Copies!ScanDies \/ Copies!Poll PROVE Kept
  BY <1>5 DEF Copies!ScanDies, Copies!Poll
<1>6. ASSUME Copies!Costs PROVE Kept
  BY <1>6 DEF Copies!Costs, Copies!DecisionBar, Copies!ScanPanel, Copies!DeleteDialog,
              Copies!LinkPair, Copies!DismissPair, Copies!FamilyNotice, Copies!PromoteOverFamily,
              Copies!CompareWithMain, Copies!StartButton, Copies!Listing, Copies!ConfirmDelete,
              Copies!CancelDelete, Copies!Judges, Copies!Choosing
<1>7. ASSUME Copies!Free PROVE Kept
  BY <1>7 DEF Copies!Free, Copies!PairRow, Copies!OpenCompare, Copies!StopButton,
              Copies!Dismissals, Copies!ShowDismissed, Copies!Restore, Copies!Listing,
              Copies!Column, Copies!MakeParent, Copies!AskDelete, Copies!SwapParent,
              Copies!CopyMetadata, Copies!Judges, Copies!Choosing
<1>8. ASSUME Copies!Back PROVE Kept
  BY <1>8 DEF Copies!Back
<1> QED
  BY <1>1, <1>2, <1>3, <1>4, <1>5, <1>6, <1>7, <1>8 DEF Copies!Next

(* The group a pair is in is shown while its copies are main versions: they *)
(* are two, and their edge is one of those that are left.                   *)
LEMMA KeptPairsAreShown ==
  ASSUME NCopies \in Nat, Copies!PairsKept
  PROVE  Copies!NoPairSkipped
<1> SUFFICES ASSUME NEW e \in c6, \A c \in e : c \in Copies!Rows /\ c2[c] = 0
             PROVE  <<Copies!Min(e), Copies!Max(e)>> \in Copies!PairsOf(Copies!OpenGroups)
  BY DEF Copies!NoPairSkipped
<1>1. PICK g \in c3 : e \in g.edges /\ e \subseteq g.members
  BY DEF Copies!PairsKept
<1>2. /\ g.members \subseteq Copies!Copies /\ e \subseteq Copies!Copies
      /\ Copies!Cardinality(e) = 2
  BY <1>1 DEF Copies!PairsKept, Copies!Groups, Copies!Pairs, Copies!kSubset
<1> DEFINE h == Copies!Hydrated(g)
           m == g.members \ c1
           main == {c \in m : c2[c] = 0}
<1>3. h = [members |-> m, edges |-> {f \in g.edges : f \subseteq m}]
  BY DEF Copies!Hydrated
<1>4. e \subseteq main /\ main \subseteq m
  BY <1>1 DEF Copies!Rows
<1>5. Copies!Cardinality(m) > 1 /\ Copies!Cardinality(main) > 1
  BY <1>2, <1>4, MoreThanAPair
<1>6. Copies!IsOpen(h)
  BY <1>3, <1>5 DEF Copies!IsOpen
<1>7. h \in Copies!OpenGroups
  BY <1>6 DEF Copies!OpenGroups
<1>8. e \in h.edges
  BY <1>1, <1>3, <1>4
<1>9. <<Copies!Min(e), Copies!Max(e)>> \in Copies!GroupToPairs(h)
  BY <1>8 DEF Copies!GroupToPairs
<1> QED
  BY <1>7, <1>9 DEF Copies!PairsOf

(* What a scan has found is on the first list.                              *)
LEMMA PairsAreKept == ASSUME NCopies \in Nat, Copies!Init PROVE Copies!PairsKept
<1>1. c6 \in SUBSET Copies!Pairs /\ c3 = Copies!BuildGroups(c6)
  <2>1. ASSUME NEW c \in 1..(NCopies - 1) PROVE {c, c + 1} \in Copies!Pairs
    <3>1. c \in Copies!Copies /\ c + 1 \in Copies!Copies /\ c # c + 1
      BY DEF Copies!Copies
    <3>2. IsFiniteSet({c}) /\ Cardinality({c}) = 1
      BY FS_Singleton
    <3>3. Cardinality({c} \union {c + 1}) = Cardinality({c}) + 1
      BY <3>1, <3>2, FS_AddElement
    <3>4. {c} \union {c + 1} = {c, c + 1}
      OBVIOUS
    <3>5. Cardinality({c, c + 1}) = 2
      BY <3>2, <3>3, <3>4
    <3> QED BY <3>1, <3>5 DEF Copies!Pairs, Copies!kSubset, Copies!Cardinality, Cardinality
  <2> QED BY <2>1 DEF Copies!Init
<1>2. \A g \in c3 : g \in Copies!Groups
  BY <1>1 DEF Copies!BuildGroups, Copies!Groups
<1>3. \A e \in c6 : \E g \in c3 : e \in g.edges /\ e \subseteq g.members
  BY <1>1, PairsGrouped
<1> QED BY <1>1, <1>2, <1>3 DEF Copies!PairsKept

(* Whatever is linked, promoted, deleted and rejected in whatever order,    *)
(* every pair the last scan has found and nobody has answered is on the     *)
(* list: taking a group apart into pairs hides none of them.                *)
THEOREM EveryPairIsListed == ASSUME NCopies \in Nat PROVE Spec => []NoPairSkipped
<1> DEFINE I == focus = "duplicates" => Copies!PairsKept
<1>1. Init => I
  BY PairsAreKept DEF Init
<1>2. I /\ [Next]_vars => I'
  <2> SUFFICES ASSUME I, [Next]_vars PROVE I'
    OBVIOUS
  <2>1. CASE UNCHANGED vars
    BY <2>1 DEF vars, Copies!PairsKept
  <2> QED
    BY <2>1, OnePage, DuplicatesStep
<1>3. I => NoPairSkipped
  BY KeptPairsAreShown DEF NoPairSkipped
<1> QED
  BY <1>1, <1>2, <1>3, PTL DEF Spec

-----------------------------------------------------------------------------
(* The editor of an audiobook: c7 detect, c8 review, c9 typing, c10 nextKey,*)
(* c11 sent                                                                 *)

ChaptersKept ==
  /\ c8 \in [list : BOOLEAN, rows : Seq(Chapters!ReviewRows)]
  /\ c9 # Chapters!NotTyping => c9.time \in Chapters!Times
  /\ c10 \in Int
  /\ c11 \in Seq([start : Int, end : Int])
  /\ Chapters!SentInOrder

LEMMA SameArrays ==
  /\ \A s, keep : Chapters!Filtered(s, keep) = Filtered(s, keep)
  /\ \A s, number : Chapters!Sorted(s, number) = Sorted(s, number)
  /\ \A S : Chapters!Cardinality(S) = Cardinality(S)
  /\ \A s : Chapters!IsInjective(s) = IsInjective(s)
<1>1. \A S : Chapters!Cardinality(S) = Cardinality(S)
  BY DEF Chapters!Cardinality, Cardinality
<1>3. ASSUME NEW s, NEW number PROVE Chapters!Sorted(s, number) = Sorted(s, number)
  BY DEF Chapters!Sorted, Sorted, Chapters!PlaceAmong, PlaceAmong, Chapters!Cardinality, Cardinality
<1>4. ASSUME NEW s, NEW keep PROVE Chapters!Filtered(s, keep) = Filtered(s, keep)
  BY DEF Chapters!Filtered, Filtered
<1>5. \A s : Chapters!IsInjective(s) = IsInjective(s)
  BY DEF Chapters!IsInjective, IsInjective
<1> QED BY <1>1, <1>3, <1>4, <1>5

LEMMA StartsAreNumbers ==
  ASSUME Duration \in Nat, NEW l \in Seq(Chapters!ReviewRows)
  PROVE  DOMAIN l = 1..Len(l) /\ Len(l) \in Nat /\ \A i \in 1..Len(l) : l[i].start \in Int
<1>1. \A i \in 1..Len(l) : l[i] \in Chapters!ReviewRows
  BY ElementOfSeq
<1>2. \A r \in Chapters!ReviewRows : r.start \in Int
  BY DEF Chapters!ReviewRows, Chapters!Times
<1> QED BY <1>1, <1>2, LenProperties

(* The chapters that are sent follow each other.                            *)
LEMMA AppliedInOrder ==
  ASSUME Duration \in Nat, NEW rows \in Seq(Chapters!ReviewRows), c11' = Chapters!ForApply(rows)
  PROVE  c11' \in Seq([start : Int, end : Int]) /\ Chapters!SentInOrder'
<1> DEFINE t == Chapters!Titled(rows)
           number == [i \in DOMAIN t |-> t[i].start]
           b == Sorted(t, number)
           n == Len(b)
<1>1. t \in Seq(Chapters!ReviewRows)
  BY SameArrays, FilterKeeps DEF Chapters!Titled
<1> HIDE DEF t
<1>2. DOMAIN t = 1..Len(t) /\ \A i \in 1..Len(t) : t[i].start \in Int
  BY <1>1, StartsAreNumbers
<1>3. number \in [1..Len(t) -> Int]
  BY <1>2
<1> HIDE DEF number
<1>4. /\ b \in Seq(Chapters!ReviewRows) /\ Len(b) = Len(t)
      /\ \E p \in [1..Len(t) -> 1..Len(t)] :
           /\ \A r \in 1..Len(t) : b[r] = t[p[r]]
           /\ \A q, r \in 1..Len(t) : q < r => number[p[q]] <= number[p[r]]
  BY <1>1, <1>3, SortOrders
<1> HIDE DEF b
<1>5. n \in Nat /\ DOMAIN b = 1..n /\ \A i \in 1..n : b[i].start \in Int
  BY <1>4, StartsAreNumbers
<1>6. \A q, r \in 1..n : q < r => b[q].start <= b[r].start
  <2>1. PICK p \in [1..Len(t) -> 1..Len(t)] :
           /\ \A r \in 1..Len(t) : b[r] = t[p[r]]
           /\ \A q, r \in 1..Len(t) : q < r => number[p[q]] <= number[p[r]]
    BY <1>4
  <2>2. \A i \in 1..Len(t) : number[i] = t[i].start
    BY <1>2 DEF number
  <2>3. \A r \in 1..n : b[r].start = number[p[r]]
    BY <1>4, <2>1, <2>2
  <2> QED BY <1>4, <2>1, <2>3
<1>7. c11' = [i \in 1..n |-> [start |-> b[i].start, end |-> IF i < n THEN b[i + 1].start ELSE Duration]]
  <2>1. Chapters!ByStart(t) = b
    BY SameArrays DEF Chapters!ByStart, b, number
  <2>2. c11' = Chapters!Ended(b)
    BY <2>1 DEF Chapters!ForApply, t
  <2> QED BY <1>5, <2>2 DEF Chapters!Ended
<1> HIDE DEF n
<1>8. c11' \in Seq([start : Int, end : Int]) /\ Len(c11') = n /\ DOMAIN c11' = 1..n
  <2>1. c11' \in [1..n -> [start : Int, end : Int]]
    BY <1>5, <1>7
  <2> DEFINE E == [start : Int, end : Int]
  <2> HIDE DEF E
  <2>2. c11' \in [1..n -> E]
    BY <2>1 DEF E
  <2>3. c11' \in Seq(E)
    BY <1>5, <2>2, SeqDef
  <2>4. DOMAIN c11' = 1..n /\ Len(c11') = n
    BY <1>5, <2>2, <2>3, LenProperties
  <2> QED BY <2>3, <2>4 DEF E
<1>9. Chapters!SentInOrder'
  BY <1>5, <1>6, <1>7, <1>8 DEF Chapters!SentInOrder
<1> QED BY <1>8, <1>9

(* What is sent in order is kept so.                                        *)
LEMMA OrderIsKept ==
  ASSUME ChaptersKept
  PROVE  Chapters!ChaptersTile
<1> DEFINE number == [i \in DOMAIN c11 |-> c11[i].start]
<1>1. c11 \in Seq([start : Int, end : Int]) /\ DOMAIN c11 = 1..Len(c11)
  BY LenProperties DEF ChaptersKept
<1>2. \A i \in 1..Len(c11) : c11[i].start \in Int
  <2> DEFINE E == [start : Int, end : Int]
  <2>1. \A x \in E : x.start \in Int
    OBVIOUS
  <2> HIDE DEF E
  <2>2. c11 \in Seq(E)
    BY <1>1 DEF E
  <2> QED BY <2>1, <2>2, ElementOfSeq
<1>3. number \in [1..Len(c11) -> Int]
  BY <1>1, <1>2
<1>4. \A q, r \in 1..Len(c11) : q < r => number[q] <= number[r]
  BY <1>1 DEF ChaptersKept, Chapters!SentInOrder
<1> HIDE DEF number
<1>5. Sorted(c11, number) = c11
  BY <1>1, <1>3, <1>4, SortedStays
<1>6. Chapters!ByStart(c11) = c11
  BY <1>5, SameArrays DEF Chapters!ByStart, number
<1> QED BY <1>6 DEF ChaptersKept, Chapters!SentInOrder, Chapters!ChaptersTile

(* What is reviewed, typed and numbered next stays of its type, when what   *)
(* is on its way does not change.                                           *)
Review == [list : BOOLEAN, rows : Seq(Chapters!ReviewRows)]
Typed(t) == t # Chapters!NotTyping => t.time \in Chapters!Times
LEMMA ReviewGoesOn ==
  ASSUME ChaptersKept, c8' \in Review, Typed(c9'), c10' \in Int, c11' = c11
  PROVE  ChaptersKept'
BY DEF ChaptersKept, Chapters!SentInOrder, Review, Typed

LEMMA NoReview == Chapters!NoList \in Review /\ Typed(Chapters!NotTyping)
<1>1. <<>> \in Seq(Chapters!ReviewRows)
  OBVIOUS
<1> QED BY <1>1 DEF Chapters!NoList, Review, Typed

(* Rows the user works on replace those that are listed.                    *)
LEMMA RowsReplaced ==
  ASSUME ChaptersKept, NEW rows \in Seq(Chapters!ReviewRows), Chapters!Rows(rows),
         Typed(c9'), c10' \in Int
  PROVE  ChaptersKept'
<1>1. c8' = [c8 EXCEPT !.rows = rows] /\ c11' = c11
  BY DEF Chapters!Rows
<1>2. c8' \in Review
  BY <1>1 DEF ChaptersKept, Review
<1> QED BY <1>1, <1>2, ReviewGoesOn

(* A row gets a time or a title.                                            *)
LEMMA RowEdited ==
  ASSUME ChaptersKept, NEW key, NEW field, NEW value, Chapters!Edited(key, field, value),
         \/ field = "start" /\ value \in Chapters!Times
         \/ field = "titled" /\ value \in BOOLEAN,
         Typed(c9')
  PROVE  ChaptersKept'
<1> DEFINE l == c8.rows
           r == [i \in DOMAIN l |-> IF l[i].key = key THEN [l[i] EXCEPT ![field] = value] ELSE l[i]]
<1>1. Chapters!Rows(r) /\ c10' = c10
  BY DEF Chapters!Edited
<1>2. l \in Seq(Chapters!ReviewRows) /\ c10' \in Int
  BY <1>1 DEF ChaptersKept
<1>3. \A i \in DOMAIN l : l[i] \in Chapters!ReviewRows
  BY <1>2, LenProperties, ElementOfSeq
<1>4. ASSUME NEW x \in Chapters!ReviewRows PROVE [x EXCEPT ![field] = value] \in Chapters!ReviewRows
  <2>1. CASE field = "start" /\ value \in Chapters!Times
    BY <2>1 DEF Chapters!ReviewRows
  <2>2. CASE field = "titled" /\ value \in BOOLEAN
    BY <2>2 DEF Chapters!ReviewRows
  <2> QED BY <2>1, <2>2
<1> HIDE DEF l
<1>5. DOMAIN r = DOMAIN l /\ \A i \in DOMAIN l : r[i] \in Chapters!ReviewRows
  BY <1>3, <1>4
<1>6. r \in Seq(Chapters!ReviewRows)
  <2>1. Len(l) \in Nat /\ DOMAIN l = 1..Len(l)
    BY <1>2, LenProperties
  <2>2. r \in [1..Len(l) -> Chapters!ReviewRows]
    BY <1>5, <2>1
  <2> HIDE DEF r
  <2> QED BY <2>1, <2>2, SeqDef
<1> HIDE DEF r
<1> QED BY <1>1, <1>2, <1>6, RowsReplaced

(* What detection lists: at most a row a minute, numbered from 0.           *)
LEMMA FoundRows ==
  ASSUME Duration \in Nat, NEW starts \in SUBSET (0..(Duration - 1))
  PROVE  /\ Chapters!Found(starts) \in Seq(Chapters!ReviewRows)
         /\ Len(Chapters!Found(starts)) <= Duration
         /\ \A i \in 1..Len(Chapters!Found(starts)) : Chapters!Found(starts)[i].key = i - 1
<1> DEFINE times == Chapters!SetToSeq(starts)
           s == Sorted(times, times)
           n == Len(s)
<1>1. times \in Seq(starts) /\ Len(times) <= Duration
  <2>1. IsFiniteSet(starts) /\ Cardinality(starts) <= Duration
    <3>1. IsFiniteSet(0..(Duration - 1)) /\ Cardinality(0..(Duration - 1)) = Duration
      BY FS_Interval
    <3>2. starts \subseteq 0..(Duration - 1)
      OBVIOUS
    <3> QED BY <3>1, <3>2, FS_Subset
  <2>2. times = CHOOSE g \in [1..Cardinality(starts) -> starts] : IsInjective(g)
    BY SameArrays DEF Chapters!SetToSeq
  <2> HIDE DEF times
  <2>3. times \in Seq(starts) /\ Entries(times) = starts /\ IsInjective(times)
    BY <2>1, <2>2, ListedSet
  <2>4. Len(times) \in Nat /\ times \in [1..Len(times) -> starts]
    BY <2>3, LenProperties
  <2>5. times \in Injection(1..Len(times), starts)
    BY <2>3, <2>4 DEF Injection
  <2>6. Cardinality(1..Len(times)) = Len(times)
    BY <2>4, FS_Interval
  <2>7. Len(times) <= Cardinality(starts) /\ Cardinality(starts) \in Nat
    BY <2>1, <2>5, <2>6, FS_Injection, FS_CardinalityType
  <2> QED BY <2>1, <2>3, <2>4, <2>7
<1> HIDE DEF times
<1>2. times \in [1..Len(times) -> Int]
  <2>1. starts \subseteq Int
    OBVIOUS
  <2>2. times \in [1..Len(times) -> starts]
    BY <1>1, LenProperties
  <2> QED BY <2>1, <2>2
<1>3. s \in Seq(starts) /\ Len(s) <= Duration
  BY <1>1, <1>2, SortOrders
<1> HIDE DEF s
<1>4. n \in Nat /\ DOMAIN s = 1..n /\ \A i \in 1..n : s[i] \in starts
  BY <1>3, LenProperties, ElementOfSeq
<1>7. \A i \in 1..n : s[i] \in 0..Duration /\ i - 1 \in Int
  <2>1. \A x \in starts : x \in 0..Duration
    OBVIOUS
  <2>2. n \in Int
    BY <1>4
  <2> HIDE DEF n
  <2>3. \A i \in 1..n : i - 1 \in Int
    BY <2>2
  <2> QED BY <1>4, <2>1, <2>3
<1>5. Chapters!Found(starts) = [i \in 1..n |-> [key |-> i - 1, titled |-> TRUE, start |-> s[i]]]
  BY <1>4, SameArrays DEF Chapters!Found, Chapters!Row, s, times
<1> HIDE DEF n
<1>6. Chapters!Found(starts) \in [1..n -> Chapters!ReviewRows]
  <2>1. ASSUME NEW i \in 1..n
        PROVE  [key |-> i - 1, titled |-> TRUE, start |-> s[i]] \in Chapters!ReviewRows
    BY <1>7 DEF Chapters!ReviewRows, Chapters!Times
  <2> QED BY <1>5, <2>1
<1>8. Chapters!Found(starts) \in Seq(Chapters!ReviewRows)
  BY <1>4, <1>6, SeqDef
<1>9. Len(Chapters!Found(starts)) = n
  BY <1>4, <1>6, <1>8, LenProperties
<1>10. \A i \in 1..n : Chapters!Found(starts)[i].key = i - 1
  BY <1>5
<1> QED BY <1>3, <1>8, <1>9, <1>10 DEF n

(* The review goes away, or stays as it is.                                 *)
LEMMA ReviewGone ==
  ASSUME ChaptersKept, c8' = Chapters!NoList, c9' = Chapters!NotTyping, c10' = c10, c11' = c11
  PROVE  ChaptersKept'
<1>1. c10 \in Int
  BY DEF ChaptersKept
<1> QED BY <1>1, NoReview, ReviewGoesOn

LEMMA ReviewStays ==
  ASSUME ChaptersKept, c8' = c8, c9' = c9, c10' = c10, c11' = c11
  PROVE  ChaptersKept'
BY DEF ChaptersKept, Chapters!SentInOrder

(* A step of a row under review.                                            *)
LEMMA RowStep ==
  ASSUME Duration \in Nat, ChaptersKept, NEW key, Chapters!ReviewRow(key)
  PROVE  ChaptersKept'
<1> USE DEF Typed
<1>1. ASSUME NEW time \in Chapters!Times, Chapters!TypeTime(key, time) PROVE ChaptersKept'
  <2>1. /\ c8' = c8 /\ c10' = c10 /\ c11' = c11
        /\ c9' = [key |-> key, time |-> time]
    BY <1>1 DEF Chapters!TypeTime
  <2>2. c8' \in Review /\ c10' \in Int /\ Typed(c9')
    BY <2>1 DEF ChaptersKept, Review
  <2> QED BY <2>1, <2>2, ReviewGoesOn
<1>2. CASE Chapters!LeaveTime(key)
  <2>1. c9 # Chapters!NotTyping /\ c9' = Chapters!NotTyping /\ Chapters!Edited(key, "start", c9.time)
    BY <1>2 DEF Chapters!LeaveTime
  <2>2. c9.time \in Chapters!Times
    BY <2>1 DEF ChaptersKept
  <2> QED BY <2>1, <2>2, RowEdited
<1>3. CASE Chapters!RemoveRow(key)
  <2> DEFINE keep == {r \in Chapters!ToSet(c8.rows) : r.key # key}
  <2>1. Chapters!Rows(Filtered(c8.rows, keep)) /\ c9' = c9 /\ c10' = c10
    BY <1>3, SameArrays DEF Chapters!RemoveRow, Chapters!Idle
  <2>2. c8.rows \in Seq(Chapters!ReviewRows) /\ c10' \in Int /\ Typed(c9')
    BY <2>1 DEF ChaptersKept
  <2> HIDE DEF keep
  <2>3. Filtered(c8.rows, keep) \in Seq(Chapters!ReviewRows)
    BY <2>2, FilterKeeps
  <2> QED BY <2>1, <2>2, <2>3, RowsReplaced
<1>4. ASSUME NEW titled \in BOOLEAN, Chapters!TypeTitle(key, titled) PROVE ChaptersKept'
  <2>1. c9' = c9 /\ Chapters!Edited(key, "titled", titled)
    BY <1>4 DEF Chapters!TypeTitle, Chapters!Idle
  <2>2. Typed(c9')
    BY <2>1 DEF ChaptersKept
  <2> QED BY <2>1, <2>2, RowEdited
<1> QED BY <1>1, <1>2, <1>3, <1>4 DEF Chapters!ReviewRow

(* A row is added by hand.                                                  *)
LEMMA RowAdded ==
  ASSUME Duration \in Nat, ChaptersKept, Chapters!AddRow
  PROVE  ChaptersKept'
<1>1. PICK at \in Chapters!Times :
        /\ Chapters!Rows(Append(c8.rows, Chapters!Row(c10, FALSE, at)))
        /\ c9' = c9 /\ c10' = c10 - 1
  BY DEF Chapters!AddRow, Chapters!Idle
<1>2. c8.rows \in Seq(Chapters!ReviewRows) /\ c10 \in Int /\ Typed(c9')
  BY <1>1 DEF ChaptersKept, Typed
<1>3. Chapters!Row(c10, FALSE, at) \in Chapters!ReviewRows
  BY <1>2 DEF Chapters!Row, Chapters!ReviewRows
<1>4. Append(c8.rows, Chapters!Row(c10, FALSE, at)) \in Seq(Chapters!ReviewRows)
  BY <1>2, <1>3, AppendProperties
<1>5. c10' \in Int
  BY <1>1, <1>2
<1> QED BY <1>1, <1>2, <1>4, <1>5, RowsReplaced

(* Detection answers.                                                       *)
LEMMA Detected ==
  ASSUME Duration \in Nat, ChaptersKept, NEW d, Chapters!Answered(d)
  PROVE  ChaptersKept'
<1>1. c10' = c10 /\ c11' = c11 /\ c9' = c9
  BY DEF Chapters!Answered, Chapters!Detecting
<1>2. CASE c8' = c8
  BY <1>1, <1>2, ReviewStays
<1>3. ASSUME NEW starts \in SUBSET (0..(Duration - 1)), c8' = [list |-> TRUE, rows |-> Chapters!Found(starts)]
      PROVE  ChaptersKept'
  <2>1. Chapters!Found(starts) \in Seq(Chapters!ReviewRows)
    BY FoundRows
  <2>2. c8' \in Review
    BY <1>3, <2>1 DEF Review
  <2>3. Typed(c9') /\ c10' \in Int
    BY <1>1 DEF ChaptersKept, Typed
  <2> QED BY <1>1, <2>2, <2>3, ReviewGoesOn
<1> QED BY <1>2, <1>3 DEF Chapters!Answered

LEMMA ChaptersStep ==
  ASSUME Duration \in Nat, ChaptersKept, Chapters!Next
  PROVE  ChaptersKept'
<1> USE DEF Chapters!Shutting, Chapters!Converting, Chapters!Detecting
<1>1. CASE Chapters!Form \/ Chapters!Saved \/ Chapters!ConversionDone
  <2>1. /\ c10' = c10 /\ c11' = c11
        /\ \/ c8' = Chapters!NoList /\ c9' = Chapters!NotTyping
           \/ c8' = c8 /\ c9' = c9
    BY <1>1 DEF Chapters!Form, Chapters!Save, Chapters!Close, Chapters!Saved, Chapters!ConversionDone
  <2> QED BY <2>1, ReviewGone, ReviewStays
<1>2. CASE \/ Chapters!Lookup \/ Chapters!Convert \/ Chapters!Searched
           \/ Chapters!PollConversion \/ Chapters!ConversionRunning \/ Chapters!ConversionFailed
           \/ Chapters!PollDetection
  <2>1. c8' = c8 /\ c9' = c9 /\ c10' = c10 /\ c11' = c11
    BY <1>2 DEF Chapters!Lookup, Chapters!Search, Chapters!ApplyCandidate, Chapters!Convert, Chapters!ToggleSibling,
         Chapters!StartConversion, Chapters!Searched, Chapters!PollConversion, Chapters!ConversionRunning,
         Chapters!ConversionFailed, Chapters!PollDetection
  <2> QED BY <2>1, ReviewStays
<1>3. CASE Chapters!StartDetection \/ Chapters!Discard
  <2>1. c8' = Chapters!NoList /\ c9' = Chapters!NotTyping /\ c10' = c10 /\ c11' = c11
    BY <1>3 DEF Chapters!StartDetection, Chapters!Discard
  <2> QED BY <2>1, ReviewGone
<1>4. CASE \E key \in Chapters!Keys(c8.rows) : Chapters!ReviewRow(key)
  BY <1>4, RowStep
<1>5. CASE Chapters!AddRow
  BY <1>5, RowAdded
<1>6. CASE Chapters!Apply
  <2>1. c8' = c8 /\ c9' = c9 /\ c10' = c10 /\ c11' = Chapters!ForApply(c8.rows)
    BY <1>6 DEF Chapters!Apply, Chapters!Idle
  <2>2. c11' \in Seq([start : Int, end : Int]) /\ Chapters!SentInOrder'
    BY <2>1, AppliedInOrder DEF ChaptersKept
  <2> QED BY <2>1, <2>2 DEF ChaptersKept
<1>7. CASE Chapters!Applied
  <2>1. /\ c10' = c10 /\ c11' = <<>>
        /\ \/ c8' = Chapters!NoList /\ c9' = Chapters!NotTyping
           \/ c8' = c8 /\ c9' = c9
    BY <1>7 DEF Chapters!Applied
  <2>2. c11' \in Seq([start : Int, end : Int]) /\ Chapters!SentInOrder'
    BY <2>1 DEF Chapters!SentInOrder
  <2>3. c8' \in Review /\ Typed(c9')
    BY <2>1, NoReview DEF ChaptersKept, Review, Typed
  <2> QED BY <2>1, <2>2, <2>3 DEF ChaptersKept, Review, Typed
<1>8. CASE \E d \in c7 : Chapters!Answered(d)
  BY <1>8, Detected
<1> QED
  BY <1>1, <1>2, <1>3, <1>4, <1>5, <1>6, <1>7, <1>8 DEF Chapters!Next, Chapters!Step, Chapters!Detect

(* Whatever rows are added, retimed, untitled and removed, and whenever the *)
(* answers of detection come, the chapters that are sent follow each other  *)
(* to the end of the book in the order the server puts them.                *)
THEOREM ChaptersFollow == ASSUME Duration \in Nat PROVE Spec => []ChaptersTile
<1> DEFINE I == focus = "audiobook" => ChaptersKept
<1>1. Init => I
  <2>1. ASSUME Chapters!Init PROVE ChaptersKept
    <3>1. c8 = Chapters!NoList /\ c9 = Chapters!NotTyping /\ c10 = -1 /\ c11 = <<>>
      BY <2>1 DEF Chapters!Init
    <3>2. c11 \in Seq([start : Int, end : Int]) /\ Chapters!SentInOrder
      BY <3>1 DEF Chapters!SentInOrder
    <3>3. c8 \in Review /\ Typed(c9)
      BY <3>1, NoReview
    <3>4. c10 \in Int
      BY <3>1
    <3> QED BY <3>2, <3>3, <3>4 DEF ChaptersKept, Review, Typed
  <2> QED BY <2>1 DEF Init
<1>2. I /\ [Next]_vars => I'
  <2> SUFFICES ASSUME I, [Next]_vars PROVE I'
    OBVIOUS
  <2>1. CASE UNCHANGED vars
    BY <2>1 DEF vars, ChaptersKept, Chapters!SentInOrder
  <2> QED
    BY <2>1, OnePage, ChaptersStep
<1>3. I => ChaptersTile
  BY OrderIsKept DEF ChaptersTile
<1> QED
  BY <1>1, <1>2, <1>3, PTL DEF Spec

-----------------------------------------------------------------------------
(* The library page: c3 grouped. How systems are shelved does not change.   *)

Shaped == \E depth : Library!LibraryShaped(depth)
Tops(s) == {x \in Library!Holders[s] : ParentOf[x] = 0}

LEMMA HoldersClosed ==
  ASSUME Shaped, NEW s \in Systems
  PROVE  /\ Library!Holders[s] \subseteq Systems
         /\ s \in Library!Holders[s] /\ Library!Closed(Library!Holders[s])
         /\ \A S \in SUBSET Systems : s \in S /\ Library!Closed(S) => Library!Holders[s] \subseteq S
<1>1. Library!Holders[s] = {x \in Systems : \A S \in SUBSET Systems : s \in S /\ Library!Closed(S) => x \in S}
  BY DEF Library!Holders
<1>2. \A x \in Systems : ParentOf[x] # 0 => ParentOf[x] \in Systems
  BY DEF Shaped, Library!LibraryShaped
<1> QED
  BY <1>1, <1>2 DEF Library!Closed

(* What holds a system: itself, and what holds the shelf it stands on.      *)
LEMMA HoldersAbove ==
  ASSUME Shaped, NEW s \in Systems
  PROVE  /\ ParentOf[s] = 0 => Library!Holders[s] = {s}
         /\ ParentOf[s] # 0 => /\ ParentOf[s] \in Systems
                               /\ Library!Holders[s] = {s} \union Library!Holders[ParentOf[s]]
<1>1. CASE ParentOf[s] = 0
  <2>1. {s} \in SUBSET Systems /\ s \in {s} /\ Library!Closed({s})
    BY <1>1 DEF Library!Closed
  <2> QED BY <1>1, <2>1, HoldersClosed
<1>2. CASE ParentOf[s] # 0
  <2> DEFINE p == ParentOf[s]
             H == Library!Holders
  <2>1. p \in Systems
    BY <1>2 DEF Shaped, Library!LibraryShaped
  <2>2. H[p] \subseteq Systems /\ p \in H[p] /\ Library!Closed(H[p])
    BY <2>1, HoldersClosed
  <2>3. s \in {s} \union H[p] /\ {s} \union H[p] \in SUBSET Systems /\ Library!Closed({s} \union H[p])
    BY <2>2 DEF Library!Closed
  <2>4. H[s] \subseteq {s} \union H[p]
    BY <2>3, HoldersClosed
  <2>5. H[s] \in SUBSET Systems /\ s \in H[s] /\ Library!Closed(H[s])
    BY HoldersClosed
  <2>6. p \in H[s]
    BY <1>2, <2>5 DEF Library!Closed
  <2>7. H[p] \subseteq H[s]
    BY <2>1, <2>5, <2>6, HoldersClosed
  <2> QED BY <1>2, <2>1, <2>4, <2>5, <2>7
<1> QED BY <1>1, <1>2

(* Of what holds a system, one stands at the top.                           *)
LEMMA OneTop ==
  ASSUME Shaped, NEW s \in Systems
  PROVE  \E r : Tops(s) = {r}
<1> DEFINE P(x) == \E r : Tops(x) = {r}
<1> SUFFICES ASSUME ~ P(s) PROVE FALSE
  OBVIOUS
<1>1. PICK depth : Library!LibraryShaped(depth)
  BY DEF Shaped
<1> DEFINE T == {depth[x] : x \in {y \in Systems : ~ P(y)}}
<1>2. T \in SUBSET Nat /\ T # {}
  BY <1>1 DEF Library!LibraryShaped
<1>3. PICK m \in T : \A n \in T : m <= n
  BY <1>2, LeastNumber
<1>4. PICK x \in Systems : ~ P(x) /\ m = depth[x]
  BY <1>3
<1>5. CASE ParentOf[x] = 0
  <2>1. Tops(x) = {x}
    BY <1>5, HoldersAbove DEF Tops
  <2> QED BY <1>4, <2>1
<1>6. CASE ParentOf[x] # 0
  <2>1. ParentOf[x] \in Systems /\ depth[ParentOf[x]] < depth[x]
    BY <1>1, <1>6 DEF Library!LibraryShaped
  <2>2. Tops(x) = Tops(ParentOf[x])
    BY <1>6, HoldersAbove DEF Tops
  <2>3. ~ P(ParentOf[x])
    BY <1>4, <2>2
  <2>4. depth[ParentOf[x]] \in T /\ depth[ParentOf[x]] \in Nat /\ depth[x] \in Nat
    BY <1>1, <2>1, <2>3 DEF Library!LibraryShaped
  <2>5. depth[x] <= depth[ParentOf[x]]
    BY <1>3, <1>4, <2>4
  <2> QED BY <2>1, <2>4, <2>5
<1> QED BY <1>5, <1>6

(* All but the system itself are shelves, each of which holds another.      *)
LEMMA HoldersAreShelves ==
  ASSUME Shaped, NEW s \in Systems
  PROVE  \A x \in Library!Holders[s] \ {s} :
           /\ KindOf[x] \in {"shelf", "onepage"}
           /\ \E y \in Library!Holders[s] : ParentOf[y] = x
<1> DEFINE H == Library!Holders[s]
           S == {x \in H : x = s \/ (KindOf[x] \in {"shelf", "onepage"} /\ \E y \in H : ParentOf[y] = x)}
<1>1. H \subseteq Systems /\ s \in H /\ Library!Closed(H)
  BY HoldersClosed
<1>2. \A x \in Systems : ParentOf[x] # 0 => KindOf[ParentOf[x]] \in {"shelf", "onepage"}
  BY DEF Shaped, Library!LibraryShaped
<1> HIDE DEF H
<1>3. s \in S /\ S \in SUBSET Systems /\ Library!Closed(S)
  BY <1>1, <1>2 DEF Library!Closed
<1>4. H \subseteq S
  BY <1>3, HoldersClosed DEF H
<1> QED
  BY <1>4 DEF H

LEMMA FoundOnceEverywhere ==
  ASSUME Shaped
  PROVE  Library!FoundOnce
<1> SUFFICES ASSUME NEW s \in Systems, ~ Library!Container(s)
             PROVE  Library!Cardinality(Library!Holders[s] \intersect (Library!gridSystems \union Library!specialSystems)) = 1
  BY DEF Library!FoundOnce
<1> DEFINE H == Library!Holders[s]
           V == H \intersect (Library!gridSystems \union Library!specialSystems)
<1>1. H \subseteq Systems /\ s \in H
  BY HoldersClosed
<1>2. \A x \in H \ {s} : KindOf[x] \in {"shelf", "onepage"} /\ \E y \in H : ParentOf[y] = x
  BY HoldersAreShelves
<1>3. \A x \in Systems : Library!IsSpecial(x) => ParentOf[x] = 0
  BY DEF Shaped, Library!LibraryShaped
<1>4. \A x \in Systems : ParentOf[x] # 0 => (Library!IsOnePageChild(x) => ~ Library!Container(x))
  BY DEF Shaped, Library!LibraryShaped
<1>5. \E r : V = {r}
  <2>1. CASE c3
    <3>1. \A x \in H : x \in V <=> ParentOf[x] = 0
      BY <1>1, <1>3, <2>1 DEF Library!gridSystems, Library!specialSystems, Library!InGrid, Library!IsOnePageChild
    <3>2. V = Tops(s)
      BY <3>1 DEF Tops
    <3> QED BY <3>2, OneTop
  <2>2. CASE ~c3 /\ Library!IsOnePageChild(s)
    <3> DEFINE p == ParentOf[s]
    <3>1. p # 0 /\ KindOf[p] = "onepage"
      BY <2>2 DEF Library!IsOnePageChild
    <3>2. p \in Systems /\ H = {s} \union Library!Holders[p]
      BY <3>1, HoldersAbove
    <3>3. Library!IsSpecial(p) /\ ParentOf[p] = 0
      BY <1>3, <3>1, <3>2 DEF Library!IsSpecial
    <3>4. H = {s, p}
      BY <3>2, <3>3, HoldersAbove
    <3>5. s \notin V /\ p \in V
      BY <1>1, <2>2, <3>2, <3>3, <3>4
         DEF Library!gridSystems, Library!specialSystems, Library!InGrid, Library!IsSpecial, Library!Container
    <3>6. V = {p}
      BY <3>4, <3>5
    <3> QED BY <3>6
  <2>3. CASE ~c3 /\ ~ Library!IsOnePageChild(s)
    <3>1. s \in V
      BY <1>1, <2>3 DEF Library!gridSystems, Library!InGrid, Library!IsSpecial, Library!Container
    <3>2. ASSUME NEW x \in H \ {s} PROVE x \notin V
      <4>1. x \notin Library!gridSystems
        BY <1>2, <2>3 DEF Library!gridSystems, Library!InGrid, Library!Container
      <4>2. ASSUME Library!IsSpecial(x) PROVE FALSE
        <5>1. KindOf[x] = "onepage"
          BY <1>2, <4>2 DEF Library!IsSpecial
        <5>2. PICK y \in H : ParentOf[y] = x
          BY <1>2
        <5>3. ParentOf[y] # 0
          BY <1>1, <5>2 DEF Shaped, Library!LibraryShaped
        <5>4. Library!IsOnePageChild(y)
          BY <5>1, <5>2, <5>3 DEF Library!IsOnePageChild
        <5>5. ~ Library!Container(y)
          BY <1>1, <1>4, <5>3, <5>4
        <5>6. y = s
          BY <1>2, <5>5 DEF Library!Container
        <5> QED BY <2>3, <5>4, <5>6
      <4> QED BY <4>1, <4>2 DEF Library!specialSystems
    <3>3. V = {s}
      BY <3>1, <3>2
    <3> QED BY <3>3
  <2> QED BY <2>1, <2>2, <2>3
<1>6. Cardinality(V) = 1
  BY <1>5, FS_Singleton
<1> QED
  BY <1>6 DEF Library!Cardinality, Cardinality

(* However deep shelves nest, each system is on the page itself or in one   *)
(* card or chip of it, with the shelves shown or spilled.                   *)
THEOREM SystemsFoundOnce == ASSUME Shaped PROVE Spec => []FoundOnce
<1>1. FoundOnce
  BY FoundOnceEverywhere DEF FoundOnce
<1> QED
  BY <1>1, PTL
=============================================================================
