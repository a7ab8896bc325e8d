----------------------------- MODULE DetailView -----------------------------
(***************************************************************************)
(* The page of one map, token, model, audio track or audiobook: the item is *)
(* fetched when the route changes and shown when an answer arrives, tags    *)
(* and flags are saved and the saved item is then shown, and two buttons    *)
(* step through the items of its folder, fetched once per folder            *)
(* (useSiblingNavigation). No answer is ever cancelled.                     *)
(***************************************************************************)
EXTENDS Integers, FiniteSets

CONSTANTS
  NItems,    \* items 1..NItems, in the order of their file names; 0 is none
  FolderOf,  \* the folder of each, numbered from 1
  MaxAsked   \* bound: requests under way when the user does something

VARIABLES
  kind,      \* which of the five views is mounted
  route,     \* the id in the address
  shown,     \* track, map, model or token: the item on the page
  gets,      \* items being fetched, and whether for the grid that was edited
  siblings,  \* the items that prev and next step through
  fetched,   \* loadedFolder
  fetches,   \* folders whose items are being fetched
  editor,    \* what is being edited, and the item its draft was taken from
  saves      \* writes under way, with the item that is shown when they return

dVars == <<kind, route, shown, gets, siblings, fetched, fetches, editor, saves>>

Items == 1..NItems
Folders == {FolderOf[i] : i \in Items}
Kinds == {"map", "token", "model", "audio", "audiobook"}
Closed == [what |-> "none", of |-> 0]

DetailTypeOK ==
  /\ kind \in Kinds /\ route \in Items /\ shown \in Items \union {0}
  /\ gets \subseteq Items \X BOOLEAN /\ siblings \subseteq Items
  /\ fetched \in Folders \union {0} /\ fetches \subseteq Folders
  /\ editor \in [what : {"tags", "folder", "grid", "metadata"}, of : Items] \union {Closed}
  /\ saves \subseteq [what : {"tags", "folder", "flag", "cover", "progress"}, of : Items]

(* A view is mounted at item i.                                             *)
Mounted(k, i) ==
  /\ kind = k /\ route = i /\ gets = {<<i, FALSE>>}
  /\ shown = 0 /\ siblings = {} /\ fetched = 0 /\ fetches = {} /\ editor = Closed /\ saves = {}

Init == \E k \in Kinds, i \in Items : Mounted(k, i)

(* The effect of useSiblingNavigation after a render that shows item i in   *)
(* another folder: its items are fetched, if they are not the last that were.*)
Shows(i) ==
  /\ shown' = i
  /\ IF (shown = 0 \/ FolderOf[shown] # FolderOf[i]) /\ FolderOf[i] # fetched
     THEN fetched' = FolderOf[i] /\ fetches' = fetches \union {FolderOf[i]}
     ELSE UNCHANGED <<fetched, fetches>>

-----------------------------------------------------------------------------
(* Another item                                                             *)

(* The route changes under the view: the item is fetched, the one before is *)
(* shown until it comes.                                                    *)
Goes(i) ==
  /\ route' = i /\ gets' = gets \union {<<i, FALSE>>}
  /\ UNCHANGED <<kind, shown, siblings, fetched, fetches, editor, saves>>

(* Another version of the item, the converted audiobook, the address bar.   *)
Open(i) == i # route /\ Goes(i)

Leave ==
  \E k \in Kinds, i \in Items :
    /\ kind' = k /\ route' = i /\ gets' = {<<i, FALSE>>} /\ shown' = 0 /\ siblings' = {}
    /\ fetched' = 0 /\ fetches' = {} /\ editor' = Closed /\ saves' = {}

(* Deviation: the place is looked up by the item on the page.               *)
NeighboursOfShown(d) ==
  LET side == {i \in siblings : IF d = 1 THEN i > shown ELSE i < shown}
  IN IF shown \in siblings
     THEN {i \in side : \A j \in side : IF d = 1 THEN i <= j ELSE i >= j}
     ELSE {}

(* The item before (-1) or after (1) the route's in siblings, if that is    *)
(* where the route is.                                                      *)
Neighbours(d) ==
  LET side == {i \in siblings : IF d = 1 THEN i > route ELSE i < route}
  IN IF route \in siblings
     THEN {i \in side : \A j \in side : IF d = 1 THEN i <= j ELSE i >= j}
     ELSE {}

(* onPrev and onNext: the buttons, the arrow keys (not on an audiobook) and *)
(* the swipe (on a map or a token).                                         *)
Step(d) == \E i \in Neighbours(d) : Goes(i)

-----------------------------------------------------------------------------
(* Answers                                                                  *)

Arrives(i, grid) ==
  /\ <<i, grid>> \in gets /\ gets' = gets \ {<<i, grid>>}
  /\ Shows(i)
  /\ editor' = IF grid /\ editor.what = "grid" THEN Closed ELSE editor
  /\ UNCHANGED <<kind, route, siblings, saves>>

(* The items of a folder, whatever folder is shown by now; or an error, and *)
(* the folder may be tried again.                                           *)
SiblingsArrive(f) ==
  /\ f \in fetches /\ fetches' = fetches \ {f}
  /\ \/ siblings' = {i \in Items : FolderOf[i] = f} /\ UNCHANGED fetched
     \/ fetched' = 0 /\ UNCHANGED siblings
  /\ UNCHANGED <<kind, route, shown, gets, editor, saves>>

(* A write returns: the item it was made on is shown with it, and the editor*)
(* closes; a cover or a progress leaves the item as it is.                  *)
Saved(s) ==
  /\ s \in saves /\ saves' = saves \ {s}
  /\ CASE s.what = "cover" -> gets' = gets \union {<<s.of, FALSE>>} /\ UNCHANGED <<shown, fetched, fetches, editor>>
       [] s.what = "progress" -> UNCHANGED <<shown, fetched, fetches, editor, gets>>
       [] OTHER -> /\ Shows(s.of)
                   /\ editor' = IF editor.what = s.what THEN Closed ELSE editor
                   /\ UNCHANGED gets
  /\ UNCHANGED <<kind, route, siblings>>

SaveFails(s) ==
  /\ s \in saves /\ saves' = saves \ {s}
  /\ UNCHANGED <<kind, route, shown, gets, siblings, fetched, fetches, editor>>

-----------------------------------------------------------------------------
(* Editing                                                                  *)

Edit(what) ==
  /\ shown # 0 /\ editor = Closed
  /\ editor' = [what |-> what, of |-> shown]
  /\ UNCHANGED <<kind, route, shown, gets, siblings, fetched, fetches, saves>>

Cancel ==
  /\ editor # Closed /\ editor' = Closed
  /\ UNCHANGED <<kind, route, shown, gets, siblings, fetched, fetches, saves>>

Write(what) ==
  /\ saves' = saves \union {[what |-> what, of |-> shown]}
  /\ UNCHANGED <<kind, route, shown, gets, siblings, fetched, fetches, editor>>

(* InlineTagEditor: every change of the draft is saved at once.             *)
SaveTags == editor.what = "tags" /\ Write("tags")
SaveFolderTags == editor.what = "folder" /\ Write("folder")

(* toggleExplicit, cycleSupport: the opposite of what is shown.             *)
ToggleFlag == kind \in {"model", "token"} /\ shown # 0 /\ Write("flag")

(* The cover picker: written, then the item of the route is fetched again.  *)
SetCover ==
  /\ kind = "audio" /\ shown # 0
  /\ saves' = saves \union {[what |-> "cover", of |-> route]}
  /\ UNCHANGED <<kind, route, shown, gets, siblings, fetched, fetches, editor>>

MarkNotStarted == kind = "audiobook" /\ shown # 0 /\ Write("progress")

(* MapGridEditor saved: the item of the route is fetched again.             *)
ReloadMap ==
  /\ kind = "map" /\ editor.what = "grid"
  /\ gets' = gets \union {<<route, TRUE>>}
  /\ UNCHANGED <<kind, route, shown, siblings, fetched, fetches, editor, saves>>

(* EditAudiobookMetadataModal: saved into whatever is shown, or the chapters*)
(* have changed and the item is fetched again.                              *)
MetadataSaved == kind = "audiobook" /\ editor.what = "metadata" /\ Cancel
ChaptersApplied ==
  /\ kind = "audiobook" /\ editor.what = "metadata"
  /\ gets' = gets \union {<<route, FALSE>>}
  /\ UNCHANGED <<kind, route, shown, siblings, fetched, fetches, editor, saves>>
Converted(i) ==
  /\ kind = "audiobook" /\ editor.what = "metadata"
  /\ i # route /\ route' = i /\ gets' = gets \union {<<i, FALSE>>} /\ editor' = Closed
  /\ UNCHANGED <<kind, shown, siblings, fetched, fetches, saves>>

-----------------------------------------------------------------------------

Toolbar == Leave \/ \E i \in Items : Open(i)
Tags == Edit("tags") \/ Edit("folder") \/ SaveTags \/ SaveFolderTags \/ Cancel
Steps == Step(-1) \/ Step(1)

MapPage == kind = "map" /\ (Toolbar \/ Steps)
MapDetails == kind = "map" /\ (Tags \/ Edit("grid") \/ ReloadMap)
TokenPage == kind = "token" /\ (Toolbar \/ Steps)
TokenDetails == kind = "token" /\ (Tags \/ ToggleFlag)
ModelPage == kind = "model" /\ (Toolbar \/ Steps)
ModelDetails == kind = "model" /\ (Tags \/ ToggleFlag)
AudioPage == kind = "audio" /\ (Toolbar \/ Steps)
AudioDetails == kind = "audio" /\ (Tags \/ SetCover)
AudiobookPage == kind = "audiobook" /\ (Toolbar \/ Steps \/ MarkNotStarted)
AudiobookDetails == kind = "audiobook" /\ (Tags \/ Edit("metadata"))
AudiobookEditing == MetadataSaved \/ ChaptersApplied \/ \E i \in Items : Converted(i)

Answers == \/ \E i \in Items, grid \in BOOLEAN : Arrives(i, grid)
           \/ \E f \in Folders : SiblingsArrive(f)
           \/ \E s \in saves : Saved(s) \/ SaveFails(s)

Next == \/ Answers
        \/ /\ Cardinality(gets) + Cardinality(saves) < MaxAsked
           /\ \/ MapPage \/ MapDetails \/ TokenPage \/ TokenDetails \/ ModelPage \/ ModelDetails
              \/ AudioPage \/ AudioDetails \/ AudiobookPage \/ AudiobookDetails \/ AudiobookEditing

Spec == Init /\ [][Next]_dVars

-----------------------------------------------------------------------------
(* Why it holds                                                             *)

(* The buttons step through one whole folder, whichever it is, or nothing.  *)
WholeFolder == siblings = {} \/ \E f \in Folders : siblings = {i \in Items : FolderOf[i] = f}

-----------------------------------------------------------------------------
(* Properties                                                               *)

(* However late the item and the items of its folder arrive, and whatever   *)
(* save shows an item again, a step never leaves the folder of the route    *)
(* and skips none of its items.                                             *)
StepsToANeighbour ==
  Steps => /\ FolderOf[route'] = FolderOf[route]
           /\ \A i \in Items : (route < i /\ i < route') \/ (route' < i /\ i < route)
                                 => FolderOf[i] # FolderOf[route]
StepsStayInFolder == [][StepsToANeighbour]_dVars
=============================================================================
