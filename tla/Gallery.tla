------------------------------ MODULE Gallery ------------------------------
(***************************************************************************)
(* A media gallery (maps, tokens, models, audio, audiobooks): the items     *)
(* arrive in pages, folders start shut and are opened and shut by hand,     *)
(* filters and saved presets decide what is seen, and a selection is tagged *)
(* in bulk (useMediaGallery, useBulkSelection, useSortFilterState).         *)
(***************************************************************************)
EXTENDS Integers, FiniteSets, Sequences

CONSTANTS
  Pages,    \* the items of each state update of the load: the first page, then each batch
  KeysOf,   \* the folder of an item and its subfolder, if it is in one
  Filters   \* what a filter may leave of the items

VARIABLES
  arrived,   \* pages in data
  more,      \* loadingMore
  collapsed, \* folders that are shut; kept for the session once it has been set
  kept,      \* whether sessionStorage holds it
  seeded,    \* collapsedSeeded
  opened,    \* openedFolders
  mine,      \* history: folders opened by hand and not shut by hand since
  grouped, filter,
  presets,   \* loaded, of useSavedFilters
  bulk,      \* bulkMode
  ids, paths, anchor,  \* selectedIds, selectedFolderPaths, lastClickedId (0: none)
  applying   \* bulkApplying

loadVars == <<arrived, more, collapsed, kept, seeded, opened, mine>>
pickVars == <<bulk, ids, paths, anchor, applying>>
gVars == <<loadVars, grouped, filter, presets, pickVars>>

Upto(n) == UNION {Pages[p] : p \in 1..n}
Items == Upto(Len(Pages))
KeysIn(S) == UNION {KeysOf[i] : i \in S}
Keys == KeysIn(Items)
Visible == Upto(arrived) \intersect filter
allKeys == KeysIn(Visible)

GalleryTypeOK ==
  /\ arrived \in 0..Len(Pages) /\ filter \in Filters /\ anchor \in Items \union {0}
  /\ \A S \in {collapsed, opened, mine, paths} : S \subseteq Keys
  /\ ids \subseteq Items
  /\ \A b \in {more, kept, seeded, grouped, presets, bulk, applying} : b \in BOOLEAN

(* The view is mounted; shut folders come back from the session, the filter *)
(* only on the way back from an item.                                       *)
Mounted ==
  /\ arrived' = 0 /\ more' = TRUE /\ seeded' = FALSE /\ opened' = {} /\ mine' = {}
  /\ presets' = FALSE /\ bulk' = FALSE /\ ids' = {} /\ paths' = {} /\ anchor' = 0 /\ applying' = FALSE
  /\ UNCHANGED <<collapsed, kept, grouped>>

Init ==
  /\ arrived = 0 /\ more = TRUE /\ collapsed = {} /\ kept = FALSE /\ seeded = FALSE
  /\ opened = {} /\ mine = {} /\ grouped = TRUE /\ filter = Items /\ presets = FALSE
  /\ bulk = FALSE /\ ids = {} /\ paths = {} /\ anchor = 0 /\ applying = FALSE

Leave == Mounted /\ filter' \in {filter, Items}

-----------------------------------------------------------------------------
(* The load                                                                 *)

(* The effects after the update that adds page n: the one that shuts every  *)
(* folder the first time, unless the session knows better, and the one that *)
(* shuts the folders of later pages while loading goes on.                  *)
Shut(n) ==
  LET seeding == ~seeded /\ ~kept
      shut == (IF seeding THEN KeysIn(Upto(n)) ELSE collapsed)
                \union (IF more' THEN KeysIn(Upto(n)) \ opened ELSE {})
  IN /\ collapsed' = shut /\ seeded' = TRUE
     /\ kept' = (kept \/ seeding \/ shut # collapsed)
     /\ UNCHANGED <<opened, mine>>

(* A page arrives. The last one and the end of loading are one update.      *)
PageArrives ==
  /\ more /\ arrived < Len(Pages)
  /\ arrived' = arrived + 1 /\ more' = (arrived' < Len(Pages))
  /\ Shut(arrived')
  /\ UNCHANGED <<grouped, filter, presets, pickVars>>

(* A request of the load fails: what has come stays.                        *)
LoadFails ==
  /\ more /\ more' = FALSE
  /\ UNCHANGED <<arrived, collapsed, kept, seeded, opened, mine, grouped, filter, presets, pickVars>>

-----------------------------------------------------------------------------
(* Folders                                                                  *)

Collapse(S, o, m) ==
  /\ collapsed' = S /\ kept' = TRUE /\ opened' = o /\ mine' = m
  /\ UNCHANGED <<arrived, more, seeded, grouped, filter, presets, pickVars>>

(* Deviation: the folder is not remembered as opened.                       *)
ToggleForgotten(k) ==
  IF k \in collapsed THEN Collapse(collapsed \ {k}, opened, mine \union {k})
  ELSE Collapse(collapsed \union {k}, opened \ {k}, mine \ {k})

ToggleCollapse(k) ==
  IF k \in collapsed THEN Collapse(collapsed \ {k}, opened \union {k}, mine \union {k})
  ELSE Collapse(collapsed \union {k}, opened \ {k}, mine \ {k})

CollapseAll == allKeys # {} /\ grouped /\ ~bulk /\ ~(allKeys \subseteq collapsed) /\ Collapse(allKeys, opened, {})
ExpandAll == allKeys # {} /\ grouped /\ ~bulk /\ collapsed # {} /\ Collapse({}, opened, mine)

Group == grouped' = ~grouped /\ UNCHANGED <<loadVars, filter, presets, pickVars>>

-----------------------------------------------------------------------------
(* Filters                                                                  *)

SetFilter(f) == filter' = f /\ UNCHANGED <<loadVars, grouped, presets, pickVars>>
ClearFilters == filter # Items /\ SetFilter(Items)

(* The presets arrive: on a fresh visit the default replaces the filter,    *)
(* whatever has been typed by then; on the way back it does not.            *)
PresetsArrive ==
  /\ ~presets /\ presets' = TRUE /\ filter' \in Filters
  /\ UNCHANGED <<loadVars, grouped, pickVars>>

(* A preset is applied, or the presets are written and loaded again.        *)
Preset == presets /\ \E f \in Filters : SetFilter(f)

-----------------------------------------------------------------------------
(* Selection                                                                *)

Pick(b, i, p, a) ==
  /\ bulk' = b /\ ids' = i /\ paths' = p /\ anchor' = a
  /\ UNCHANGED <<loadVars, grouped, filter, presets, applying>>

EnterBulk == ~bulk /\ Pick(TRUE, ids, paths, anchor)
ExitBulk == bulk /\ Pick(FALSE, {}, {}, 0)

Flip(S, x) == IF x \in S THEN S \ {x} ELSE S \union {x}
Between(i) == {j \in Visible : (anchor <= j /\ j <= i) \/ (i <= j /\ j <= anchor)}

(* A click toggles the item; a shift-click adds what lies between it and the*)
(* last click, if that is still on screen.                                  *)
ToggleItem(i, shift) ==
  /\ bulk /\ i \in Visible
  /\ Pick(TRUE, IF shift /\ anchor \in Visible THEN ids \union Between(i) ELSE Flip(ids, i),
          paths, IF shift THEN anchor ELSE i)

(* A folder is ticked with everything of it on screen, or unticked when it  *)
(* was ticked whole.                                                        *)
ToggleFolder(k) ==
  LET its == {i \in Visible : k \in KeysOf[i]}
      all == k \in paths /\ its \subseteq ids
  IN /\ bulk /\ its # {}
     /\ IF all THEN Pick(TRUE, ids \ its, paths \ {k}, anchor)
        ELSE Pick(TRUE, ids \union its, paths \union {k}, anchor)

(* applyBulkTags; the selection is kept.                                    *)
ApplyTags ==
  /\ bulk /\ ids \union paths # {} /\ ~applying /\ applying' = TRUE
  /\ UNCHANGED <<loadVars, grouped, filter, presets, bulk, ids, paths, anchor>>
Applied ==
  /\ applying /\ applying' = FALSE
  /\ UNCHANGED <<loadVars, grouped, filter, presets, bulk, ids, paths, anchor>>

-----------------------------------------------------------------------------
(* What each part of the page offers                                        *)

Toolbar == CollapseAll \/ ExpandAll \/ Group
TagQueryEditor == \E f \in Filters : SetFilter(f)
FilterModal == TagQueryEditor \/ ClearFilters
SortFilterBar == ClearFilters \/ FilterModal \/ EnterBulk \/ ExitBulk
SavedMenu == Preset
FolderHeader == grouped /\ \E k \in allKeys : ToggleCollapse(k) \/ ToggleFolder(k)
Card == \E i \in Visible : (~bulk /\ Leave) \/ (\E shift \in BOOLEAN : ToggleItem(i, shift))
Seen(i) == ~grouped \/ KeysOf[i] \intersect collapsed = {}
Subfolders == grouped /\ \E i \in Visible : Seen(i) /\ Card
ListRow == ~grouped /\ Card
BulkBar == bulk /\ (ApplyTags \/ ExitBulk)
Layout == Toolbar \/ SortFilterBar \/ SavedMenu \/ FolderHeader \/ Subfolders \/ ListRow \/ BulkBar

Next == PageArrives \/ LoadFails \/ PresetsArrive \/ Applied \/ (arrived > 0 /\ Layout)

Spec == Init /\ [][Next]_gVars

-----------------------------------------------------------------------------
(* Why it holds                                                             *)

(* What was opened by hand is in openedFolders, and the session then knows  *)
(* which folders are shut.                                                  *)
HandRemembered == mine \subseteq opened /\ (~kept => mine = {})

-----------------------------------------------------------------------------
(* Properties                                                               *)

(* A folder opened by hand is open until it is shut by hand, however many   *)
(* pages arrive meanwhile (the comment at useMediaGallery.js:212).          *)
OpenedStaysOpen == mine \intersect collapsed = {}

(* Folders that a later page brings start shut (useMediaGallery.js:182).    *)
(* It does not hold: the last page and the end of loading are rendered      *)
(* together, and the effect that shuts folders runs only while loading.     *)
LaterFoldersStartShut ==
  [][arrived > 0 /\ arrived' > arrived => KeysIn(Upto(arrived')) \ KeysIn(Upto(arrived)) \subseteq collapsed']_gVars
=============================================================================
