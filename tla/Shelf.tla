------------------------------- MODULE Shelf -------------------------------
(***************************************************************************)
(* The library page (LibraryView, useSystemLibrary): game systems, the      *)
(* shelves that hold them, the switch that shows shelves or what they hold, *)
(* the tag filter built in groups, and the systems picked to be tagged or   *)
(* edited together.                                                         *)
(***************************************************************************)
EXTENDS Integers, FiniteSets, Sequences, Arrays

CONSTANTS
  Systems,    \* systems and shelves, numbered in the order the grid shows them
  ParentOf,   \* the shelf a system stands on (0: none); shelves nest
  KindOf,     \* "system", "shelf", "agnostic" or "onepage"
  Tags, TagsOf,
  Taggable,   \* bound: the tags put on and taken off
  MaxGroups   \* bound: groups of a tag filter

VARIABLES
  loaded,      \* systems # null
  tagged,      \* the tags of each system
  grouped,     \* the lasting preference systemsGrouped
  query,       \* sortFilter.filters.tags; the other filters narrow the grid likewise
  bulk, ids, anchor,   \* useBulkSelection (anchor 0: none)
  asked, editing       \* the tag being applied with its systems; showBulkEdit

lookVars == <<grouped, query>>
pickVars == <<bulk, ids, anchor>>
shelfVars == <<loaded, tagged, lookVars, pickVars, asked, editing>>

Group == [mode : {"include", "exclude"}, tags : SUBSET Tags]
NoAsk == [tag |-> "", for |-> {}]

ShelfTypeOK ==
  /\ tagged \in [Systems -> SUBSET Tags] /\ Len(query) <= MaxGroups
  /\ \A g \in 1..Len(query) : query[g] \in Group
  /\ ids \subseteq Systems /\ anchor \in Systems \union {0}
  /\ asked \in [tag : Tags \union {""}, for : SUBSET Systems]
  /\ \A b \in {loaded, grouped, bulk, editing} : b \in BOOLEAN

-----------------------------------------------------------------------------
(* What the page shows                                                      *)

Container(s) == KindOf[s] # "system"
IsSpecial(s) == KindOf[s] \in {"agnostic", "onepage"}
IsOnePageChild(s) == ParentOf[s] # 0 /\ KindOf[ParentOf[s]] = "onepage"

(* Deviation: the children of a one-page collection are spilled as well.    *)
InGridSpilling(s) == ~IsSpecial(s) /\ IF grouped THEN ParentOf[s] = 0 ELSE ~Container(s)

InGrid(s) ==
  /\ ~IsSpecial(s) /\ ~IsOnePageChild(s)
  /\ IF grouped THEN ParentOf[s] = 0 ELSE ~Container(s)

Used(q) == Filtered(q, {g \in Group : g.tags # {}})

(* Tags are alternatives within a group; every group has to agree.          *)
MatchesTagQuery(q, owned) ==
  \A n \in 1..Len(q) :
    q[n].tags = {} \/ ((q[n].tags \intersect owned # {}) <=> (q[n].mode = "include"))

gridSystems == {s \in Systems : InGrid(s)}
normalSystems == {s \in gridSystems : MatchesTagQuery(query, tagged[s])}
specialSystems == {s \in Systems : IsSpecial(s)}

Selectable == {s \in normalSystems : ~Container(s)}

-----------------------------------------------------------------------------
(* Loading, grouping and filtering                                          *)

Init ==
  /\ loaded = FALSE /\ tagged = TagsOf /\ grouped = TRUE /\ query = <<>>
  /\ bulk = FALSE /\ ids = {} /\ anchor = 0 /\ asked = NoAsk /\ editing = FALSE

Loaded == ~loaded /\ loaded' = TRUE /\ UNCHANGED <<tagged, lookVars, pickVars, asked, editing>>

Look(g, q) ==
  /\ loaded /\ grouped' = g /\ query' = q
  /\ UNCHANGED <<loaded, tagged, pickVars, asked, editing>>

GroupToggle == (\E s \in Systems : KindOf[s] = "shelf") /\ Look(~grouped, query)

(* The editor of the filter: a group is added, turned round, filled, dropped*)
AddGroup == \E m \in {"include", "exclude"} :
  Len(query) < MaxGroups /\ Look(grouped, Append(query, [mode |-> m, tags |-> {}]))
EditGroup == \E n \in 1..Len(query), g \in Group : Look(grouped, [query EXCEPT ![n] = g])
RemoveGroup == \E n \in 1..Len(query) :
  Look(grouped, SubSeq(query, 1, n - 1) \o SubSeq(query, n + 1, Len(query)))
ClearFilters == Look(grouped, <<>>)

(* A tag that is clicked: one more group, or out of every group it is in.   *)
ToggleQueryTag(q, t) ==
  LET u == Used(q)
  IN IF \E n \in 1..Len(u) : u[n].mode = "include" /\ t \in u[n].tags
     THEN Used([n \in 1..Len(u) |-> [u[n] EXCEPT !.tags = @ \ {t}]])
     ELSE Append(u, [mode |-> "include", tags |-> {t}])

ClickTag == \E t \in Tags :
  /\ Len(ToggleQueryTag(query, t)) <= MaxGroups
  /\ Look(grouped, ToggleQueryTag(query, t))

-----------------------------------------------------------------------------
(* Picking systems, tagging and editing them together                       *)

Pick(b, i, a) ==
  /\ loaded /\ bulk' = b /\ ids' = i /\ anchor' = a
  /\ UNCHANGED <<loaded, tagged, lookVars, asked, editing>>

BulkToggle == ~editing /\ IF bulk THEN Pick(FALSE, {}, 0) ELSE Pick(TRUE, ids, anchor)

Between(i) == {j \in Selectable : (anchor <= j /\ j <= i) \/ (i <= j /\ j <= anchor)}
Flip(i) == IF i \in ids THEN ids \ {i} ELSE ids \union {i}

(* A card takes clicks unless it is a shelf, which stays a link.            *)
ClickCard(i, shift) ==
  /\ bulk /\ ~editing /\ i \in normalSystems /\ ~Container(i)
  /\ Pick(TRUE, IF shift /\ anchor \in Selectable THEN ids \union Between(i) ELSE Flip(i),
          IF shift THEN anchor ELSE i)

ApplyTags(t) ==
  /\ bulk /\ ids # {} /\ asked = NoAsk /\ asked' = [tag |-> t, for |-> ids]
  /\ UNCHANGED <<loaded, tagged, lookVars, pickVars, editing>>

(* The answer holds the tags each of them has now; the selection stays.     *)
TagsApplied ==
  /\ asked # NoAsk /\ asked' = NoAsk
  /\ tagged' = [s \in Systems |-> IF s \in asked.for THEN tagged[s] \union {asked.tag} ELSE tagged[s]]
  /\ UNCHANGED <<loaded, lookVars, pickVars, editing>>

TagsRefused == asked # NoAsk /\ asked' = NoAsk /\ UNCHANGED <<loaded, tagged, lookVars, pickVars, editing>>

BulkEdit == bulk /\ ids # {} /\ ~editing /\ editing' = TRUE /\ UNCHANGED <<loaded, tagged, lookVars, pickVars, asked>>

(* The dialog is shut, with what it saved of the picked systems or without. *)
EditDone(t) ==
  /\ editing /\ editing' = FALSE
  /\ tagged' = [s \in Systems |-> IF s \in ids THEN tagged[s] \ {t} ELSE tagged[s]]
  /\ UNCHANGED <<loaded, lookVars, pickVars, asked>>
EditShut == editing /\ editing' = FALSE /\ UNCHANGED <<loaded, tagged, lookVars, pickVars, asked>>

Next ==
  \/ Loaded \/ GroupToggle \/ AddGroup \/ EditGroup \/ RemoveGroup \/ ClearFilters \/ ClickTag
  \/ BulkToggle \/ \E i \in Systems, shift \in BOOLEAN : ClickCard(i, shift)
  \/ \E t \in Taggable : ApplyTags(t) \/ EditDone(t)
  \/ TagsApplied \/ TagsRefused \/ BulkEdit \/ EditShut

ShelfSpec == Init /\ [][Next]_shelfVars

-----------------------------------------------------------------------------
(* How systems are shelved                                                  *)

(* A system, the shelf it stands on, the shelf of that, and so on.          *)
Closed(S) == \A x \in S : ParentOf[x] # 0 => ParentOf[x] \in S
Holders == [s \in Systems |-> {x \in Systems : \A S \in SUBSET Systems : s \in S /\ Closed(S) => x \in S}]

(* Folders are nested (depth) to some depth. A special collection stands at *)
(* the top; an agnostic one has categories instead of systems, and no shelf *)
(* stands in a one-page collection (docs/library-structure.md: 128, 205).   *)
LibraryShaped(depth) ==
  /\ 0 \notin Systems /\ depth \in [Systems -> Nat]
  /\ \A s \in Systems : IsSpecial(s) => ParentOf[s] = 0
  /\ \A s \in Systems : ParentOf[s] # 0 =>
       /\ ParentOf[s] \in Systems /\ depth[ParentOf[s]] < depth[s]
       /\ KindOf[ParentOf[s]] \in {"shelf", "onepage"}
       /\ IsOnePageChild(s) => ~Container(s)

-----------------------------------------------------------------------------
(* Properties                                                               *)

(* However shelves nest and whether they are shown or spilled, a system is  *)
(* found in one way only: on the page itself, or through the one shelf on   *)
(* the page that holds it (LibraryView 105-116: "never both, which would    *)
(* show the same games twice").                                             *)
FoundOnce ==
  \A s \in Systems : ~Container(s) => Cardinality(Holders[s] \intersect (gridSystems \union specialSystems)) = 1

(* What is spilled leaves the collections of the page, so that nothing is   *)
(* there twice (LibraryView.jsx:109-111; docs/library-structure.md:256-258  *)
(* of one-page collections: they "stay grouped either way"). It does not    *)
(* hold: a system on a shelf of a one-page collection is spilled, and the   *)
(* collection stays.                                                        *)
NeverBoth ==
  \A s \in gridSystems : ~Container(s) => Holders[s] \intersect (gridSystems \union specialSystems) = {s}
=============================================================================
