----------------------------- MODULE Tags -------------------------------
(***************************************************************************)
(* Hearts and tags: the hearts and the page of favourites                  *)
(* (FavoritesContext), and the page of tags (TagsView). A heart is a toggle *)
(* at the server; the favourites are read again as a whole after one is set *)
(* and whenever the tab comes to the front.                                 *)
(***************************************************************************)
EXTENDS Integers, FiniteSets

CONSTANTS
  Names,     \* tags, which can have a heart
  MaxHearts, \* bound: hearts being set, and answers of the favourites on their way
  MaxAsked   \* bound: requests of the page of tags

VARIABLES
  saved,     \* the hearts at the server
  favorites, items,      \* the hearts of the context, and what its page lists
  reloads,   \* answers to GET /favorites on their way: [hearts, rows]
  toggles,   \* hearts being set or taken away: [key, set, served]
  catalog,   \* the tags of the server
  allTags, flagged,      \* the list of the page, and its own is_favorite marks
  active, detail, loading, renaming,  \* of the page: ?tag=, detail, detailLoading, renaming
  asked      \* requests of the page: [kind, tag, to, served, ok]

heartVars == <<saved, favorites, items, reloads, toggles>>
listVars == <<catalog, allTags, flagged>>
pageVars == <<active, detail, loading, renaming>>
tagVars == <<heartVars, listVars, pageVars, asked>>

None == "none"
Request == [kind : {"list", "items", "rename", "delete"}, tag : Names \union {None}, to : Names \union {None},
            served : BOOLEAN, ok : BOOLEAN, got : SUBSET Names, marks : SUBSET Names]
New(kind, tag, to) ==
  [kind |-> kind, tag |-> tag, to |-> to, served |-> FALSE, ok |-> TRUE, got |-> {}, marks |-> {}]

TagsTypeOK ==
  /\ \A S \in {saved, favorites, items, catalog, allTags, flagged} : S \subseteq Names
  /\ reloads \subseteq [hearts : SUBSET Names, rows : SUBSET Names]
  /\ \A q \in toggles : q \in [key : Names, set : BOOLEAN, served : BOOLEAN]
  /\ {active, detail} \subseteq Names \union {None} /\ loading \in BOOLEAN /\ renaming \in BOOLEAN
  /\ asked \subseteq Request

Init ==
  /\ saved \in SUBSET Names /\ favorites = {} /\ items = {} /\ reloads = {} /\ toggles = {}
  /\ catalog = Names /\ allTags = {} /\ flagged = {}
  /\ active = None /\ detail = None /\ loading = FALSE /\ renaming = FALSE /\ asked = {}

-----------------------------------------------------------------------------
(* Hearts                                                                   *)

HeartsOnly == UNCHANGED <<listVars, pageVars, asked>>

(* The context reads everything anew. A heart whose thing is gone from the  *)
(* library has no row on the page.                                          *)
Reload ==
  /\ reloads' = reloads \union {[hearts |-> saved, rows |-> saved \intersect catalog]}
  /\ Cardinality(reloads') <= MaxHearts

Visible == Reload /\ UNCHANGED <<saved, favorites, items, toggles>> /\ HeartsOnly

(* Hearts and page are replaced by one answer.                              *)
Reloaded(r) ==
  /\ reloads' = reloads \ {r} /\ favorites' = r.hearts /\ items' = r.rows
  /\ UNCHANGED <<saved, toggles>> /\ HeartsOnly

(* A click asks for the opposite of what the heart shows.                   *)
ToggleFavorite(k) ==
  /\ toggles' = toggles \union {[key |-> k, set |-> k \notin favorites, served |-> FALSE]}
  /\ toggles' # toggles /\ Cardinality(toggles') <= MaxHearts
  /\ UNCHANGED <<saved, favorites, items, reloads, listVars, pageVars, asked>>

FavoriteServed(q) ==
  /\ ~q.served /\ toggles' = (toggles \ {q}) \union {[q EXCEPT !.served = TRUE]}
  /\ saved' = (IF q.set THEN saved \union {q.key} ELSE saved \ {q.key})
  /\ UNCHANGED <<favorites, items, reloads>> /\ HeartsOnly

FavoriteRefused(q) ==
  /\ ~q.served /\ toggles' = toggles \ {q}
  /\ UNCHANGED <<saved, favorites, items, reloads>> /\ HeartsOnly

(* The answer: a heart is filled and everything is read again, or it is     *)
(* emptied and its row leaves the page.                                     *)
FavoriteAdded(q) ==
  /\ q.served /\ q.set /\ toggles' = toggles \ {q}
  /\ favorites' = favorites \union {q.key} /\ Reload
  /\ UNCHANGED <<saved, items>> /\ HeartsOnly

(* Deviation: the row stays until the favourites are read again.            *)
FavoriteTakenRowKept(q) ==
  /\ q.served /\ ~q.set /\ toggles' = toggles \ {q}
  /\ favorites' = favorites \ {q.key}
  /\ UNCHANGED <<saved, items, reloads>> /\ HeartsOnly

FavoriteTaken(q) ==
  /\ q.served /\ ~q.set /\ toggles' = toggles \ {q}
  /\ favorites' = favorites \ {q.key} /\ items' = items \ {q.key}
  /\ UNCHANGED <<saved, reloads>> /\ HeartsOnly

-----------------------------------------------------------------------------
(* The page of tags                                                         *)

Ask(kind, tag, to) ==
  /\ Cardinality(asked) < MaxAsked
  /\ asked' = asked \union {New(kind, tag, to)}
PageOnly == UNCHANGED heartVars

(* The page is opened, by a link to a tag or without one. Bound: not while  *)
(* a rename or a deletion is under way.                                     *)
Opened(tag) ==
  /\ \A q \in asked : q.kind \in {"list", "items"}
  /\ active' = tag /\ detail' = None /\ loading' = (tag # None) /\ renaming' = FALSE
  /\ allTags' = {} /\ flagged' = {} /\ UNCHANGED catalog
  /\ asked' = {New("list", None, None)} \union (IF tag = None THEN {} ELSE {New("items", tag, None)})
  /\ PageOnly

(* The address names a tag: its items are asked for, whatever is under way. *)
(* Without one the pane is emptied.                                         *)
Selected(tag) ==
  /\ active' = tag /\ detail' = (IF tag = None THEN None ELSE detail)
  /\ loading' = (IF tag = None THEN loading ELSE TRUE)
  /\ renaming' = (IF tag = None THEN renaming ELSE FALSE)

SelectTag(tag) ==
  /\ tag \in allTags /\ tag # active
  /\ Selected(tag) /\ Ask("items", tag, None) /\ UNCHANGED listVars /\ PageOnly

Shown == detail # None /\ active # None /\ ~loading

Renaming(b) == Shown /\ renaming' = b /\ UNCHANGED <<active, detail, loading, listVars, asked>> /\ PageOnly
SaveRename(to) == Shown /\ renaming /\ Ask("rename", detail, to) /\ UNCHANGED <<listVars, pageVars>> /\ PageOnly
DeleteTag == Shown /\ Ask("delete", detail, None) /\ UNCHANGED <<listVars, pageVars>> /\ PageOnly

(* The heart of a tag: the toggle, and the mark of the list turned round.   *)
TagFavorited(tag) == tag \in favorites \/ tag \in flagged
ToggleTagFavorite(tag) ==
  /\ tag \in allTags
  /\ toggles' = toggles \union {[key |-> tag, set |-> tag \notin favorites, served |-> FALSE]}
  /\ toggles' # toggles /\ Cardinality(toggles') <= MaxHearts
  /\ flagged' = (IF TagFavorited(tag) THEN flagged \ {tag} ELSE flagged \union {tag})
  /\ UNCHANGED <<saved, favorites, items, reloads, catalog, allTags, pageVars, asked>>

(* The server: a tag is renamed, merged into the one that has the name, or  *)
(* deleted; what is gone answers 404.                                       *)
TagServed(q) ==
  LET known == q.kind = "list" \/ q.tag \in catalog
  IN /\ ~q.served
     /\ asked' = (asked \ {q}) \union
          {IF q.kind = "list" THEN [q EXCEPT !.served = TRUE, !.got = catalog, !.marks = saved \intersect catalog]
           ELSE [q EXCEPT !.served = TRUE, !.ok = known]}
     /\ catalog' = (IF ~known \/ q.kind \in {"list", "items"} THEN catalog
                    ELSE (catalog \ {q.tag}) \union (IF q.kind = "rename" THEN {q.to} ELSE {}))
     /\ UNCHANGED <<allTags, flagged, pageVars>> /\ PageOnly

ListArrives(q) ==
  /\ q.served /\ q.kind = "list" /\ asked' = asked \ {q}
  /\ allTags' = q.got /\ flagged' = q.marks
  /\ UNCHANGED <<catalog, pageVars>> /\ PageOnly

(* The items arrive: they are shown, whichever tag is selected by now.      *)
ItemsArrive(q) ==
  /\ q.served /\ q.kind = "items" /\ asked' = asked \ {q}
  /\ detail' = (IF q.ok THEN q.tag ELSE None) /\ loading' = FALSE
  /\ UNCHANGED <<active, renaming, listVars>> /\ PageOnly

(* A rename that changes the key selects the tag that holds it now.         *)
RenameDone(q) ==
  /\ q.served /\ q.ok /\ q.kind = "rename"
  /\ asked' = (asked \ {q}) \union
       {New("list", None, None)} \union (IF q.to \notin {q.tag, active} THEN {New("items", q.to, None)} ELSE {})
  /\ IF q.to \notin {q.tag, active} THEN Selected(q.to)
     ELSE renaming' = FALSE /\ UNCHANGED <<active, detail, loading>>
  /\ UNCHANGED listVars /\ PageOnly

DeleteDone(q) ==
  /\ q.served /\ q.ok /\ q.kind = "delete"
  /\ asked' = (asked \ {q}) \union {New("list", None, None)}
  /\ Selected(None) /\ UNCHANGED listVars /\ PageOnly

(* Nothing catches a rename or a deletion that is refused.                  *)
TagRefused(q) ==
  /\ q.served /\ ~q.ok /\ q.kind \in {"rename", "delete"} /\ asked' = asked \ {q}
  /\ UNCHANGED <<listVars, pageVars>> /\ PageOnly

Next ==
  \/ Visible \/ \E r \in reloads : Reloaded(r)
  \/ \E k \in Names : ToggleFavorite(k) \/ ToggleTagFavorite(k) \/ SelectTag(k) \/ SaveRename(k)
  \/ \E q \in toggles : FavoriteServed(q) \/ FavoriteRefused(q) \/ FavoriteAdded(q) \/ FavoriteTaken(q)
  \/ \E tag \in Names \union {None} : Opened(tag)
  \/ \E b \in BOOLEAN : Renaming(b)
  \/ DeleteTag
  \/ \E q \in asked : \/ TagServed(q) \/ ListArrives(q) \/ ItemsArrive(q)
                      \/ RenameDone(q) \/ DeleteDone(q) \/ TagRefused(q)

TagsSpec == Init /\ [][Next]_tagVars

-----------------------------------------------------------------------------
(* Why it holds                                                             *)

(* An answer on its way has rows for its own hearts only.                   *)
AnswersMatch == \A r \in reloads : r.rows \subseteq r.hearts

-----------------------------------------------------------------------------
(* Properties                                                               *)

(* Whatever answers arrive late, the page of favourites never lists a thing *)
(* whose heart is empty: hearts and rows come from one answer, and a heart  *)
(* that is emptied takes its row along (FavoritesContext 10-53).            *)
RowsHaveHearts == items \subseteq favorites
=============================================================================
