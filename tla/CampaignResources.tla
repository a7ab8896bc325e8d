-------------------------- MODULE CampaignResources --------------------------
(***************************************************************************)
(* What is linked to a campaign (ResourcesPanel): the links and their       *)
(* categories are two lists, fetched apart; links are picked, dragged into a*)
(* group or onto another link, and taken off; the categories are managed in *)
(* a dialog (CategoryManager) with a list of its own. Another page of the   *)
(* campaign changes the same lists. The order of links and of groups, names *)
(* and icons, visibility and shares are left out: they are requests without *)
(* effect here.                                                             *)
(***************************************************************************)
EXTENDS Integers, FiniteSets

CONSTANTS
  Items,     \* what the library has to link
  MaxCats,   \* bound: categories ever made
  MaxWrites, \* bound: writes sent from the page and made elsewhere
  MaxAsked   \* bound: requests under way once the user has sent one more

VARIABLES
  server,   \* links, categories, and how many categories were ever made
  links,    \* the links as the panel has them: the category of each
  cats,     \* the categories as the panel has them
  managed,  \* the categories as the open dialog has them
  dialog,   \* picking, managing, or asking how to delete a category
  picked,   \* ticked in the picker
  held,     \* the category about to be deleted
  busy,     \* the dialog waits for an answer
  requests, \* under way, and answers on their way
  written   \* writes so far

rVars == <<server, links, cats, managed, dialog, picked, held, busy, requests, written>>

Unlinked == -1
None == 0
Cats == 1..MaxCats
Links == [Items -> Unlinked..MaxCats]
Listed(l) == {i \in Items : l[i] # Unlinked}
Nothing == [i \in Items |-> Unlinked]

(* item and to are 0, set is empty where a request has no use for them; own *)
(* says that the dialog of the moment has sent it.                          *)
Write(do, item, to, set) ==
  [do |-> do, item |-> item, to |-> to, set |-> set, state |-> "sent", own |-> TRUE, links |-> Nothing, cats |-> {}]
Load(what) == Write(what, 0, 0, {})
Refetches == {Load("links"), Load("cats")}

ResourcesTypeOK ==
  /\ server.links \in Links /\ server.cats \subseteq Cats /\ server.made \in 0..MaxCats
  /\ links \in Links /\ cats \subseteq Cats /\ managed \subseteq Cats
  /\ dialog \in {"none", "pick", "manage", "delete"} /\ picked \subseteq Items
  /\ held \in Cats \union {0} /\ busy \in BOOLEAN /\ written \in 0..MaxWrites
  /\ \A r \in requests : r.state \in {"sent", "ok", "failed"}

Init ==
  /\ server \in {[links |-> l, cats |-> {1}, made |-> 1] : l \in [Items -> {Unlinked, 1}]}
  /\ links = Nothing /\ cats = {} /\ managed = {} /\ dialog = "none" /\ picked = {} /\ held = 0
  /\ busy = FALSE /\ requests = Refetches /\ written = 0

-----------------------------------------------------------------------------
(* At the server                                                            *)

(* A link takes only a category there is; what is linked is not linked again*)
Accepts(w) ==
  CASE w.do \in {"share", "file"} -> server.links[w.item] # Unlinked /\ w.to \in server.cats \union {None}
    [] w.do = "create" -> server.made < MaxCats
    [] w.do = "rename" -> w.to \in server.cats
    [] OTHER -> TRUE

Effect(w) ==
  CASE w.do = "link" ->
         [server EXCEPT !.links = [i \in Items |-> IF i \in w.set /\ @[i] = Unlinked THEN None ELSE @[i]]]
    [] w.do = "file" -> [server EXCEPT !.links[w.item] = w.to]
    [] w.do = "remove" -> [server EXCEPT !.links[w.item] = Unlinked]
    [] w.do = "create" -> [server EXCEPT !.cats = @ \union {server.made + 1}, !.made = @ + 1]
    [] w.do \in {"uncategorize", "delete_items"} ->
         [server EXCEPT !.cats = @ \ {w.to},
            !.links = [i \in Items |-> IF @[i] = w.to /\ w.to \in server.cats
                                         THEN (IF w.do = "uncategorize" THEN None ELSE Unlinked) ELSE @[i]]]
    [] OTHER -> server

Answered(r, s, new) ==
  requests' = (requests \ {r}) \union {[r EXCEPT !.state = s, !.links = new.links, !.cats = new.cats]}
Empty == [links |-> Nothing, cats |-> {}]

Serve(r) ==
  /\ r.state = "sent" /\ UNCHANGED <<links, cats, managed, dialog, picked, held, busy, written>>
  /\ \/ UNCHANGED server /\ Answered(r, "failed", Empty)   \* archived meanwhile, or out of reach
     \/ Accepts(r) /\ server' = Effect(r)
          /\ Answered(r, "ok", IF r.do \in {"links", "cats", "managed"} THEN server ELSE Empty)

(* Another page of the same campaign.                                       *)
Elsewhere ==
  /\ written < MaxWrites /\ written' = written + 1
  /\ \E w \in {Write("link", 0, 0, Items), Write("create", 0, 0, {})}
            \union {Write("remove", i, 0, {}) : i \in Items} \union {Write("file", i, c, {}) : i \in Items, c \in Cats}
            \union {Write(m, 0, c, {}) : m \in {"uncategorize", "delete_items"}, c \in Cats} :
       Accepts(w) /\ server' = Effect(w) /\ server' # server
  /\ UNCHANGED <<links, cats, managed, dialog, picked, held, busy, requests>>

-----------------------------------------------------------------------------
(* Answers                                                                  *)

(* A list that cannot be fetched is an empty one.                           *)
Fetched(r) ==
  /\ r.do \in {"links", "cats", "managed"} /\ requests' = requests \ {r}
  /\ links' = IF r.do = "links" THEN r.links ELSE links
  /\ cats' = IF r.do = "cats" THEN r.cats ELSE cats
  /\ managed' = IF r.do = "managed" /\ r.own THEN r.cats ELSE managed
  /\ UNCHANGED <<server, dialog, picked, held, busy, written>>

(* A drop onto another link goes on with the order once the category is     *)
(* set ("file" then "order"); everything else fetches what it changed. A    *)
(* write that fails fetches nothing.                                        *)
Then(r) ==
  CASE r.state = "failed" -> {}
    [] r.do = "file" /\ r.set # {} -> {Write("order", r.item, 0, {})}
    [] r.do \in {"create", "rename", "uncategorize", "delete_items"} -> Refetches \union {Load("managed")}
    [] r.do = "arrange" -> Refetches
    [] OTHER -> {Load("links")}

(* What its dialog waits for.                                               *)
Awaited == {"link", "create", "rename", "uncategorize", "delete_items"}
Wrote(r) ==
  /\ r.do \notin {"links", "cats", "managed"} /\ requests' = (requests \ {r}) \union Then(r)
  /\ busy' = (busy /\ ~(r.own /\ r.do \in Awaited))
  /\ dialog' = IF r.state = "failed" THEN dialog
               ELSE IF r.do = "link" /\ dialog = "pick" THEN "none"
               ELSE IF r.own /\ r.do \in {"uncategorize", "delete_items"} THEN "manage" ELSE dialog
  /\ picked' = IF dialog = "pick" /\ dialog' = "none" THEN {} ELSE picked
  /\ held' = IF dialog = "delete" /\ dialog' = "manage" THEN 0 ELSE held
  /\ UNCHANGED <<server, links, cats, managed, written>>

Arrives(r) == r.state # "sent" /\ (Fetched(r) \/ Wrote(r))

-----------------------------------------------------------------------------
(* The groups of the panel                                                  *)

CatGroup(c) == {i \in Items : links[i] = c}
(* Deviation: the groups of the types hold only what has no category.       *)
TypeGroupBare == {i \in Items : links[i] = None}
(* The groups of the types, one here: what has no category, or one that the *)
(* panel does not have.                                                     *)
TypeGroup == {i \in Items : links[i] = None \/ (links[i] # Unlinked /\ links[i] \notin cats)}
Groups == {CatGroup(c) : c \in cats} \union {TypeGroup}

-----------------------------------------------------------------------------
(* What the page offers                                                     *)

Send(w) ==
  /\ written < MaxWrites /\ Cardinality(requests) < MaxAsked
  /\ written' = written + 1 /\ requests' = requests \union {w}
  /\ UNCHANGED <<server, links, cats, managed, picked>>
Put(w) == Send(w) /\ UNCHANGED <<dialog, held, busy>>
Wait(w) == ~busy /\ Send(w) /\ busy' = TRUE /\ UNCHANGED <<dialog, held>>
Show(d, h, rs) ==
  /\ Cardinality(requests \union rs) <= MaxAsked
  /\ dialog' = d /\ held' = h /\ requests' = requests \union rs
  /\ UNCHANGED <<server, links, cats, managed, picked, busy, written>>

Remove(i) == Put(Write("remove", i, 0, {}))
SetVisibility(i) == Put(Write("share", i, 0, {}))
SetCategory(i, c) == Put(Write("file", i, c, {}))

(* Drag and drop is one step: the drop reads the lists of that moment.      *)
DropToGroup(i, c) == links[i] # c /\ Put(Write("file", i, c, {}))
DropOnResource(i, t) ==
  /\ i # t
  /\ Put(IF links[i] # links[t] THEN Write("file", i, links[t], {t}) ELSE Write("order", i, 0, {}))

(* The picker offers what the panel does not know to be linked.             *)
ToggleRow(i) ==
  /\ dialog = "pick" /\ i \notin Listed(links)
  /\ picked' = (IF i \in picked THEN picked \ {i} ELSE picked \union {i})
  /\ UNCHANGED <<server, links, cats, managed, dialog, held, busy, requests, written>>
Submit == dialog = "pick" /\ picked # {} /\ Wait(Write("link", 0, 0, picked))

Create == dialog = "manage" /\ Wait(Write("create", 0, 0, {}))
Rename(c) == dialog = "manage" /\ c \in managed /\ Wait(Write("rename", 0, c, {}))
MoveRow == dialog = "manage" /\ managed # {} /\ Put(Write("arrange", 0, 0, {}))
DoDelete(mode) == dialog = "delete" /\ Wait(Write(mode, 0, held, {}))

ResourceRow ==
  \E i \in Listed(links) : dialog = "none" /\
    (Remove(i) \/ SetVisibility(i) \/ (\E c \in cats \union {None} : SetCategory(i, c)))
Panel ==
  dialog = "none" /\ (\/ \E i \in Listed(links), c \in cats \union {None} : DropToGroup(i, c)
                      \/ \E i, t \in Listed(links) : DropOnResource(i, t)
                      \/ Show("pick", 0, {}) \/ Show("manage", 0, {Load("managed")}))
Close ==
  /\ dialog # "none" /\ dialog' = "none" /\ held' = 0 /\ picked' = {} /\ busy' = FALSE
  /\ managed' = {} /\ requests' = {[r EXCEPT !.own = (r.do \notin Awaited \union {"managed"})] : r \in requests}
  /\ UNCHANGED <<server, links, cats, written>>
Picker == (\E i \in Items : ToggleRow(i)) \/ Submit
Manager ==
  \/ Create \/ MoveRow \/ \E c \in managed : Rename(c)
  \/ dialog = "manage" /\ \E c \in managed : Show("delete", c, {})
DeleteChoice == (\E m \in {"uncategorize", "delete_items"} : DoDelete(m)) \/ (dialog = "delete" /\ Show("manage", 0, {}))

Next ==
  \/ \E r \in requests : Serve(r) \/ Arrives(r)
  \/ Elsewhere
  \/ ResourceRow \/ Panel \/ Close \/ Picker \/ Manager \/ DeleteChoice

Spec == Init /\ [][Next]_rVars

-----------------------------------------------------------------------------
(* Why it holds                                                             *)

(* Categories are numbered from 1, so that none of them is taken for None.  *)
Numbered ==
  /\ server \in [links : Links, cats : SUBSET Cats, made : 0..MaxCats]
  /\ cats \subseteq Cats
  /\ \A r \in requests : "cats" \in DOMAIN r /\ r.cats \subseteq Cats

-----------------------------------------------------------------------------
(* Properties                                                               *)

(* Every link the panel has is in one of its groups and in no other, in     *)
(* whatever order its two lists arrive and whichever fails: a link whose    *)
(* category has gone, or has not come yet, falls to the group of its type   *)
(* (ResourcesPanel.jsx, the groups).                                        *)
NothingHidden ==
  \A i \in Listed(links) : \E g \in Groups : i \in g /\ \A h \in Groups \ {g} : i \notin h
=============================================================================
