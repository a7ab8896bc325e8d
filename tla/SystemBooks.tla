---------------------------- MODULE SystemBooks ----------------------------
(***************************************************************************)
(* The page of a game system (SystemDetailView): its books, one of which is *)
(* the row of a family of versions; the editor of a book and of the system, *)
(* the look-up of metadata, the bulk editor with a draft for each picked    *)
(* book, and tags added in bulk. Every one of them writes to the server and *)
(* patches the page when, and in the order in which, the answers arrive.    *)
(***************************************************************************)
EXTENDS Integers, FiniteSets

CONSTANTS
  Books,     \* of the system; 0 is none
  Fields,    \* of a book; "tags" among them. A field has its first value or another
  MaxSent    \* bound: requests the user makes, reloads aside

VARIABLES
  server, main,     \* at the server: the content of each book, and the books that are rows
  ever,             \* history: the fields of a book that have had their other value there
  page, rows,       \* system.books; no rows until the system has come
  systemEditor,     \* editing
  editing, form,    \* editingBookId, and the draft of that BookEditor
  picked,           \* selectedBookIds in bulk mode
  bulk, drafts, at, \* showBulkEdit, the drafts of its books, current
  saving,           \* saving and bulkApplying
  asks,             \* requests under way, and answers on their way
  sent              \* how many the user has made

pageVars == <<page, rows>>
serverVars == <<server, main, ever>>
editorVars == <<systemEditor, editing, form>>
bulkVars == <<picked, bulk, drafts, at, saving>>
kVars == <<serverVars, pageVars, editorVars, bulkVars, asks, sent>>

Content == [Fields -> BOOLEAN]
Blank == [f \in Fields |-> FALSE]
Patches == UNION {[F -> BOOLEAN] : F \in SUBSET Fields}
Patched(c, p) == [f \in Fields |-> IF f \in DOMAIN p THEN p[f] ELSE c[f]]
Kinds == {"reload", "book", "bulk", "tags", "fetched", "system", "versions", "gone"}

SystemTypeOK ==
  /\ server \in [Books -> Content] /\ page \in [Books -> Content] /\ ever \subseteq Books \X Fields
  /\ main \subseteq Books /\ rows \subseteq Books /\ picked \subseteq Books
  /\ systemEditor \in BOOLEAN /\ bulk \in BOOLEAN /\ saving \subseteq {"bulk", "tags"}
  /\ editing \in Books \union {0} /\ form \in Content /\ drafts \in [Books -> Content]
  /\ at \in Books \union {0}
  /\ \A a \in asks : a.kind \in Kinds /\ a.answered \in BOOLEAN /\ DOMAIN a.patch \subseteq Books

None == [b \in {} |-> Blank]
Blanks == [b \in Books |-> Blank]
(* A request, with the page it closes over if it is the system's editor's.  *)
Ask(kind, patch, follow) ==
  LET own == kind = "system"
  IN [kind |-> kind, patch |-> patch, follow |-> follow, page |-> IF own THEN page ELSE Blanks,
      rows |-> IF own THEN rows ELSE {}, answered |-> FALSE, refused |-> {}]

(* The page is opened, and asks for the system.                             *)
Init ==
  /\ server = Blanks /\ main = Books /\ ever = {}
  /\ page = Blanks /\ rows = {}
  /\ systemEditor = FALSE /\ editing = 0 /\ form = Blank
  /\ picked = {} /\ bulk = FALSE /\ drafts = Blanks /\ at = 0 /\ saving = {}
  /\ asks = {Ask("reload", None, 0)} /\ sent = 0

(* The page is left and opened again: what it has sent may still be served. *)
Leave ==
  /\ page' = Blanks /\ rows' = {}
  /\ systemEditor' = FALSE /\ editing' = 0 /\ form' = Blank
  /\ picked' = {} /\ bulk' = FALSE /\ drafts' = Blanks /\ at' = 0 /\ saving' = {}
  /\ asks' = {Ask("reload", None, 0)} \union
             {[a EXCEPT !.kind = "gone"] : a \in {x \in asks : ~x.answered /\ DOMAIN x.patch # {}}}
  /\ UNCHANGED <<serverVars, sent>>

Send(kind, patch, follow) ==
  /\ sent < MaxSent /\ sent' = sent + 1
  /\ asks' = asks \union {Ask(kind, patch, follow)}

-----------------------------------------------------------------------------
(* At the server                                                            *)

Stored(s) ==
  /\ server' = s
  /\ ever' = ever \union {bf \in Books \X Fields : s[bf[1]][bf[2]]}

(* A write: of a bulk edit it refuses some books and takes the others.      *)
Writes(a) ==
  \E no \in SUBSET (DOMAIN a.patch) :
    /\ no # {} => a.kind \in {"bulk", "tags"}
    /\ Stored([b \in Books |-> IF b \in DOMAIN a.patch \ no THEN Patched(server[b], a.patch[b]) ELSE server[b]])
    /\ asks' = (asks \ {a}) \union {[a EXCEPT !.answered = TRUE, !.refused = no]}
    /\ UNCHANGED main

(* The system as it is by now.                                              *)
Reads(a) ==
  /\ asks' = (asks \ {a}) \union {[a EXCEPT !.answered = TRUE, !.page = server, !.rows = main]}
  /\ UNCHANGED serverVars

(* Another version of the family becomes its row, or one is taken out of it.*)
Versions(a) ==
  /\ main' \in {(main \ {b}) \union {a.follow} : b \in Books} \ {{}}
  /\ asks' = (asks \ {a}) \union {[a EXCEPT !.answered = TRUE]}
  /\ UNCHANGED <<server, ever>>

Serve(a) ==
  /\ ~a.answered
  /\ CASE a.kind = "reload" -> Reads(a)
       [] a.kind = "versions" -> Versions(a)
       [] OTHER -> Writes(a)
  /\ UNCHANGED <<pageVars, editorVars, bulkVars, sent>>

-----------------------------------------------------------------------------
(* Answers                                                                  *)

Showing(a, p) == asks' = asks \ {a} /\ page' = p /\ UNCHANGED <<serverVars, sent>>
(* The books of the request patched as it asked.                            *)
AsAsked(a) == [b \in Books |-> IF b \in DOMAIN a.patch THEN Patched(page[b], a.patch[b]) ELSE page[b]]

(* reloadSystem: the editor follows a promoted version to its new row.      *)
Reloaded(a) ==
  /\ a.kind = "reload" /\ Showing(a, a.page) /\ rows' = a.rows
  /\ editing' = IF a.follow # 0 THEN a.follow ELSE editing
  /\ form' = IF editing' \notin rows' THEN Blank
             ELSE IF editing' # editing \/ editing \notin rows THEN page'[editing'] ELSE form
  /\ UNCHANGED <<systemEditor, bulkVars>>

(* saveBook                                                                 *)
BookSaved(a) ==
  /\ a.kind = "book" /\ Showing(a, AsAsked(a))
  /\ editing' = 0 /\ form' = Blank
  /\ UNCHANGED <<rows, systemEditor, bulkVars>>

(* setSystem({ ...system, ...updated }): the system as it was at the click. *)
SystemSaved(a) ==
  /\ a.kind = "system" /\ Showing(a, a.page) /\ rows' = a.rows /\ systemEditor' = FALSE
  /\ UNCHANGED <<editing, form, bulkVars>>

Dismissed == bulk' = FALSE /\ drafts' = Blanks /\ at' = 0

(* Deviation: the edits are reported as saved whatever was refused.         *)
BulkSavedAnyway(a) ==
  /\ a.kind = "bulk" /\ saving' = saving \ {"bulk"} /\ Showing(a, AsAsked(a)) /\ Dismissed
  /\ UNCHANGED <<rows, editorVars, picked>>

(* saveAll: with an error nothing is reported, and the editor stays open.   *)
BulkSaved(a) ==
  /\ a.kind = "bulk" /\ saving' = saving \ {"bulk"}
  /\ IF a.refused = {} THEN Showing(a, AsAsked(a)) /\ Dismissed
     ELSE Showing(a, page) /\ UNCHANGED <<bulk, drafts, at>>
  /\ UNCHANGED <<rows, editorVars, picked>>

(* applyBulkTags: the books that have been tagged.                          *)
TagsAdded(a) ==
  /\ a.kind = "tags" /\ saving' = saving \ {"tags"}
  /\ Showing(a, [b \in Books |-> IF b \in DOMAIN a.patch \ a.refused THEN Patched(page[b], a.patch[b]) ELSE page[b]])
  /\ UNCHANGED <<rows, editorVars, picked, bulk, drafts, at>>

(* handleFetched of the editor that asked: the page learns nothing of it.   *)
Fetched(a) ==
  /\ a.kind = "fetched" /\ Showing(a, page)
  /\ \E b \in DOMAIN a.patch :
       /\ form' = IF a.follow = 0 /\ editing = b THEN Patched(form, a.patch[b]) ELSE form
       /\ drafts' = IF a.follow = b /\ bulk THEN [drafts EXCEPT ![b] = Patched(@, a.patch[b])] ELSE drafts
  /\ UNCHANGED <<rows, systemEditor, editing, picked, bulk, at, saving>>

(* run of BookVersionsSection, then handleVariantsChanged.                  *)
VersionsChanged(a) ==
  /\ a.kind = "versions"
  /\ asks' = (asks \ {a}) \union {Ask("reload", None, a.follow)}
  /\ UNCHANGED <<serverVars, pageVars, editorVars, bulkVars, sent>>

Arrives(a) ==
  /\ a.answered
  /\ \/ Reloaded(a) \/ BookSaved(a) \/ SystemSaved(a) \/ BulkSaved(a)
     \/ TagsAdded(a) \/ Fetched(a) \/ VersionsChanged(a)

(* The request or its answer is lost: the button works again. Or nobody     *)
(* waits for it any more.                                                   *)
Fails(a) ==
  /\ asks' = asks \ {a}
  /\ saving' = saving \ {a.kind}
  /\ UNCHANGED <<serverVars, pageVars, editorVars, picked, bulk, drafts, at, sent>>

-----------------------------------------------------------------------------
(* One book                                                                 *)

Editing(b, d) ==
  /\ editing' = b /\ form' = d
  /\ UNCHANGED <<serverVars, pageVars, systemEditor, bulkVars, asks, sent>>
EditBook(b) == b \in rows /\ picked = {} /\ Editing(b, page[b])
CancelBook == editing # 0 /\ Editing(0, Blank)
SetForm(f) == editing \in rows /\ Editing(editing, [form EXCEPT ![f] = ~@])

Asking == UNCHANGED <<serverVars, pageVars, editorVars, bulkVars>>
(* handleSave of BookEditor: the whole form.                                *)
SaveBook == editing \in rows /\ Send("book", [b \in {editing} |-> form], 0) /\ Asking
(* apply of MetadataFetchDialog: the fields that were ticked are written.   *)
FetchBook(p) == editing \in rows /\ Send("fetched", [b \in {editing} |-> p], 0) /\ Asking
MakeMain(b) == editing \in rows /\ Send("versions", None, b) /\ Asking

(* The system's own editor: its look-up closes it as a save does.           *)
EditSystem ==
  /\ rows # {} /\ systemEditor' = ~systemEditor
  /\ UNCHANGED <<serverVars, pageVars, editing, form, bulkVars, asks, sent>>
SaveSystem == systemEditor /\ Send("system", None, 0) /\ Asking

-----------------------------------------------------------------------------
(* Many books                                                               *)

Picking(p) == picked' = p /\ UNCHANGED <<serverVars, pageVars, editorVars, bulk, drafts, at, saving, asks, sent>>
ToggleBook(b) == ~bulk /\ b \in rows /\ Picking(IF b \in picked THEN picked \ {b} ELSE picked \union {b})
ExitBulk == ~bulk /\ picked # {} /\ Picking({})

items == picked \intersect rows
ApplyTags ==
  /\ ~bulk /\ items # {} /\ "tags" \notin saving /\ saving' = saving \union {"tags"}
  /\ Send("tags", [b \in items |-> [f \in {"tags"} |-> TRUE]], 0)
  /\ UNCHANGED <<serverVars, pageVars, editorVars, picked, bulk, drafts, at>>

(* The drafts are taken from the books once, when the editor opens; it is   *)
(* mounted anew each time, and an answer to the last one still closes it.   *)
OpenBulk ==
  /\ ~bulk /\ items # {} /\ bulk' = TRUE /\ drafts' = [b \in Books |-> IF b \in items THEN page[b] ELSE Blank] /\ at' \in items
  /\ UNCHANGED <<serverVars, pageVars, editorVars, picked, saving, asks, sent>>
CloseBulk ==
  /\ bulk /\ Dismissed /\ saving' = saving \ {"bulk"}
  /\ UNCHANGED <<serverVars, pageVars, editorVars, picked, asks, sent>>
Drafting(d, b) ==
  /\ bulk /\ drafts' = d /\ at' = b
  /\ UNCHANGED <<serverVars, pageVars, editorVars, picked, bulk, saving, asks, sent>>
Go(b) == b \in items /\ b # at /\ Drafting(drafts, b)
SetField(f) == Drafting([drafts EXCEPT ![at][f] = ~@], at)
ApplyToAll(F) ==
  Drafting([b \in Books |-> IF b \in items THEN [f \in Fields |-> drafts[IF f \in F THEN at ELSE b][f]] ELSE drafts[b]], at)
FetchDraft(p) == bulk /\ Send("fetched", [b \in {at} |-> p], at) /\ Asking

(* diffDrafts: what differs from the books as the page shows them now.      *)
Changed(b) == {f \in Fields : drafts[b][f] # page[b][f]}
SaveAll ==
  /\ bulk /\ "bulk" \notin saving
  /\ LET changed == {b \in items : Changed(b) # {}}
     IN IF changed = {} THEN Dismissed /\ UNCHANGED <<saving, asks, sent>>
        ELSE /\ saving' = saving \union {"bulk"} /\ UNCHANGED <<bulk, drafts, at>>
             /\ Send("bulk", [b \in changed |-> [f \in Changed(b) |-> drafts[b][f]]], 0)
  /\ UNCHANGED <<serverVars, pageVars, editorVars, picked>>

-----------------------------------------------------------------------------
(* What each part of the page offers                                        *)

BookForm == SaveBook \/ CancelBook \/ \E f \in Fields : SetForm(f)
Incoming == \E p \in Patches : DOMAIN p # {} /\ (FetchBook(p) \/ FetchDraft(p))
FetchDialog == Incoming
VersionsSection == \E b \in Books : MakeMain(b)
SystemForm == systemEditor /\ (SaveSystem \/ EditSystem)
ActionsMenu == \E b \in Books : EditBook(b)
BookCard == ActionsMenu \/ \E b \in Books : ToggleBook(b)
BookLine == BookCard
FolderGroup == BookCard \/ BookLine
Category == BookCard \/ BookLine \/ FolderGroup
BookList == Category \/ BookCard
BulkBar == picked # {} /\ (ApplyTags \/ OpenBulk \/ ExitBulk)
Carousel == CloseBulk \/ SaveAll \/ \E b \in Books : Go(b)
BookFields == \E f \in Fields : SetField(f)
SystemFields == BookFields
ApplyAllDialog == bulk /\ \E F \in SUBSET Fields : F # {} /\ ApplyToAll(F)
Header == EditSystem \/ Leave

Next ==
  \/ \E a \in asks : Serve(a) \/ Arrives(a) \/ Fails(a)
  \/ Header \/ Category \/ BookForm \/ FetchDialog \/ VersionsSection \/ SystemForm
  \/ BulkBar \/ Carousel \/ BookFields \/ SystemFields \/ ApplyAllDialog

Spec == Init /\ [][Next]_kVars

-----------------------------------------------------------------------------
(* Why it holds                                                             *)

(* Every value of p was stored, or is the first.                            *)
WasStored(p) == p \in [Books -> Content] /\ \A b \in Books, f \in Fields : p[b][f] => <<b, f>> \in ever

(* What a request will show was stored, but for what the server refused.    *)
AskFields == {"kind", "patch", "follow", "page", "rows", "answered", "refused"}
AskKept(a) ==
  /\ DOMAIN a = AskFields
  /\ WasStored(a.page) /\ a.rows \subseteq Books
  /\ a.kind = "versions" => a.follow \in Books
  /\ a.refused # {} => a.answered /\ a.kind \in {"bulk", "tags"}
  /\ \A b \in DOMAIN a.patch : b \in Books /\ a.patch[b] \in Patches
  /\ a.answered /\ a.kind \in {"book", "bulk", "tags"} =>
       \A b \in DOMAIN a.patch \ a.refused : \A f \in DOMAIN a.patch[b] :
         a.patch[b][f] => <<b, f>> \in ever
ShownKept ==
  /\ WasStored(server) /\ WasStored(page) /\ main \subseteq Books /\ rows \subseteq Books
  /\ form \in Content /\ drafts \in [Books -> Content] /\ (bulk => at \in Books)
  /\ \A a \in asks : AskKept(a)

-----------------------------------------------------------------------------
(* Properties                                                               *)

(* In whatever order the answers arrive, and whatever the server refused, a *)
(* book on the page shows only what the server has stored for it at some    *)
(* time (the comment at BulkEditModal.jsx:369: what was rejected must not be*)
(* reported as saved).                                                      *)
PageNeverAhead == \A b \in rows, f \in Fields : page[b][f] => <<b, f>> \in ever
=============================================================================
