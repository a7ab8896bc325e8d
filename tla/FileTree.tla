------------------------------ MODULE FileTree ------------------------------
(***************************************************************************)
(* A pane of the file manager (useLibraryPane, FilePane): a root and a      *)
(* folder in it that can be opened in place, each listed by a request of    *)
(* its own, a cursor that is held by path, and the rename and delete        *)
(* dialogs, while files also come and go elsewhere (an upload, another pane *)
(* or the disk itself).                                                     *)
(***************************************************************************)
EXTENDS Integers, Sequences, SequencesExt, FiniteSets, Arrays

CONSTANTS
  Names,   \* names of files: numbers from 1, in the order of a listing
  MaxFiles,\* bound: files on the disk when one is added
  MaxAsks  \* bound: browse requests under way when a file is changed; one more
           \* when the delete dialog is opened or the folder made

Root == 0
Folder == 1
At(where, name) == [in |-> where, name |-> name]
Self == At(Root, 0)   \* the row of the folder
Nowhere == At(-1, 0)
Places == {Root, Folder}
Paths == [in : Places, name : Names] \union {Self, Nowhere}

VARIABLES
  disk,      \* the files in each place
  there,     \* whether the folder exists
  listing,   \* folders: what each place was last seen to hold
  loaded,    \* the places that have been listed
  expanded,  \* whether the folder is open
  loading,   \* inFlight: places that are not asked for again
  asks,      \* requests under way: before and after the server read the disk
  cursor,
  beside,    \* neighbours: the rows before and after the cursor, while it had one
  keep,      \* keepCursor
  pending,   \* the path cursorWhenReady waits for
  dialog,    \* the dialog that is open, and its row
  content,   \* what DeleteModal knows of the content of its row
  named      \* the folder that has just gone had content, and its name was not typed

fVars == <<disk, there, listing, loaded, expanded, loading, asks, cursor, beside, keep, pending,
           dialog, content, named>>
onDisk == <<disk, there>>
shown == <<listing, loaded, expanded>>
moving == <<cursor, beside, keep, pending>>
talk == <<dialog, content, named>>

Asked == [p : Places, read : {FALSE}, got : {{}}, folder : {FALSE}]
Answers == [p : Places, read : {TRUE}, got : SUBSET Names, folder : BOOLEAN]

TreeTypeOK ==
  /\ disk \in [Places -> SUBSET Names] /\ there \in BOOLEAN
  /\ listing \in [Places -> SUBSET (Names \union {0})]
  /\ loaded \subseteq Places /\ loading \subseteq Places
  /\ asks \subseteq Asked \union Answers
  /\ {cursor, pending} \subseteq Paths
  /\ beside \in Paths \X Paths
  /\ {expanded, keep, named} \subseteq BOOLEAN
  /\ dialog \in [kind : {"none", "delete"}, on : Paths]
  /\ content \in {"unknown", "some", "none"}

-----------------------------------------------------------------------------
(* The rows                                                                 *)

Files(where, names) == Filtered([n \in Names |-> At(where, n)], {At(where, n) : n \in names})

(* rows: the folder first, its files if it is open and listed, the files of *)
(* the root. In a listing of the root 0 is the folder.                      *)
Rows(list, open, known) ==
  (IF 0 \in list[Root]
   THEN <<Self>> \o (IF open /\ Folder \in known THEN Files(Folder, list[Folder]) ELSE <<>>)
   ELSE <<>>) \o Files(Root, list[Root] \ {0})

Row(i, rows) == IF i \in DOMAIN rows THEN rows[i] ELSE Nowhere
Beside(c, rows) == LET i == SelectInSeq(rows, LAMBDA r : r = c)
                   IN <<Row(i - 1, rows), Row(i + 1, rows)>>

(* The neighbour the cursor falls back on when its row has gone.            *)
Fallback(rows) ==
  LET to == IF beside[1] # Nowhere THEN beside[1] ELSE beside[2]
  IN IF keep /\ to \in ToSet(rows) THEN to ELSE Nowhere

(* Deviation: the neighbour is not looked for among the rows.               *)
SettledAnywhere(c, rows, kept) ==
  /\ cursor' = IF c \in ToSet(rows) \union {Nowhere} THEN c
               ELSE IF keep THEN beside[1] ELSE Nowhere
  /\ pending' = pending
  /\ beside' = IF cursor' \in ToSet(rows) THEN Beside(cursor', rows) ELSE beside
  /\ keep' = kept

(* The effects that run when rows are rendered with the cursor at c: a path *)
(* that is waited for takes the cursor, a cursor without a row goes to a    *)
(* neighbour, or nowhere after a collapse.                                  *)
Settled(c, rows, kept) ==
  LET here == ToSet(rows)
      lost == c \notin here \union {Nowhere}
  IN /\ cursor' = IF pending \in here THEN pending
                  ELSE IF ~ lost THEN c
                  ELSE IF kept THEN Fallback(rows) ELSE Nowhere
     /\ pending' = IF pending \in here THEN Nowhere ELSE pending
     /\ beside' = IF cursor' \in here THEN Beside(cursor', rows) ELSE <<Nowhere, Nowhere>>
     /\ keep' = (kept \/ lost)

New(p) == [p |-> p, read |-> FALSE, got |-> {}, folder |-> FALSE]
Ask(S) ==
  /\ asks' = asks \union {New(p) : p \in S \ loading}
  /\ loading' = loading \union S

Init ==
  /\ disk = [p \in Places |-> IF p = Root THEN {n \in Names : n <= MaxFiles} ELSE {}] /\ there = TRUE
  /\ listing = [p \in Places |-> {}]
  /\ loaded = {} /\ expanded = FALSE
  /\ loading = {Root}
  /\ asks = {New(Root)}
  /\ cursor = Nowhere /\ beside = <<Nowhere, Nowhere>> /\ keep = TRUE /\ pending = Nowhere
  /\ dialog = [kind |-> "none", on |-> Nowhere] /\ content = "unknown" /\ named = FALSE

Now == Rows(listing, expanded, loaded)

-----------------------------------------------------------------------------
(* Listing                                                                  *)

(* The server reads a place.                                                *)
Browse(a) ==
  /\ a \in asks /\ ~ a.read
  /\ asks' = (asks \ {a}) \union {[a EXCEPT !.read = TRUE, !.got = disk[a.p], !.folder = there]}
  /\ UNCHANGED <<onDisk, shown, loading, moving, talk>>

Answered(a, got) ==
  /\ asks' = asks \ {a}
  /\ loading' = loading \ {a.p}
  /\ LET list == [listing EXCEPT ![a.p] = got]
         known == loaded \union {a.p}
     IN listing' = list /\ loaded' = known /\ Settled(cursor, Rows(list, expanded, known), keep)
  /\ UNCHANGED <<onDisk, expanded, talk>>
Listed(a) ==
  /\ a \in asks /\ a.read
  /\ Answered(a, IF a.p = Root /\ a.folder THEN a.got \union {0} ELSE a.got)

(* A listing that fails, whether or not the server has read, shows nothing. *)
ListingFails(a) == a \in asks /\ ~ a.read /\ Answered(a, {})

(* refresh: what is shown is listed again, unless it is being listed.       *)
Refresh == Ask({Root} \union (IF expanded THEN {Folder} ELSE {}))
(* refreshPath: a place is listed again even while it is being listed, since*)
(* the server may have read it before. If it has not, the two are one here. *)
RefreshPath(p) == asks' = asks \union {New(p)} /\ loading' = loading \union {p}

RefreshButton == Refresh /\ UNCHANGED <<onDisk, shown, moving, talk>>

(* toggleExpand: a folder that was listed once is not listed again; a       *)
(* cursor that a collapse hides is dropped.                                 *)
ToggleExpand ==
  /\ 0 \in listing[Root] /\ dialog.kind = "none"
  /\ expanded' = ~ expanded
  /\ Settled(cursor, Rows(listing, ~ expanded, loaded), ~ expanded /\ keep)
  /\ IF Folder \in loaded THEN UNCHANGED <<asks, loading>> ELSE Ask({Folder})
  /\ UNCHANGED <<onDisk, listing, loaded, talk>>

-----------------------------------------------------------------------------
(* The cursor and the dialogs                                               *)

(* cursorTo: a click or an arrow.                                           *)
CursorTo(row) ==
  /\ dialog.kind = "none" /\ row \in ToSet(Now)
  /\ cursor' = row /\ beside' = Beside(row, Now)
  /\ UNCHANGED <<onDisk, shown, loading, asks, keep, pending, talk>>

(* Delete: a dialog for the row under the cursor. A menu opens it for any.  *)
OpenDelete(row) ==
  /\ dialog.kind = "none" /\ row \in ToSet(Now) /\ Cardinality(asks) <= MaxAsks
  /\ dialog' = [kind |-> "delete", on |-> row]
  /\ content' = IF row = Self THEN "unknown" ELSE "none"
  /\ named' = FALSE
  /\ UNCHANGED <<onDisk, shown, loading, asks, moving>>

(* folderContents: what it says of the folder, or the worst if it fails.    *)
ContentKnown ==
  /\ dialog.kind = "delete" /\ content = "unknown"
  /\ content' \in {"some", IF disk[Folder] = {} THEN "none" ELSE "some"}
  /\ UNCHANGED <<onDisk, shown, loading, asks, moving, dialog, named>>

Close == dialog' = [kind |-> "none", on |-> Nowhere] /\ content' = "unknown"

CloseDialog ==
  /\ dialog.kind # "none" /\ Close
  /\ UNCHANGED <<onDisk, shown, loading, asks, moving, named>>

Exists(p) == IF p = Self THEN there ELSE p.name \in disk[p.in] /\ (p.in = Folder => there)

(* Deviation: the server leaves the guard to the dialog.                    *)
MayGoUnasked(typed) == TRUE

(* delete_path: a folder with content goes only by its name.                *)
MayGo(typed) == disk[Folder] = {} \/ typed

(* The delete is confirmed; the name is asked for when the dialog knows of  *)
(* content. Without files only the index forgets.                           *)
Delete ==
  /\ dialog.kind = "delete" /\ content # "unknown"
  /\ LET p == dialog.on
         typed == content = "some"
     IN IF Exists(p) /\ (p # Self \/ MayGo(typed))
        THEN /\ IF p = Self
                THEN there' = FALSE /\ disk' = [disk EXCEPT ![Folder] = {}]
                ELSE disk' = [disk EXCEPT ![p.in] = @ \ {p.name}] /\ UNCHANGED there
             /\ named' = (p = Self /\ disk[Folder] # {} /\ ~ typed)
             /\ Refresh /\ Close
        ELSE UNCHANGED <<onDisk, asks, loading, talk>>
  /\ UNCHANGED <<shown, moving>>

(* Rename: the dialog and its confirmation are one step. A name that is     *)
(* taken is refused. The cursor is to follow the file.                      *)
Rename(p, n) ==
  /\ dialog.kind = "none" /\ p \in ToSet(Now) \ {Self} /\ n # p.name
  /\ Exists(p) /\ n \notin disk[p.in]
  /\ disk' = [disk EXCEPT ![p.in] = (@ \ {p.name}) \union {n}]
  /\ pending' = At(p.in, n)
  /\ Refresh
  /\ UNCHANGED <<there, shown, cursor, beside, keep, talk>>

(* Escape                                                                   *)
ClearSelection ==
  /\ dialog.kind = "none"
  /\ cursor' = Nowhere /\ beside' = <<Nowhere, Nowhere>>
  /\ UNCHANGED <<onDisk, shown, loading, asks, keep, pending, talk>>

(* runMove: files are dragged, some of which may have gone since they were  *)
(* selected. The server skips those, and what would replace a file.         *)
Move(sent, to) ==
  /\ dialog.kind = "none" /\ sent \intersect ToSet(Now) # {}
  /\ LET gone == {p \in sent : Exists(p) /\ p.in # to /\ p.name \notin disk[to]}
     IN /\ to = Folder => there
        /\ disk' = [q \in Places |-> IF q = to THEN disk[to] \union {p.name : p \in gone}
                                     ELSE disk[q] \ {p.name : p \in gone}]
  /\ Refresh
  /\ UNCHANGED <<there, shown, moving, talk>>

(* MoveModal, in one step too: one row is moved to a folder picked in a tree*)
(* of its own, under another name where its own is taken.                   *)
MoveTo(p, to) ==
  /\ dialog.kind = "none" /\ p \in ToSet(Now) \ {Self} /\ p.in # to
  /\ Exists(p) /\ (to = Folder => there)
  /\ LET free == IF p.name \in disk[to] THEN Names \ disk[to] ELSE {p.name}
     IN \E n \in free : disk' = [disk EXCEPT ![p.in] = @ \ {p.name}, ![to] = @ \union {n}]
  /\ Refresh
  /\ UNCHANGED <<there, shown, moving, talk>>

(* handleCreate, when the folder has gone: it is there again, and its parent*)
(* is listed again. What was listed of it before stays.                     *)
NewFolder ==
  /\ dialog.kind = "none" /\ ~ there /\ there' = TRUE
  /\ Cardinality(asks) <= MaxAsks
  /\ RefreshPath(Root)
  /\ UNCHANGED <<disk, shown, moving, talk>>

(* Something else changes the disk; an upload of this page then refreshes.  *)
Elsewhere(p, n) ==
  /\ p = Folder => there
  /\ n \in disk[p] \/ Cardinality(disk[Root]) + Cardinality(disk[Folder]) < MaxFiles
  /\ disk' = [disk EXCEPT ![p] = (@ \ {n}) \union ({n} \ @)]
  /\ \/ n \notin disk[p] /\ Refresh
     \/ UNCHANGED <<asks, loading>>
  /\ UNCHANGED <<there, shown, moving, talk>>

-----------------------------------------------------------------------------

RenameModal == \E p \in ToSet(Now), n \in Names : Rename(p, n)
MoveModal == \E p \in ToSet(Now), to \in Places : MoveTo(p, to)
Dialogs == RenameModal \/ MoveModal
DeleteModal == dialog.kind = "delete" /\ (ContentKnown \/ Delete \/ CloseDialog)
FileRow == \E row \in ToSet(Now) : CursorTo(row) \/ (row = Self /\ ToggleExpand)
Keys == \/ ToggleExpand \/ ClearSelection \/ OpenDelete(cursor)
        \/ FileRow
ContextMenu == NewFolder \/ \E row \in ToSet(Now) : OpenDelete(row)
Drag == \E p \in Places : \E sent \in SUBSET [in : Places \ {p}, name : Names] : Move(sent, p)
Listings == \E a \in asks : Browse(a) \/ Listed(a) \/ ListingFails(a)

Next == \/ Listings \/ Keys \/ ContextMenu \/ DeleteModal
        \/ Cardinality(asks) < MaxAsks /\ (Dialogs \/ Drag \/ RefreshButton \/ \E p \in Places, n \in Names : Elsewhere(p, n))

Spec == Init /\ [][Next]_fVars

-----------------------------------------------------------------------------
(* Properties                                                               *)

(* Whatever listing arrives, and whatever is renamed, moved, collapsed or   *)
(* deleted meanwhile, the cursor is nowhere or on a row of the tree, so     *)
(* that a key never acts on something that is not shown.                    *)
CursorOnARow == cursor \in ToSet(Now) \union {Nowhere}

(* A folder that has content by the time the delete is confirmed goes only  *)
(* if its name was typed, also when it was empty when the dialog looked.    *)
FolderGoesByName == ~ named
=============================================================================
