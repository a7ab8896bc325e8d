------------------------------ MODULE WikiNotes -----------------------------
(***************************************************************************)
(* The notes of a campaign (WikiView, PageEditor): the tree of notes and the*)
(* open note are fetched and arrive when they arrive, the editor is filled  *)
(* from the note that was open when it appeared, and other members move     *)
(* notes meanwhile. A list is taken to be computed when it arrives.         *)
(***************************************************************************)
EXTENDS Integers, FiniteSets

CONSTANTS
  MaxNotes,  \* bound: notes that ever exist, numbered from 1; 0 is none
  MaxAsked   \* bound: notes and lists under way when the user does something

VARIABLES
  exists,    \* the notes on the server
  parent,    \* parent_id on the server, 0 for a top-level note
  text,      \* whose text a note holds: a note's number stands for its own
  listed,    \* pages: the notes in the tree
  listedIn,  \* and their parents, as far as the page knows
  selected,  \* the ?note= parameter
  open,      \* page: the note in the pane
  editing,   \* the note whose editor the pane shows was filled from, or 0
  creating,  \* the pane is the editor of a new note
  asked,     \* notes whose getWikiPage is under way
  lists,     \* listWikiPages under way, each with the note it is to select
  saved,     \* the note whose save is under way
  picked,    \* selectedIds
  bulk       \* runBulkAction: the notes it has still to delete, and whether it
             \* leaves the selected note

wVars == <<exists, parent, text, listed, listedIn, selected, open, editing, creating,
           asked, lists, saved, picked, bulk>>
server == <<exists, parent, text>>

Notes == 1..MaxNotes

WikiTypeOK ==
  /\ exists \subseteq Notes /\ listed \subseteq Notes /\ picked \subseteq Notes
  /\ {parent, listedIn} \subseteq [Notes -> Notes \union {0}]
  /\ text \in [Notes -> Notes]
  /\ {selected, open, saved} \subseteq Notes \union {0}
  /\ asked \subseteq Notes /\ lists \subseteq Notes \union {0}
  /\ creating \in BOOLEAN
  /\ bulk \in {<<>>} \union [1..1 -> [left : SUBSET Notes, leaves : BOOLEAN]]

Init ==
  /\ exists = Notes \ {MaxNotes}
  /\ parent = [n \in Notes |-> 0]
  /\ text = [n \in Notes |-> n]
  /\ listed = {} /\ listedIn = parent
  /\ selected = 0 /\ open = 0 /\ editing = 0 /\ saved = 0
  /\ creating = FALSE
  /\ asked = {} /\ lists = {0} /\ picked = {} /\ bulk = <<>>

(* n, its children, their children and so on: the least set that has n and  *)
(* with a note its children.                                                *)
Below(n, in) ==
  {m \in Notes : \A S \in SUBSET Notes :
     n \in S /\ (\A k \in Notes : in[k] \in S => k \in S) => m \in S}

(* Another note is selected: it is fetched, and an editor closes.           *)
Selected(n) ==
  /\ selected' = n
  /\ IF n = selected THEN UNCHANGED <<editing, asked, open>>
     ELSE IF n = 0 THEN open' = 0 /\ UNCHANGED <<editing, asked>>
     ELSE editing' = 0 /\ asked' = asked \union {n} /\ UNCHANGED open

-----------------------------------------------------------------------------
(* Answers                                                                  *)

(* The list: the note the caller asked for is selected, or when none is, the*)
(* first one, unless the window is as narrow as a telephone (it may be made *)
(* so at any time).                                                         *)
ListArrives(n) ==
  /\ n \in lists /\ lists' = lists \ {n}
  /\ listed' = exists /\ listedIn' = parent
  /\ IF n # 0 THEN Selected(n)
     ELSE \/ selected = 0 /\ \E m \in exists : Selected(m)
          \/ UNCHANGED <<selected, editing, asked, open>>
  /\ UNCHANGED <<server, creating, saved, picked, bulk>>

(* A note is shown, whatever is selected by now. An editor that is open keeps*)
(* what it was filled with; one that had no note to show is filled now.     *)
NoteArrives(n) ==
  /\ n \in asked /\ asked' = asked \ {n}
  /\ open' = IF n \in exists THEN n ELSE 0
  /\ editing' = IF editing # 0 /\ open = 0 THEN n ELSE editing
  /\ UNCHANGED <<server, listed, listedIn, selected, creating, lists, saved, picked, bulk>>

(* handleSaved                                                              *)
SaveArrives ==
  /\ saved # 0 /\ saved' = 0
  /\ creating' = FALSE /\ editing' = 0
  /\ lists' = lists \union {saved}
  /\ asked' = asked \union {saved}
  /\ selected' = saved
  /\ UNCHANGED <<server, listed, listedIn, open, picked, bulk>>

-----------------------------------------------------------------------------
(* The tree                                                                 *)

(* A click on a row or a backlink leaves a new note that is being written.  *)
Click(n) ==
  /\ n \in listed /\ creating' = FALSE /\ picked' = {}
  /\ Selected(n)
  /\ UNCHANGED <<server, listed, listedIn, lists, saved, bulk>>

(* A click with Ctrl: the first one picks the open note too.                *)
Pick(n) ==
  /\ n \in listed
  /\ LET seed == IF picked = {} THEN {selected} \ {0} ELSE picked
     IN picked' = (seed \ {n}) \union ({n} \ seed)
  /\ UNCHANGED <<server, listed, listedIn, selected, open, editing, creating,
                 asked, lists, saved, bulk>>

(* "My notes", "Hidden", or a link to a note the list does not have.        *)
Filter ==
  /\ lists' = lists \union {0}
  /\ UNCHANGED <<server, listed, listedIn, selected, open, editing, creating,
                 asked, saved, picked, bulk>>

(* The server's _validate_parent: not under itself or one of its own.       *)
MoveAllowed(n, p) == p = 0 \/ p \in exists \ Below(n, parent)

(* Deviation: the server trusts what the tree of the page allowed, but for  *)
(* a note under itself.                                                     *)
Adopts(n, p) == parent' = IF n \in exists /\ p \in (exists \union {0}) \ {n} THEN [parent EXCEPT ![n] = p] ELSE parent

(* The server moves a note, or refuses.                                     *)
Moved(n, p) ==
  parent' = IF n \in exists /\ MoveAllowed(n, p) THEN [parent EXCEPT ![n] = p] ELSE parent

(* onDropOnPage and onDropOnRoot: into a note of the tree, beside it or to  *)
(* the top.                                                                 *)
Drop(n, p) ==
  /\ n \in listed /\ p \in listed \union {0} /\ picked = {}
  /\ p \notin Below(n, listedIn) /\ listedIn[n] # p
  /\ Moved(n, p)
  /\ lists' = lists \union {0}
  /\ UNCHANGED <<exists, text, listed, listedIn, selected, open, editing, creating,
                 asked, saved, picked, bulk>>

-----------------------------------------------------------------------------
(* The pane                                                                 *)

(* New Page, a subpage, or a template: an editor of its own.                *)
StartCreate ==
  /\ creating' = TRUE /\ editing' = 0
  /\ open' = 0 /\ selected' = 0
  /\ UNCHANGED <<server, listed, listedIn, asked, lists, saved, picked, bulk>>

Edit ==
  /\ open # 0 /\ editing = 0 /\ ~ creating
  /\ editing' = open
  /\ UNCHANGED <<server, listed, listedIn, selected, open, creating, asked, lists, saved, picked, bulk>>

Cancel ==
  /\ editing # 0 \/ creating
  /\ editing' = 0 /\ creating' = FALSE
  /\ UNCHANGED <<server, listed, listedIn, selected, open, asked, lists, saved, picked, bulk>>

(* save: what the editor holds goes to the note that is open.               *)
Save ==
  /\ saved = 0
  /\ \/ /\ editing # 0 /\ open \in exists
        /\ text' = [text EXCEPT ![open] = text[editing]]
        /\ saved' = open
        /\ UNCHANGED <<exists, parent>>
     \/ /\ creating /\ exists # Notes
        /\ \E n \in Notes \ exists : /\ exists' = exists \union {n}
                                     /\ \E p \in (exists \intersect listed) \union {0} :
                                           parent' = [parent EXCEPT ![n] = p]
                                     /\ text' = [text EXCEPT ![n] = n]
                                     /\ saved' = n
  /\ UNCHANGED <<listed, listedIn, selected, open, editing, creating, asked, lists, picked, bulk>>

(* delete_page: the children of n go to its parent.                         *)
Removed(n) ==
  /\ exists' = exists \ {n}
  /\ parent' = IF n \notin exists THEN parent
               ELSE [m \in Notes |-> IF m = n THEN 0
                                     ELSE IF parent[m] = n THEN parent[n] ELSE parent[m]]
  /\ text' = [text EXCEPT ![n] = n]

Delete ==
  /\ open \in exists /\ editing = 0 /\ ~ creating
  /\ Removed(open)
  /\ selected' = 0 /\ open' = 0
  /\ lists' = lists \union {0}
  /\ UNCHANGED <<listed, listedIn, editing, creating, asked, saved, picked, bulk>>

(* runBulkAction, all picked notes being the user's own: they are deleted   *)
(* one after the other, and answers and other members come between. (Bound: *)
(* the user waits for it; the dialog covers the page until it is cancelled.)*)
(* One that is no longer there is refused, and that ends it.                *)
DeletePicked ==
  /\ bulk = <<>> /\ picked \intersect listed # {}
  /\ bulk' = <<[left |-> picked \intersect listed, leaves |-> selected \in picked]>>
  /\ UNCHANGED <<server, listed, listedIn, selected, open, editing, creating,
                 asked, lists, saved, picked>>

BulkDeletes(n) ==
  /\ bulk # <<>> /\ n \in bulk[1].left
  /\ Removed(n)
  /\ bulk' = IF n \in exists THEN <<[bulk[1] EXCEPT !.left = @ \ {n}]>> ELSE <<>>
  /\ UNCHANGED <<listed, listedIn, selected, open, editing, creating, asked, lists, saved, picked>>

BulkEnds ==
  /\ bulk # <<>> /\ bulk[1].left = {} /\ bulk' = <<>>
  /\ IF bulk[1].leaves THEN selected' = 0 /\ open' = 0 ELSE UNCHANGED <<selected, open>>
  /\ picked' = {}
  /\ lists' = lists \union {0}
  /\ UNCHANGED <<server, listed, listedIn, editing, creating, asked, saved>>

(* patchPage and changePageVisibility: the list comes again with the note   *)
(* that was selected.                                                       *)
Patch ==
  /\ lists' = lists \union {selected}
  /\ UNCHANGED <<server, listed, listedIn, selected, open, editing, creating,
                 asked, saved, picked, bulk>>

(* The way back to the tree of a narrow window.                             *)
BackToList ==
  /\ creating' = FALSE /\ editing' = 0
  /\ selected' = 0 /\ open' = 0
  /\ UNCHANGED <<server, listed, listedIn, asked, lists, saved, picked, bulk>>

(* Another member moves a note.                                             *)
OtherMoves(n, p) ==
  /\ n \in exists /\ p \in exists \union {0}
  /\ Moved(n, p)
  /\ UNCHANGED <<exists, text, listed, listedIn, selected, open, editing, creating,
                 asked, lists, saved, picked, bulk>>

-----------------------------------------------------------------------------

Row(n) == Click(n) \/ Pick(n) \/ \E p \in Notes \union {0} : Drop(n, p)
Sidebar == Filter \/ StartCreate \/ DeletePicked \/ \E n \in Notes : Row(n)
Note == Edit \/ Delete \/ Patch \/ BackToList
Editor == Save \/ Cancel
Bulk == BulkEnds \/ \E n \in Notes : BulkDeletes(n)
Answers == SaveArrives \/ (\E n \in lists : ListArrives(n)) \/ (\E n \in asked : NoteArrives(n))

Room == Cardinality(asked) + Cardinality(lists) < MaxAsked

Next == (bulk = <<>> /\ ((Room /\ (Sidebar \/ Note)) \/ Editor)) \/ Answers \/ Bulk
        \/ \E n \in Notes, p \in Notes \union {0} : OtherMoves(n, p)

Spec == Init /\ [][Next]_wVars

-----------------------------------------------------------------------------
(* Why it holds                                                             *)

(* Whichever notes one takes, the parent of one of them is none of them; and*)
(* a parent is a note there is.                                             *)
NoLoops == \A S \in SUBSET Notes : S # {} => \E n \in S : parent[n] \notin S
ParentsExist == \A n \in Notes : parent[n] \in exists \union {0}

-----------------------------------------------------------------------------
(* Properties                                                               *)

(* Members that drag notes about on trees that are out of date never make a *)
(* note its own ancestor, so that every note can be reached from the top.   *)
NotesFormATree == \A n \in exists : parent[n] \notin Below(n, parent)

(* Saving an editor never puts one note's text into another note.           *)
EditsStayOnTheirNote == \A n \in Notes : text[n] = n
=============================================================================
