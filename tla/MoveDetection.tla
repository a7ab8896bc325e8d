---------------------------- MODULE MoveDetection ----------------------------
(***************************************************************************)
(* How a scan keeps the rows of a collection in step with the files on      *)
(* disk: the walk that registers new files and re-reads changed ones, the   *)
(* detection of moved files by content digest, the missing flags, and the   *)
(* indexing that follows, while files come, go and move at any time, users  *)
(* attach data to rows, and a scan may be cancelled, die or lose a commit.  *)
(*                                                                          *)
(* File names are values of Paths; filepath is UNIQUE in the database, so   *)
(* the rows are a function on the paths they name.                          *)
(***************************************************************************)
EXTENDS Naturals, FiniteSets

CONSTANTS
  Paths,       \* where a file can be in the collection
  Bytes,       \* the contents a file can have, each a book with text in it;
               \* a digest is its contents
  None,        \* no file, no digest, no user data
  Scopes,      \* the subtrees a scan can be limited to
  MaxChanges,  \* how often files are written, deleted or moved
  MaxFaults    \* how many cancels, crashes and lost commits there are

ASSUME MovesAssumption ==
  /\ None \notin Bytes
  /\ Scopes \subseteq SUBSET Paths
  /\ Paths \in Scopes
  /\ MaxChanges \in Nat
  /\ MaxFaults \in Nat

VARIABLES
  disk,      \* the bytes at each path, or None
  row,       \* the committed rows, by the path they name
  phase,     \* where the scan in progress is
  scope,     \* the subtree it is limited to
  todo,      \* the paths its walk has not come to
  visiting,  \* the file it is registering, if any
  inserted,  \* ctx.inserted_ids: the rows this scan has inserted
  stop,      \* the stop flag
  changes,   \* how often files have changed
  faults,    \* how many faults have happened
  clean,     \* history: the latest scan is full, undisturbed and faultless
  tidy       \* history: files with distinct contents have only moved to
             \* unused paths, and no scan was cut off after inserting a row

vars == <<disk, row, phase, scope, todo, visiting, inserted, stop,
          changes, faults, clean, tidy>>
scan == <<phase, scope, todo, visiting, inserted, stop>>
bounds == <<changes, faults>>
history == <<clean, tidy>>

Phases == {"idle", "walk", "moves", "flags", "index"}

(* stat: the bytes whose size and mtime are stored; hash: content_hash;     *)
(* state: not indexed yet, indexed, or given up (index_failed); rows of the *)
(* book in book_search; data: the book whose user data hangs off the row.   *)
Rows == [stat : Bytes, hash : Bytes \union {None}, missing : BOOLEAN,
         state : {"unread", "read", "failed"}, searchable : BOOLEAN,
         data : Bytes \union {None}]

Known == DOMAIN row

TypeOK ==
  /\ disk \in [Paths -> Bytes \union {None}]
  /\ Known \subseteq Paths /\ \A p \in Known : row[p] \in Rows
  /\ phase \in Phases
  /\ scope \in Scopes
  /\ todo \subseteq Paths
  /\ visiting \subseteq Paths /\ Cardinality(visiting) <= 1
  /\ inserted \subseteq Known
  /\ stop \in BOOLEAN
  /\ changes \in 0..MaxChanges /\ faults \in 0..MaxFaults
  /\ clean \in BOOLEAN /\ tidy \in BOOLEAN

-----------------------------------------------------------------------------
(* What the rows say about a file                                           *)

Changed(p) == changes < MaxChanges /\ changes' = changes + 1
Fault == faults < MaxFaults /\ faults' = faults + 1

(* A scan that ends before its moves are detected forgets what it inserted. *)
CutOff == clean' = FALSE /\ tidy' = (tidy /\ inserted = {})

Inserted(bytes, digest) ==
  [stat |-> bytes, hash |-> digest, missing |-> FALSE,
   state |-> "unread", searchable |-> FALSE, data |-> None]

(* _refresh_signature and, if the digest differs, _handle_replaced_book. A  *)
(* digest of None leaves the stored one alone; a first one is no change.    *)
Refreshed(r, bytes, digest) ==
  LET replaced == digest # None /\ r.hash # None /\ digest # r.hash
      signed == [r EXCEPT !.stat = bytes, !.hash = IF digest = None THEN @ ELSE digest]
  IN  IF replaced THEN [signed EXCEPT !.state = "unread", !.searchable = FALSE] ELSE signed

InScope == Known \intersect scope

(* Deviation: a row already flagged as missing is no longer looked for.     *)
GoneJustNow == {p \in InScope : disk[p] = None /\ ~row[p].missing}

Gone == {p \in InScope : disk[p] = None}

(* Deviation: any row whose file is there can be where a file moved to.     *)
AnyPresent == {p \in InScope : disk[p] # None}

Candidates == {p \in InScope : disk[p] # None /\ p \in inserted}

(* content_hash and file_size: contents differ in size here.                *)
Key(p) == <<row[p].hash, row[p].stat>>

(* Pairs of a gone row and an inserted one, each the only one with its key. *)
Moves ==
  {m \in Gone \X Candidates :
     /\ row[m[1]].hash # None
     /\ {p \in Gone : Key(p) = Key(m[1])} = {m[1]}
     /\ {q \in Candidates : Key(q) = Key(m[1])} = {m[2]}}

(* The old row at its new path. Its search rows have been deleted.          *)
Repointed(r) == [r EXCEPT !.missing = FALSE, !.searchable = FALSE]

AfterMoves ==
  [p \in Known \ {m[1] : m \in Moves} |->
     IF \E m \in Moves : m[2] = p
     THEN Repointed(row[(CHOOSE m \in Moves : m[2] = p)[1]])
     ELSE row[p]]

(* Deviation: a missing flag is set but never cleared.                      *)
FlaggedOnly(p) == [row[p] EXCEPT !.missing = @ \/ (p \in scope /\ disk[p] = None)]

Flagged(p) == [row[p] EXCEPT !.missing = IF p \in scope THEN disk[p] = None ELSE @]

-----------------------------------------------------------------------------
(* The scan                                                                 *)

StartScan(subtree) ==
  /\ phase = "idle"
  /\ phase' = "walk" /\ scope' = subtree /\ todo' = subtree
  /\ visiting' = {} /\ inserted' = {} /\ stop' = FALSE
  /\ clean' = (subtree = Paths)
  /\ UNCHANGED <<disk, row, bounds, tidy>>

(* The walk comes to a path: it checks for a stop before it visits a file.  *)
Visit(p) ==
  /\ phase = "walk" /\ visiting = {} /\ p \in todo /\ ~stop
  /\ todo' = todo \ {p}
  /\ visiting' = IF disk[p] = None THEN {} ELSE {p}
  /\ UNCHANGED <<disk, row, phase, scope, inserted, stop, bounds, history>>

(* signature_matches; a row without a digest never matches.                 *)
SignatureMatches(p) == p \in Known /\ row[p].stat = disk[p] /\ row[p].hash # None

(* The file is gone again, or its signature is the stored one.              *)
RegisterNothing(p) ==
  /\ visiting = {p}
  /\ disk[p] = None \/ SignatureMatches(p)
  /\ visiting' = {}
  /\ UNCHANGED <<disk, row, phase, scope, todo, inserted, stop, bounds, history>>

(* Deviation: the row counts as inserted whether or not its commit went     *)
(* through.                                                                 *)
InsertedEagerly(p, committed) == inserted \union {p}

InsertedAfter(p, committed) ==
  IF committed /\ p \notin Known THEN inserted \union {p} ELSE inserted

(* _register_book for a new file or a changed signature: hash_file returns  *)
(* None when a stop was requested meanwhile; the commit may time out.       *)
Register(p) ==
  /\ visiting = {p} /\ disk[p] # None /\ ~SignatureMatches(p)
  /\ \E digest \in {disk[p]} \union (IF stop THEN {None} ELSE {}) :
     \/ /\ row' = [q \in Known \union {p} |->
                     IF q # p THEN row[q]
                     ELSE IF p \in Known THEN Refreshed(row[p], disk[p], digest)
                     ELSE Inserted(disk[p], digest)]
        /\ inserted' = InsertedAfter(p, TRUE)
        /\ UNCHANGED <<faults, clean>>
     \/ /\ Fault
        /\ inserted' = InsertedAfter(p, FALSE)
        /\ clean' = FALSE
        /\ UNCHANGED row
  /\ visiting' = {}
  /\ UNCHANGED <<disk, phase, scope, todo, stop, changes, tidy>>

EndWalk ==
  /\ phase = "walk" /\ visiting = {} /\ (todo = {} \/ stop)
  /\ IF stop
     THEN phase' = "idle" /\ todo' = {} /\ CutOff
     ELSE phase' = "moves" /\ UNCHANGED <<todo, history>>
  /\ UNCHANGED <<disk, row, scope, visiting, inserted, stop, bounds>>

(* _detect_moves: all of them are one commit, lost if it times out.         *)
DetectMoves ==
  /\ phase = "moves"
  /\ \/ /\ row' = AfterMoves
        /\ tidy' = (tidy /\ (scope = Paths \/ inserted = {}))
        /\ UNCHANGED <<faults, clean>>
     \/ Fault /\ CutOff /\ UNCHANGED row
  /\ inserted' = {}    \* nothing reads it any more
  /\ phase' = "flags"
  /\ UNCHANGED <<disk, scope, todo, visiting, stop, changes>>

(* The second pass of _reconcile_missing looks at the disk again.           *)
FlagMissing ==
  /\ phase = "flags"
  /\ \/ row' = [p \in Known |-> Flagged(p)] /\ UNCHANGED <<faults, clean>>
     \/ Fault /\ clean' = FALSE /\ UNCHANGED row
  /\ phase' = IF stop THEN "idle" ELSE "index"
  /\ UNCHANGED <<disk, scope, todo, visiting, inserted, stop, changes, tidy>>

Unread == {p \in Known : row[p].state = "unread"}

(* index_book_text, of the whole library: module BookIndexing has its       *)
(* detail. Extraction of a file that is not there fails.                    *)
Index(p) ==
  /\ phase = "index" /\ ~stop /\ p \in Unread
  /\ row' = [row EXCEPT ![p].state = IF disk[p] = None THEN "failed" ELSE "read",
                        ![p].searchable = disk[p] # None]
  /\ UNCHANGED <<disk, scan, bounds, history>>

EndScan ==
  /\ phase = "index" /\ (Unread = {} \/ stop)
  /\ phase' = "idle"
  /\ UNCHANGED <<disk, row, scope, todo, visiting, inserted, stop, bounds, history>>

-----------------------------------------------------------------------------
(* Everyone else                                                            *)

Cancel ==
  /\ phase # "idle" /\ ~stop
  /\ Fault
  /\ stop' = TRUE
  /\ UNCHANGED <<disk, row, phase, scope, todo, visiting, inserted, changes, history>>

(* The process dies; the one that replaces it begins with a scan.           *)
Crash ==
  /\ phase # "idle"
  /\ Fault
  /\ phase' = "idle" /\ todo' = {} /\ visiting' = {} /\ inserted' = {}
  /\ CutOff
  /\ UNCHANGED <<disk, row, scope, stop, changes>>

(* A user tags, bookmarks or reads the book a row shows.                    *)
Attach(p) ==
  /\ p \in Known /\ row[p].data = None
  /\ row' = [row EXCEPT ![p].data = row[p].stat]
  /\ UNCHANGED <<disk, scan, bounds, history>>

(* Files are changed behind the program's back.                             *)
New(bytes) ==
  /\ \A q \in Paths : disk[q] # bytes
  /\ \A q \in Known : bytes \notin {row[q].hash, row[q].stat}

WriteFile(p, bytes) ==
  /\ disk[p] # bytes
  /\ Changed(p)
  /\ disk' = [disk EXCEPT ![p] = bytes]
  /\ clean' = FALSE
  /\ tidy' = (tidy /\ disk[p] = None /\ p \notin Known /\ New(bytes))
  /\ UNCHANGED <<row, scan, faults>>

MoveFile(p, q) ==
  /\ disk[p] # None /\ disk[q] = None
  /\ Changed(p)
  /\ disk' = [disk EXCEPT ![q] = disk[p], ![p] = None]
  /\ clean' = FALSE
  /\ tidy' = (tidy /\ q \notin Known /\ p \notin inserted)
  /\ UNCHANGED <<row, scan, faults>>

-----------------------------------------------------------------------------

Init ==
  /\ disk \in [Paths -> Bytes \union {None}]
  /\ row = [p \in {} |-> Inserted(disk[p], None)]
  /\ phase = "idle" /\ scope = Paths /\ todo = {} /\ visiting = {}
  /\ inserted = {} /\ stop = FALSE
  /\ changes = 0 /\ faults = 0
  /\ clean = FALSE
  /\ tidy = \A p, q \in Paths : disk[p] = disk[q] /\ disk[p] # None => p = q

Next ==
  \/ \E subtree \in Scopes : StartScan(subtree)
  \/ EndWalk \/ DetectMoves \/ FlagMissing \/ EndScan \/ Cancel \/ Crash
  \/ \E p \in Paths :
       \/ Visit(p) \/ RegisterNothing(p) \/ Register(p) \/ Index(p) \/ Attach(p)
       \/ \E bytes \in Bytes \union {None} : WriteFile(p, bytes)
       \/ \E q \in Paths : MoveFile(p, q)

Spec == Init /\ [][Next]_vars

-----------------------------------------------------------------------------
(* Properties                                                               *)

(* What a full scan leaves behind: the scan has reconciled, and nothing     *)
(* disturbed it.                                                            *)
Reconciled == clean /\ phase \in {"index", "idle"}

(* After a scan nothing disturbed, whatever happened to earlier ones, every *)
(* file has a row that is not missing and every other row is missing: the   *)
(* moves, which delete and re-key rows, neither lose one nor leave one      *)
(* behind.                                                                  *)
ScanReflectsDisk ==
  Reconciled => \A p \in Paths : disk[p] # None <=> (p \in Known /\ ~row[p].missing)

(* While files only move, by any route and during any scan, no row is left  *)
(* missing once a scan runs undisturbed: each has followed its file, also   *)
(* one that an earlier scan saw half a move of and flagged as missing.      *)
MovesRecognised ==
  Reconciled /\ tidy => \A p \in Known : ~row[p].missing

(* User data on a row the scan did not insert itself outlives the scan,     *)
(* whichever rows are deleted as the other half of a move: the number of    *)
(* rows that carry one book's data never drops.                             *)
Carrying(bytes) == {p \in Known \ inserted : row[p].data = bytes}
DataKept ==
  [][\A bytes \in Bytes :
       Cardinality(Carrying(bytes)') >= Cardinality(Carrying(bytes))]_vars

(* A book that counts as indexed is in search.  The comment on              *)
(* invalidate_book_content says the scan re-indexes because the caller      *)
(* resets the flag; _detect_moves, a caller, does not.                      *)
IndexedIsSearchable == \A p \in Known : row[p].state = "read" => row[p].searchable
=============================================================================
