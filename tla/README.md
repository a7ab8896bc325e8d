# TheriMoire in TLA+

TLA+ models of the parts of this repository where the order of steps matters,
TLC configurations that check them on small instances, and proofs, checked by
TLAPS, that their safety properties hold for every value of the constants.
Paths below are relative to the repository; `src/` in `PROJECT.json` is its root.

* [The system](#the-system)
* [The modules and the code](#the-modules-and-the-code)
* [What TLC checks](#what-tlc-checks)
* [What is proved](#what-is-proved)
* [Where code and documentation disagree](#where-code-and-documentation-disagree)
* [Hazards no property covers](#hazards-no-property-covers)
* [What is not modelled](#what-is-not-modelled)
* [Plan](#plan)
* [Running it](#running-it)

## The system

A self-hosted library for tabletop role-playing books, maps, tokens, audio and
models: a FastAPI server (`backend/`) over one SQLite database and a directory of
files that users change behind its back, and a React client (`frontend/`). The
image starts two uvicorn processes (`WORKERS=2`); a process that dies is started
again. Valkey is optional: with it the processes share status and flags, without
it each has its own. Long work runs in threads of these processes.

| Component | State it keeps | Operations | Talks to |
| --- | --- | --- | --- |
| Library run (`routers/library/_helpers.py`) | scan status and stop flag, in Valkey or per process | rescan, single-book re-read, on-demand OCR, cancel, progress | indexer, schedulers, requests |
| Startup (`main.py`) | a file lock | reset of leftovers, startup scan | library run, OCR |
| Walk and registration (`indexer/books.py`, `_book_records.py`, `scan.py`) | `books` rows; `inserted_ids` of the scan | visit, insert, refresh, prune | database, files |
| Change detection (`indexer/hashing.py`) | `content_hash`, `file_mtime`, `file_size` | compare, hash, store | walk, re-read |
| Move detection (`indexer/reconcile.py`) | `filepath`, `is_missing` | pair, re-point, delete, flag | walk, content cache |
| Text indexing (`indexer/text_index.py`, `_subprocess.py`, `pdf_worker.py`) | `indexed`, `index_failed`, `index_error`, the `book_search` rows | guard, extract in a child process, index, re-read | OCR queue |
| Deferred OCR (`ocr.py`, `_subprocess.py`) | `ocr_pending`, `ocr_pages_done`, `ocr_pages_skipped` | drain, one page, checkpoint, re-queue | library run |
| Duplicate detection (`services/duplicates/`) | its own status with a heartbeat; groups by scan id | scan, cancel, take over a stale scan, judge a pair | database, review pages |
| Sessions (`sessions.py`, `routers/auth/`, `api.js`) | `auth_sessions` rows: current and previous token hash, revocation; token and cookie in the browser | create, rotate, revoke, purge, refresh and retry | every request |
| Background jobs (`services/audiobook_*_jobs.py`, `scheduler.py`, `backup_scheduler.py`, `session_creator.py`, `session_purger.py`) | job status, stop flags, one thread per process and scheduler | start, stop, run | library run |
| File operations (`services/library_fs/`) | files, rows, folder tags | move, rename, delete, upload | disk and database, in two steps |
| Backups (`services/backup/`) | archives | create, prune | disk, database |
| Variants, tags, bulk edits (`services/variants.py`, `tag_service/`) | two-level groups; the tag catalogue | link, promote, unlink; set, merge | database |
| Access control (`services/access_control.py`) | levels on rows, systems, categories | resolve | every read |
| Campaigns and wiki (`routers/campaigns/`) | members, sheets, schedule, links, notes in a tree | per-request writes with a check of the state they meet | the pages of all members |
| Client, for the whole session (`frontend/src/context/`, `api.js`, `hooks/useUploadQueue.js`) | play queue and position, soundboard, uploads, tokens, settings | everything a user does while walking through pages | the server, the audio elements |
| Client, page by page (`frontend/src/views/`, `components/`, `hooks/`) | what a page shows, its drafts, what it has asked for | load, edit, save, select, step | the server, in requests nobody cancels |
| Maps, themes, add-ons, look-ups, OPDS, downloads | mostly per-request rows | CRUD | |

What is hard here:

* **Crashes.** A PDF can take the process down; a supervisor restarts it and the
  startup scan begins again. Everything a run knows but has not committed is gone.
* **Half-done work.** Commits have a time limit, after which the caller rolls back
  and goes on; hashing, extraction and OCR can be cancelled in the middle.
* **Several processes, several threads.** A check of the status and the update
  that follows it are two steps; progress updates read a status and write it back.
* **A disk nobody controls.** Files are replaced, moved and deleted while a scan
  looks at them; a scan may see half of a move.
* **Answers.** The client never waits: a page sends what it is asked to, goes on, and
  takes answers when they come, late, out of order, of a page that has been left, or
  never. It shows copies of what the server keeps, while others change it.
* **Users.** They ask for re-reads and re-OCR while runs go on, and attach tags,
  bookmarks and progress to rows that a scan may be about to delete.

What makes each component correct:

* library run: at most one startup scan; a status that says *running* ends; a run
  stops only when it was cancelled;
* indexing and OCR: search agrees with the file on disk; a book that counts as
  indexed is searchable but for the pages reported as skipped; a file that kills
  the server is not read again; every book is read or given up in the end;
* walk and moves: rows agree with the disk after a scan; a file that moves keeps
  its row, and no user data is lost;
* sessions and the client: a page stays signed in although tokens work once; what a
  page shows was stored, what is stored can be found, what a user did by hand is not
  undone by an answer; queue, position, sounds and uploads keep their books;
* duplicates: the results shown are those of the last complete scan; file operations:
  disk and database agree after a failure; backups: the newest one survives pruning;
  variants: two levels. These are the subjects of the [plan](#plan).

`PROJECT.json` lists every component, and the hazards at the lines where they bite;
the [hazards without a property](#hazards-no-property-covers) are listed below too.

## The modules and the code

| Module | Models | Instances | Proofs |
| --- | --- | --- | --- |
| `BookIndexing` | change detection, text indexing, OCR queue, re-reads, restarts | `MCBookIndexing` | `BookIndexingProofs` |
| `ScanStatus` | status, stop flag, guards, startup lock, processes, Valkey | `MCScanStatus` | `ScanStatusProofs` |
| `MoveDetection` | walk, registration, move detection, missing flags | `MCMoveDetection` | `MoveDetectionProofs` |
| `Playlist`, `PlayQueue`, `Listening`, `Soundboard`, `UploadQueue`, `AuthSessions`, `SingleSignOn`, `Maintenance`, `Recents` | the parts of the client that outlive a page, with the server they talk to | `ClientSession`, `MCClientSession` | `PlayQueueProofs`, `ArraysProofs`, `ClientSessionProofs` |
| `Shelf`, `SystemBooks`, `Reader`, `Gallery`, `DetailView`, `AudiobookEditor`, `VttEditor`, `FileTree`, `Duplicates`, `Campaign`, `CampaignResources`, `Tags`, `WikiNotes` | its pages and large dialogs, likewise | `ClientPages`, `MCClientPages` | `ArraysProofs`, `ClientPagesProofs`, `ClientPagesTypes` |

The first three share a boundary rather than variables. `ScanStatus` says which runs
can go on together and treats what a run does as phases; `BookIndexing` takes one
run at a time and details the index and OCR phases; `MoveDetection` details the
walk and the reconciliation, and has one `Index` step for what `BookIndexing`
spreads over thirty.

Some definitions (`ClearedTooFar`, `LockIgnored`, `GoneJustNow`...) are marked
*Deviation*: no behaviour uses them. Each is a plausible bug in the definition
that follows it, and substituting it for that definition makes TLC report the
property it is listed with in `PROJECT.json`: evidence that the property notices.

### BookIndexing

| Variable | Code |
| --- | --- |
| `file` | the bytes at a book's path, as a version number; a file is replaced, never restored |
| `row` | the `Book` columns; `stat` stands for `file_mtime` and `file_size`, `hash` for `content_hash` |
| `fts` | `book_search`: how many rows a book has for a page, by the version they were read from |
| `run`, `todo` | the phase, and the loop over books it is in |
| `work` | locals of `_register_book`, `index_book_text`, `ocr_book`, `reindex_single_book` |
| `stop`, `triggers` | the stop flag; background tasks of re-OCR requests |
| `ocrOn` | `ocr_available()` in this process |
| `killed`, `used` | history of extractions that killed the process; bounds |

A step is what the code does between two points where another actor can get in:
between a read of the stop flag or the disk and the next commit. So a hash is two
steps (`ScanHash`, `ScanHashed`), an extraction two (`IndexGuard`, `Extract...`),
an OCR page one (`OcrPage`: the page and its checkpoint are one commit), and the
commit in each may be lost (`CommitOrHang`). With two OCR workers two books are at
a page at once. `Crash` may follow any step.

Abstractions: a page has text or is blank; the digest identifies the bytes, and so
does the stat signature. A book is a registered PDF; EPUB and DjVu take the same
path without OCR. `_index_text_document` (.txt, .md, .rtf: decoded in the process,
one commit, no OCR), page counts and thumbnails with their `scan_failed` flag are
left out. An unexpected exception is taken into account while text is extracted
and while a book is in the OCR loop. One run goes on at a time (see `ScanStatus`).

### ScanStatus

`shared`/`sharedStop` are the Valkey keys, `local`/`localStop` the module globals
of each process, `up` whether Valkey answers, `lock` the holders of `.scan.lock`,
and `job[j]` a background run: the step it is at, its kind (startup scan, rescan,
single book, re-OCR trigger) and the status a progress update has read but not
written back. `Guard` and `Publish` are two steps because the code has nothing
between them but time; `ProgressRead` and `ProgressWrite` likewise. `Publish`
clears the stop flag and sets the status in one step, and `Finish` reads the
phase and clears the status in one. Model previews are part of the index phase.

### MoveDetection

`disk` and `row` are functions on paths (`filepath` is UNIQUE). `Register` is
`_register_book` for new and existing files, with a digest that a stop may cut
short and a commit that may be lost; `DetectMoves` is pass 1 of
`_reconcile_missing`, `FlagMissing` pass 2, which looks at the disk again; the
disk may change between any two steps. A scan may be limited to a subtree. `data`
stands for everything users attach to a row. `clean` and `tidy` are history: they
say when nothing disturbed a scan, and when files have only moved.

Abstractions: contents that differ, differ in size; a file ignored by
`.grimoireignore` counts as gone; every book has text; one collection (all of them
run this code). `inserted` is emptied after `DetectMoves`, its only reader.

### The client

The client is React: a handler, the render it causes and the effects of that render
run to the end before another event is looked at, so they are **one step** of a
module, however many updaters, refs and effects it takes in the code. What another
step can get in front of is an await. So a request is three steps: it is **sent**
(with what the closure holds by then), the server **serves** it, and the answer
**arrives**, finding the page as it is by now; instead of any of the last two it may
be lost. Nothing in this client cancels a request, but for the ones a module names.
Server state is part of each module as far as its page can tell: other members, tabs
and pages change it in steps of their own. Requests under way are a set, so that two
that are equal are one.

The modules end with operators named for the components that render the handlers
(`Toolbar`, `FolderHeader`, `DeleteModal`...): each says what that component offers
and when. `Next` is their disjunction.

| Module | Code | State | What is left out |
| --- | --- | --- | --- |
| `Playlist` | | an abstract specification: what was played, what plays, what is next | |
| `PlayQueue` | `context/AudioPlayerContext.jsx` | `queue`, `index` (0 for -1), `asked` = `playRequested`, `hydrating`: look-ups of entries queued by id | volume, media session |
| `Listening` | the same, and the audiobook page | `el`: the audio element; `resume`, `answer`, `refs`: `resumeSeconds`, its look-up, and the refs keyed by track; `saved`: positions at the server. Each position carries the track it was measured on | positions are chapters; speed |
| `Soundboard` | `context/SoundboardContext.jsx` | `pads`, `registered` = `elements`, `reports`: events and `play()` promises on their way, `marked` = `playingIds` | volume |
| `UploadQueue` | `hooks/useUploadQueue.js` | `waiting`, `active`, `running`: the three refs; `item`: the rows | sizes and progress |
| `AuthSessions` | `api.js`, `context/AuthContext.jsx`, `backend/sessions.py` | `row`: current and previous hash; `jar`, `token`: what tabs share; `call`, `flight` = `refreshPromise` | guests, purging |
| `SingleSignOn` | `components/settings/OIDCSettingsSection.jsx` | `data`, `draft`, `saving`, `discovering`; `locked` = `_env_locked` | texts |
| `Maintenance` | `hooks/useScanStatus.js`, `components/settings/` | the scan at the server and as shown; forms and what is kept of them | wording of results |
| `Recents` | `hooks/useBookPrefs.js` | the list in `localStorage`, and in each tab | |
| `Arrays` | | none: `filter` and `sort` of a JavaScript array, as `UploadQueue`, `Recents` and `AudiobookEditor` use them | |
| `Shelf` | `views/LibraryView.jsx`, `hooks/useSystemLibrary.js` | `grouped`, `query`, selection, tags being applied | sorting, search |
| `SystemBooks` | `views/SystemDetailView.jsx`, `components/BulkEditModal.jsx`, `BookEditor` | `server` and `page`: the books; editors and drafts; `ever`: what was stored at some time | covers, categories |
| `Reader` | `views/ReaderView.jsx`, its panels | page, mode, `spreadOffset`, browser history, `pushNextRef`, bookmarks | gestures, text layer |
| `Gallery` | `hooks/useMediaGallery.js`, `useBulkSelection.js`, `useSortFilterState.js` | pages that have come, `collapsed`, `openedFolders`, selection | sorting, virtual rows |
| `DetailView` | `views/*DetailView.jsx`, `hooks/useSiblingNavigation.js` | `route`, `shown`, `siblings`, `loadedFolder`, requests | the viewers |
| `AudiobookEditor` | `components/audiobooks/EditAudiobookMetadataModal.jsx` | look-up, two polled jobs, `proposedChapters` | single fields |
| `VttEditor` | `views/VttEditorView.jsx`, `components/maps/vtt/` | document with undo and redo, tool, draft, selection, what is being saved | geometry |
| `FileTree` | `hooks/useLibraryPane.js`, `views/FileManagerView.jsx`, `components/files/`, `backend/services/library_fs/` | `listing`, `expanded`, `inFlight`, `cursor`, `neighbours`, dialogs; the disk | second pane, clipboard |
| `Duplicates` | `views/DuplicatesView.jsx`, `DuplicateCompareView.jsx`, `utils/duplicatePairs.js`, `backend/routers/duplicates/` | groups, dismissals and families at the server, the list, the compared pair | the signals of a scan |
| `Campaign` | `views/CampaignDetailView.jsx`, `backend/routers/campaigns/` | members, sheet, schedule, availability; the page's copies | chat, covers, templates |
| `CampaignResources` | `components/campaigns/ResourcesPanel.jsx`, `CategoryManager.jsx` | links and categories, fetched apart | order, icons, shares |
| `Tags` | `context/FavoritesContext.jsx`, `views/TagsView.jsx` | hearts and rows, toggles, the list of tags and its pane | counts |
| `WikiNotes` | `components/campaigns/WikiView.jsx`, `PageEditor`, `_wiki_helpers.py` | the tree at the server and as listed, the open note, the editor and what it was filled from | kinds, export, search |

Paths without `backend/` are under `frontend/src/`.

`ClientSession` and `ClientPages` compose them, and `MCClientSession` and
`MCClientPages` give their constants small values. The parts of the first run side by
side in a tab but share no variable, and no property relates two of them; a page is
mounted without state and forgets it when it is left. So a behaviour of the whole is,
seen by any property here, a behaviour of one part, and the instance takes them one at
a time: `focus` says which, the cells `c1`, `c2`... are its variables, and every part
is run through all its behaviours, without the product of their states. What crosses
from one part to another is in the module that needs it: `Listening` lets any track
come next, `UploadQueue` and `FileTree` both let the disk change at any time.

## What TLC checks

| Run | Instance | Result | States |
| --- | --- | --- | --- |
| `indexing_safety` | 2 books of 2 versions and 2 pages, 2 OCR workers; 1 crash, 1 cancel, 1 replacement, 1 re-read | `TypeOK`, `SearchFresh`, `SkipsAccounted`, `NoCrashLoop`, `RowsDroppedOnlyToReread` hold | 2.1 M |
| `indexing_settles` | the same books, 1 OCR worker; 1 crash, 1 cancel, 1 commit that hangs; fairness | `EventuallySettled` holds | 0.4 M |
| `status_outages` | 2 processes, 1 thread each, Valkey; 1 death, 1 outage | `TypeOK`, `OneStartupScan` hold | 2.4 M |
| `status_processes` | the same without outages; fairness | `StopsOnlyWhenAsked`, `StatusClears` hold | 0.1 M |
| `moves_scan` | 3 paths, 2 contents, full and scoped scans; 2 changes of the disk, 1 cancel, crash or lost commit | `TypeOK`, `ScanReflectsDisk`, `MovesRecognised`, `DataKept` hold | 3.3 M |
| `client_session` | 8 parts: 2 tracks and queues of 3; 1 book, 1 song; 2 sounds, 2 boards; 3 files, 2 at a time, each sent twice; 2 logins, 4 tokens, 2 requests; 2 scans... ; fairness | `TypeOK`, `SavesItself`, `SoundReachable`, `SoundShown`, `UploadsAccounted`, `LockedUntouched`, `KeepsItsPlace`, `NewTrackPlays`, `StaysSignedIn`, `UploadsSettle`, `FollowsTheScan` hold | 0.2 M |
| `client_pages` | 13 pages: 2 books and 2 requests; 3 pages of a gallery; books of 4 and 3 pages; 3 items in 2 folders; 3 copies, 2 verdicts or scans; 2 links, 2 categories; 2 notes... | `TypeOK` and one to two properties of each page hold | 2.5 M |
| `page_indexed_twice` | 1 book | `NoPageTwice` is violated | |
| `replacement_missed` | 1 book | `ReplacementNoticed` is violated | |
| `runs_overlap` | 1 process, 2 threads, no Valkey | `OneRunAtATime` is violated | |
| `moved_book_unsearchable` | 3 paths, 2 contents, 1 change | `IndexedIsSearchable` is violated | |
| `edit_on_another_note` | 2 notes, 2 requests under way | `EditsStayOnTheirNote` is violated | |

**Why the bounds are enough.** Two pages give a checkpoint that is neither at the
start nor at the end, and one blank page tells a blank from a page without rows.
Two books let one be in an OCR worker while the other is requested, replaced or
picked; one changes from a scan into a file with a text layer. Each rare event
happens once, in every order with the others; runs repeat without bound, so that a
crash or cancel is followed by as many rescans as make a difference. Two threads
are what a check-then-act race needs, two processes what a lock needs. Three paths
hold a file, the place it moves to and a copy; two changes are a move seen in two
halves, or a move and a copy. The symmetry of `moves_scan` exchanges contents, and
the two paths of the folder, which no definition tells apart; that of
`status_outages` exchanges the processes, whose threads go by their names there.

In the client, the instances are as small as their hazard: two answers that overtake
each other need two requests, a queue that is edited around its index three entries, a
spread an odd and an even last page, a group that is taken apart three copies. Two
verdicts are enough for the answer to one whose page has been left to meet the next
comparison. Counts
of requests are bounded when the user does something, never when an answer causes the
next. What would be worth more and is out of reach in one run (each multiplies the
states of its page by ten): two files in a folder (`FileTree`), two hearts under way
(`Tags`), two steps of history (`VttEditor`), two requests at the comparison
(`Duplicates`). The symmetry of `client_pages` exchanges the books of `SystemBooks`,
which it never tells apart. `Recents` is run for its type, and for the actions, only.

| Property | What would break it |
| --- | --- |
| `KeepsItsPlace` | an index that is off by one after an entry is inserted, removed or moved around the one that plays: `PlayQueue` implements `Playlist`, where the mistake cannot be written |
| `NewTrackPlays` | a track that takes over the slot of a removed one, loaded and silent |
| `SavesItself` | a position saved under the book that was left, or resumed from its look-up |
| `SoundReachable`, `SoundShown` | an element that starts after its pad has gone |
| `UploadsAccounted`, `UploadsSettle` | a place that is given back twice or never; a file that waits for a pump nobody calls |
| `StaysSignedIn` | two renewals with one cookie: the server takes the second for a theft |
| `LockedUntouched` | a look-up that names a setting the environment has locked |
| `FollowsTheScan` | polling that stops at a lost answer, or at one from before the scan |
| `PageNeverAhead` | edits shown as saved that the server has refused |
| `FoundOnce` | a system on its shelf and on the page, or on neither |
| `OpenedStaysOpen` | the effect that shuts the folders of every page that arrives |
| `StepsStayInFolder` | stepping with the neighbours of the item that is still shown |
| `TurnsSkipNothing` | a spread entered at its right page |
| `ChaptersTile` | ends computed before the rows are sorted |
| `CleanMeansKept` | an undo past the saved document that leaves it marked as saved |
| `CursorOnARow`, `FolderGoesByName` | a key that acts on what is not shown; a folder emptied of files that came after the dialog looked |
| `NoPairSkipped` | groups shown as comparisons with the best copy only |
| `ArchivedStaysAsItWas` | a write of a page that has not heard of it |
| `NothingHidden` | a link whose category has not arrived, or has gone |
| `RowsHaveHearts` | rows and hearts patched from different answers |
| `NotesFormATree` | two moves that are each fine |

**Fairness.** `BookIndexing`: `WF(Startup)`: the supervisor starts a dead process
again; `WF(Rescan)`: the schedule (`scheduler._run` loops for ever) rescans; without
a schedule it is the user who does; `WF(RunStep)`: a run that can take a step does,
because children, pages and commits have time limits. None is assumed of users,
crashes, cancels or requests. `ScanStatus`: the same for processes and the steps of
a run, `SF` for the end of a phase, which a run that keeps publishing progress
reaches in the end, and that keys expire (`ex=` in `_set_status`) and Valkey comes
back. `StatusClears` needs the time to live: a process may take the lock for its
startup scan, or be refused it, between the last status a dead one wrote and the
release of its lock, and then nothing but expiry clears what is left.
The client: an upload is answered or its connection breaks, and a timer fires
(`UploadFairness`): the browser gives up on a dead connection. A poll is sent every
interval (`WF(PollTick)`: `setInterval`); polls are answered again and again although
any may be lost (`SF`), and the request for a rescan once. None is assumed of users.

**Conditions in the properties.** `NoCrashLoop` and `SkipsAccounted` are checked
without hanging commits: the guard and the count of skipped pages are commits. The
OCR half of `SkipsAccounted` is about image-only files: a file with a text layer
can reach the OCR queue when a re-OCR request falls into the hashing of its
replacement, and is then marked as read although `ocr_page` returns nothing for it.
`MovesRecognised` is about `tidy` histories: the code does not follow a move once a
scan has been cut off after it inserted the destination, or when copies make it
ambiguous. `StatusClears` and `StopsOnlyWhenAsked` hold while Valkey answers.

## What is proved

For every value of the constants that satisfies `IndexingAssumption`,
`StatusAssumption` and `MovesAssumption` (the ranges of the constants, no more) and
what the table says a theorem assumes besides. Of the parts of the client the
theorems are about `ClientSession!Spec` and `ClientPages!Spec`, the specifications
the two runs check. `OnePart` and `OnePage` say that a behaviour is that of one part:
the parts share nothing, so what one of them keeps under its own `Next` the whole
keeps.

| Theorem | Says | Argument |
| --- | --- | --- |
| `BookIndexingProofs!TypeCorrect` | `Spec => []TypeOK` | inductive as it stands |
| `BookIndexingProofs!SearchStaysFresh` | `Spec => []SearchFresh` | `AllFresh` adds that a recorded digest is never newer than the file; without it, replacing the file could make a stale digest match. `CommitFresh` covers all steps that commit one book, whether the commit succeeds or hangs |
| `BookIndexingProofs!CrashLoopBroken` | `NoHangs => (Spec => []NoCrashLoop)` | `AllGuarded` ties the history variable to the guard: a killed book is settled, a book in extraction has the guard committed, and what a re-OCR request accepts is indexed, so that it cannot lower a guard. `NoHangs` is needed: the guard is a commit |
| `BookIndexingProofs!DropsOnlyToReread` | `Spec => RowsDroppedOnlyToReread`, an action property | by the type invariant alone: `Keeps` says that a row table has lost nothing, the inserts do (`KeepsWithPages`), and `CommitDrops` is about the commits that do not: each resets both flags of its book |
| `BookIndexingProofs!SkipsStayAccounted` | `NoHangs => (Spec => []SkipsAccounted)` | `AllTold`: the skips are counted up to the checkpoint while a book is still queued (`Accounted`), and the OCR loop is at the checkpoint with the count of the row, which nobody resets meanwhile (`AtPage`). `MissingShrinks`: more search rows, fewer pages missing. `NoHangs` is needed: the count is a commit |
| `ScanStatusProofs!TypeCorrect` | `Spec => []TypeOK` | inductive as it stands |
| `ScanStatusProofs!StartupScansApart` | `Spec => []OneStartupScan` | `LockInv`: who scans at startup runs in a process that holds the lock, and only a startup scan drops it |
| `ScanStatusProofs!StopsWhenAsked` | `ValkeyAnswers => (Spec => []StopsOnlyWhenAsked)` | `StopInv`: the flag a run at work would see was set after it had begun, so it was asked (`Asked`): each run clears the flag where it will look for it, and who sets it asks all that are at work. `ValkeyAnswers`: with outages a run clears one flag and reads the other |
| `MoveDetectionProofs!TypeCorrect` | `Spec => []TypeOK` | inductive as it stands |
| `MoveDetectionProofs!ScanFollowsDisk` | `Spec => []ScanReflectsDisk` | `Covered`: in a scan nothing has disturbed, a file on disk has a row, or the walk has still to come to it. `MovesKeepPresent`: pairing, which deletes and re-keys rows, leaves a row at every path that has a file |
| `MoveDetectionProofs!DataOutlivesScans` | `Spec => DataKept`, an action property | `MovePairs`: a move pairs one row with one, in both directions; `MovedRows` is the table afterwards; `MovesKeepCarrying` counts with the injection that takes each row to the path it moves to. `RowsStayFinite` makes counting sound |
| `MoveDetectionProofs!MovesAreRecognised` | `Spec => []MovesRecognised` | `Followed`: while the history is tidy the contents on disk are distinct, those of every row are still somewhere, and two rows with the same contents are an older one, whose file is gone, and the one this scan inserted for it. With `Covered`, pairing then finds one on each side (`MovesFollow`) |
| `PlayQueueProofs!QueueIndex` | `Spec => [](QueueTypeOK /\ IndexPoints)` of the queue alone, with `ListsFit`: the bound is positive and no list that is played is longer | inductive as it stands; `RenderedStep` covers all operations that render a new queue |
| `ClientSessionProofs!SessionTyped` | `Spec => []TypeOK`, with `SessionFits`: what the theorems below assume, that `Resets` are audiobooks, that a day and a week have hours and days, and that the bounds are numbers | part by part (`PartsKept`). `ListeningKept`: only a current track loads, and it then has a position, which playing on needs; `UpkeepKept`: the forms of the schedules hold an hour that can be converted (`OtherZone`); `BoardTidy`: no pad twice (`RemovedOnce`, `InsertedOnce`, `AddedOnce`), as `replacePads` takes none twice; the uploads need `UploadsKept`, as below |
| `ClientSessionProofs!NewTrackStarts` | `Spec => NewTrackPlays`, an action property, with `ListsFit` | an operation that changes the current track asks for it to play, or changes the index with the list so that the track stays (one lemma of `PlayQueueProofs` per operation, all by `RenderedStep`) |
| `ClientSessionProofs!QueueImplementsPlaylist` | `Spec => KeepsItsPlace`, the refinement of `Playlist`, with `ListsFit` | `Behind`, `Now` and `Ahead` cut the list of ids at the index. `PartsWithout`: taking out another entry takes it out of one part, with the index moved by the rule of `removeTrack`. A move is proved by looking at the list without the entry that moves: it is the same before and after (`RemoveInserted`), and the place in it is too |
| `ClientSessionProofs!UserStays` | `Spec => StaysSignedIn`, an action property, with `AuthFits` | `SignedIn` (`AuthSessions`): the session the page shows is live and the only one the user has not left, the next renewal goes by its current cookie, and nothing that would take it away is under way (`Renewable`). `AuthFits`: the bounds are numbers and the browser has one page. With more it is false as stated: one page may be at its login form while another shows the user |
| `ClientSessionProofs!BooksSaveThemselves` | `Spec => []SavesItself` | `ShowsItself` (`Listening`): the time that is shown is one of the current track; a save writes no other (`Saving`) |
| `ClientSessionProofs!HeardCanBeStopped`, `ShownIsHeard` | `Spec => []SoundReachable` and `[]SoundShown`, with `BoardsFit`: boards are lists of finitely many sounds | inductive together with `LastReport` (`Soundboard`): the last report of an element is what is heard. `InsertedPad`, `MovedPad`, `RemovedPad` and `AddedPads` say which pads a board has after each edit |
| `ClientSessionProofs!UploadsAgree` | `Spec => []UploadsAccounted`, with `UploadsFit`: finitely many files, and numbers for the limits | `RequestsUnderWay` and `WaitingHasTries` (`UploadQueue`): only a request of a file in `active` is under way, and what waits has tries left. `pump` sends the head of the queue and `cancel` filters it: `CutArray` and `FilterKeeps` say which files that leaves in it, each once |
| `ClientSessionProofs!LocksRespected` | `Spec => []LockedUntouched` | inductive as it stands: each way to write builds its request from unlocked fields |
| `ClientPagesProofs!SystemsFoundOnce` | `Spec => []FoundOnce`, with `Shaped`: folders are nested to some depth, special collections stand at the top, an agnostic one holds no systems and a one-page one no shelves | the shelves above a system are the least set closed under `ParentOf`; by the depth of folders one of them is at the top (`OneTop`), which is the card with shelves shown. Spilled, the card is the system itself, as all others are shelves (`HoldersAreShelves`), but for the child of a one-page collection. Without the last part of `Shaped` it is false: `Shelf!NeverBoth` |
| `ClientPagesProofs!FavouritesHaveHearts` | `Spec => []RowsHaveHearts` | `AnswersMatch` (`Tags`): an answer on its way has rows for its own hearts only |
| `ClientPagesProofs!HandsAreRespected` | `Spec => []OpenedStaysOpen` | `HandRemembered` (`Gallery`): what was opened by hand is in `openedFolders`, and the session then knows which folders are shut |
| `ClientPagesProofs!StepsLeaveNoneOut` | `Spec => StepsStayInFolder`, an action property, when `NItems` is a number | `WholeFolder` (`DetailView`): the buttons step through one whole folder, whichever it is, or nothing; `StepLands` says where a step ends |
| `ClientPagesProofs!CursorIsShown`, `NameIsAsked` | `Spec => []CursorOnARow` and `[]FolderGoesByName` | inductive together (`TreeStep`): each way to change the rows puts the cursor on one of those it leaves, and each way to delete compares the name, or the content, as it is then |
| `ClientPagesProofs!ChaptersFollow` | `Spec => []ChaptersTile`, when `Duration` is a number | `SentInOrder` (`AudiobookEditor`): the chapters are in order when they leave (`AppliedInOrder`, by `SortOrders`), so that the server, which sorts them again, keeps them as they are (`OrderIsKept`, by `SortedStays`). Rows stay rows through every edit (`RowStep`, `RowAdded`, `FoundRows`), however many there are |
| `ClientPagesProofs!NothingUnsavedIsHidden` | `Spec => []CleanMeansKept` | inductive as it stands; `Drawn` covers the steps that edit |
| `ClientPagesProofs!EveryLinkIsShown` | `Spec => []NothingHidden`, when `MaxCats` is a positive number | `Numbered` (`CampaignResources`): categories are numbered from 1, on the server, in the panel and in answers under way, so that none is taken for no category |
| `ClientPagesProofs!ArchivedIsFrozen` | `Spec => ArchivedStaysAsItWas`, an action property | `CampaignKept` (`Campaign`): a request under way names a status or a state there is; `WriteServed` goes through the routes: of an archived campaign they allow unarchiving it and leaving it, nothing else |
| `ClientPagesProofs!TurnsLeaveNoneOut` | `Spec => TurnsSkipNothing`, an action property, with `BooksHavePages`: no book is empty | `OnLeftPage` (`Reader`): a page one has gone to is one of the book, and the left one of its spread (`LandsLeft`). `OnScreen` says which pages that shows; a turn is then arithmetic on the two numbers (`TurnShowsTheNext`) |
| `ClientPagesProofs!ShownWasStored` | `Spec => []PageNeverAhead`, when the tags are among the fields | `ShownKept` (`SystemBooks`): what the server, the page and the answers under way hold was stored (`WasStored`), and what a request will show was stored but for what the server refused (`AskKept`) |
| `ClientPagesProofs!NotesAreATree` | `Spec => []NotesFormATree` | `NoLoops`: of any notes one takes, the parent of one is outside; `ParentsExist`, so that a deletion leaves no dangling parent that a new note could close a loop with. What is below a note is the least set closed under children, and a set that refutes a loop before a move refutes it after (`MoveClosesNoLoop`, `RemovalClosesNoLoop`) |
| `ClientPagesProofs!EveryPairIsListed` | `Spec => []NoPairSkipped`, when `NCopies` is a number | `PairsKept` (`Duplicates`): every unanswered pair is an edge of a group that has both of its copies as members. `PairsGrouped`: a scan puts the pairs it finds there (a component is the least closed set, so both ends are in one); `OthersStayGrouped`: a verdict takes one edge from a group and leaves the others, `KeptPairsAreShown`: the list keeps members that are still there |
| `ClientPagesTypes!PagesStayTyped` | `Spec => []TypeOK`, with `PagesFit`: what the theorems above assume, that tags of systems are tags of the library, that no filter at all is a filter, that there is a tool for walls, that names of files are numbered from 1 and that the bounds are numbers | page by page (`PagesTyped`), each with what else its types take. `MapHistory`: the two stacks share the steps, so that redoing stays within the limit that only `commit` enforces. `RowsTyped`: keys of rows added by hand only go down and those of detected chapters are not negative, so they never meet; `DetectTyped`: one detection at a time. `CopyAsked`: an answer the comparison looks at was loaded, with a copy to keep; for that, a page that is left has to drop the answers it waits for, as its effects do (`cancelled`, `DuplicateCompareView.jsx:85`) |

`MCClientPages` has TLC check that its library is `Shaped`. Each inductive invariant
held in a run of TLC over the parts it is about before it
was proved. Some are stated beside the properties, in the modules of the parts under
"Why it holds"; the others are in the module of the proofs.

`ArraysProofs` holds what the two composed proofs need of arrays, for arrays of any
length. `Filtered` and `Sorted` (`Arrays`) are `filter` and `sort` of an array.
Induction is stated over a set of numbers rather than a predicate
(`NumberInduction`), and with it a function that is defined by recursion exists
(`RecursiveFunction`): `FilterKeeps` is about such a one. `Sorted` takes no recursion:
each entry goes to the place that the number of entries before it gives
(`PlacesDiffer`), which `SortOrders` shows to be an order of the same entries.

Only model-checked: `EventuallySettled`, `StatusClears`, `UploadsSettle` and
`FollowsTheScan`, as liveness under fairness is out of the prover's reach.

## Where code and documentation disagree

Five runs end in a counterexample, each against a sentence of the repository.

* **A page is indexed twice** (`page_indexed_twice`). `docs/architecture.md:289` says
  a cancelled OCR resumes at `ocr_pages_done`. A queued book is not indexed and not
  failed, so phase 2 of the next scan picks it up first and `text_index.py:113` puts
  the checkpoint back to 0, while the rows of the pages already read stay.
* **A replaced file is never noticed** (`replacement_missed`). `_book_records.py:188`
  says the check is there so that replaced books are not skipped for ever. If the
  scan is cancelled during the hash, `apply_signature` stores the new stat signature
  without a new digest, and the gate is closed from then on.
* **Two runs at a time** (`runs_overlap`). The docstring of `run_rescan_sync` says it
  guards against concurrent calls; the guard is a check followed by an update.
* **A moved book leaves search** (`moved_book_unsearchable`). `content_cache.py:113`
  says callers of `invalidate_book_content` reset `indexed`; `_detect_moves` does not.
* **An edit lands on another note** (`edit_on_another_note`). `WikiView.jsx:95` says the
  editor has to remount when its note changes; the one at line 1155 does not, and a
  late answer changes its note: saving writes the text of one note into the other.

Eight more are stated in the modules, each with the sentence it takes from the
repository and a comment that it does not hold. No run of the project checks them;
adding one to `client_session` or `client_pages` (as `focus = "..." => Part!Property`)
shows its counterexample (for `NeverBoth`, in a library with a shelf in a one-page
collection and a system on that shelf).

| Property | What happens instead | Steps |
| --- | --- | --- |
| `Campaign!CellSetsItsRow` | the page drops the member whose cell the game master clicks (`CampaignDetailView.jsx:180`); the server takes the game master's own | 9 |
| `Shelf!NeverBoth` | the page looks at the parent alone (`LibraryView.jsx:105`), and the scanner takes a shelf inside a one-page collection for a container (`books.py:267`): spilled, a system on it is a card of the grid, and the collection keeps its chip. The proof of `FoundOnce` found it: its assumption on libraries excludes such shelves | 2 |
| `Gallery!LaterFoldersStartShut` | the last page and the end of loading are one update, and the effect that shuts folders runs only while loading | 4 |
| `Duplicates!DismissedGoesAway` | a group that loses an edge but keeps its members is shown as pairs with its best member, the dismissed one among them | 21 |
| `Reader!BackReturns` | the address goes back, and nothing reads the page in it again | 5 |
| `SingleSignOn!FillsOnlyEmpty` | a look-up goes by the drafts of the click, and overwrites what was saved while it ran, or what an earlier look-up saved whose answer was lost | 12 |
| `Maintenance!DayShown` | the hour of a weekly run is converted to UTC, its day is not | 6 |
| `Maintenance!ExportsSavedFormats` | the export goes by what is ticked, saved or not | 4 |

## Hazards no property covers

* `backend/routers/books/core.py:325`: a re-OCR request while the walk holds a row
  loaded is half overwritten; `SkipsAccounted` claims its OCR half of image-only files.
* `backend/routers/library/_helpers.py:376`: a stop flag left by a cancelled run makes a
  re-OCR request a no-op; `StopsOnlyWhenAsked` excludes triggered runs.
* `backend/routers/library/_helpers.py:119`: Valkey fails at the last `_set_status` of a
  run; `StatusClears` is claimed while it answers.
* `backend/indexer/_subprocess.py:83` and `:393`, `text_index.py:155`: a commit that
  times out may go on in its thread; a page whose commit hangs is not counted as
  skipped; a book whose last commit hangs stays `index_failed`.
* `backend/indexer/reconcile.py:195` and `:175`: a scan cut off after it inserted the row
  of a moved file leaves the move unfinished for good; what a user attaches to that
  row before the move is detected goes with it.
* `backend/services/audiobook_convert_jobs.py:152`, `scheduler.py:110`: a conversion whose
  rescan is refused deletes its sources all the same; a stopped scheduler may go on
  next to its successor.
* `backend/services/duplicates/job.py:343`, `:419`, `:424`: a slow scan is taken over; a scan
  of one collection replaces the groups of all; a failed one leaves two scans mixed.
* `backend/sessions.py:176`: revoking drops the previous hash, and with it the trace of a
  replay. `backend/services/backup/_archive.py:105` and `:165`: two backups of one second
  have one name; pruning right after a backup. `backend/services/variants.py:214`: two
  links at once make a third level.
* In the client: a retry after a lost answer uploads a file twice; a logout that races a renewal (`AuthSessions` excuses that session); the
  pane of tags shows the answer that comes last, whichever tag is selected; a drag onto
  another link files one of the two when the second request fails.

## What is not modelled

Rendering, parsing and look-ups (pure input and output); the protocol of single
sign-on; migrations; and of the client: search, set-up, users, themes, profile,
add-ons and the list of campaigns (forms over one request each), layout, wording,
gestures, drag previews, and everything that is drawn. The modules of the client
state what is left out in their headers, and the table above. Timed-out commits are taken as lost, although
`_run_with_timeout` leaves a thread behind that may still commit: what a SQLAlchemy
session does in two threads at once is not defined by this code. The components
named in the plan are not modelled yet.

## Plan

The core came first: the path from a file on disk to a search result, which
everything else feeds; then the client, where most of the code is. Next, in this order:

1. `DuplicateScan`: status with a heartbeat, takeover of a stale scan, groups by scan
   id, cancel, failure half-way. Abstract specification: the groups shown are those
   of one complete scan; run with two scans, one stale, two collections. `Duplicates`
   then takes its `found` from it.
2. `LibraryMoves`: bulk moves that change the disk item by item and commit once, with
   the compensation of `_move_one`; property: after any failure rows name files that
   are there. Composed with `MoveDetection`'s walk, which may run meanwhile.
3. `AuthSessions` with two tabs and with a copied cookie, purging, and the list of
   sessions, as a run of its own.
4. `BackgroundJobs`: conversion next to a running scan, chapter detection and its stop
   flag, the scheduler's restart.
5. `Variants` and access levels: two-level groups under concurrent links; the cascade
   of levels as an operator against a reference definition.
6. `IndexQueue`, an abstract specification of what indexing promises (a book waits, is
   read or is given up; what is searchable is what was read), with `BookIndexing`
   shown to implement it, by TLC on the instances above and by TLAPS for its steps.
7. Proofs: every safety invariant and action property that a run expects to hold is a
   theorem. What a next module states is proved with it.

Runs keep to instances of a few million states. Modules to be proved about use no
RECURSIVE operators.

## Running it

    tlc -workers 2 -config BookIndexing_safety.cfg MCBookIndexing
    tlc -workers 2 -config Client_pages.cfg MCClientPages
    tlapm ArraysProofs.tla
    tlapm BookIndexingProofs.tla
    tlapm ClientPagesProofs.tla
    tlapm ClientPagesTypes.tla
