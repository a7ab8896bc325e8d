----------------------------- MODULE Maintenance -----------------------------
(***************************************************************************)
(* The maintenance tab of the settings: the rescan with its status, polled  *)
(* by useScanStatus; the schedules of rescans and backups, whose times are  *)
(* shown in the browser's zone and kept in UTC; the export of sidecar files; *)
(* and the list of backups. The sections share no state, so a behaviour is  *)
(* that of one of them.                                                     *)
(***************************************************************************)
EXTENDS Integers, FiniteSets

CONSTANTS
  Hours, Days, Offset, \* the hours of a day, the days of a week, the browser's zone ahead of UTC
  Formats,             \* formats of sidecar files
  MaxScans,            \* bound: scans the server runs
  MaxBackups           \* bound: backups it makes

VARIABLES
  section,
  scanning, queued, scans,            \* server: a scan runs, one is about to, how many there were
  running, stopping, finished, modal, \* useScanStatus: status.running, stopping, lastResult; RescanModal
  polls, starting,                    \* polls under way, and their answers; the request for a rescan
  shown, kept,                        \* a form of the section, and what the server keeps of it
  form, carried,                      \* where the form is, and what a save of it carries
  exporting,                          \* SidecarExport: not exported, under way, or done
  backups, listed, lists, made        \* backups: the server's, the shown, lists under way, made so far

scanVars == <<scanning, queued, scans, running, stopping, finished, modal, polls, starting>>
formVars == <<shown, kept, form, carried, exporting>>
listVars == <<backups, listed, lists, made>>
mVars == <<section, scanVars, formVars, listVars>>

Slots == [schedule : {"off", "daily", "weekly"}, hour : 0..Hours-1, weekday : 0..Days-1, formats : {{}}]
Exports == [schedule : {"off"}, hour : {0}, weekday : {0}, formats : SUBSET Formats]
Sections == {"rescan", "schedule", "sidecars", "backups"}
Values == IF section = "schedule" THEN Slots ELSE Exports

MaintenanceTypeOK ==
  /\ section \in Sections /\ scanning \in BOOLEAN /\ queued \in BOOLEAN /\ scans \in 0..MaxScans
  /\ running \in BOOLEAN /\ stopping \in BOOLEAN /\ finished \in BOOLEAN /\ modal \in BOOLEAN
  /\ polls \subseteq {"asked", "running", "idle"} /\ starting \in {"none", "asked", "answered", "failed"}
  /\ shown \in Slots \union Exports /\ kept \in Slots \union Exports /\ carried \in Slots \union Exports
  /\ form \in {"loading", "loaded", "edited", "saving", "served", "saved"}
  /\ exporting \in {"no", "asked", "done"}
  /\ backups \subseteq 1..MaxBackups /\ listed \subseteq 1..MaxBackups
  /\ lists \subseteq SUBSET (1..MaxBackups) /\ made \in 0..MaxBackups

Nothing == [schedule |-> "off", hour |-> 0, weekday |-> 0, formats |-> {}]
Init ==
  /\ section \in Sections
  /\ scanning \in BOOLEAN /\ queued = FALSE /\ scans = 0
  /\ running = FALSE /\ stopping = FALSE /\ finished = FALSE /\ modal = FALSE
  /\ polls = {"asked"} /\ starting = "none"
  /\ shown = Nothing /\ kept = Nothing /\ carried = Nothing /\ form = "loading" /\ exporting = "no"
  /\ backups = {} /\ listed = {} /\ lists = {{}} /\ made = 0

-----------------------------------------------------------------------------
(* The scan on the server                                                   *)

UNCH_page == UNCHANGED <<running, stopping, finished, modal, polls, starting>>
(* A rescan that was asked for, or one the schedule starts.                 *)
ScanBegins == /\ ~scanning /\ scans < MaxScans /\ scanning' = TRUE /\ scans' = scans + 1 /\ queued' = FALSE
              /\ UNCH_page
ScanEnds == scanning /\ scanning' = FALSE /\ UNCHANGED <<queued, scans>> /\ UNCH_page

(* /rescan: answered at once; unless a scan runs, one is about to start.    *)
RescanServed ==
  /\ starting = "asked" /\ starting' = "answered" /\ queued' = (queued \/ (~scanning /\ scans < MaxScans))
  /\ UNCHANGED <<scanning, scans, running, stopping, finished, modal, polls>>
RescanLost ==
  /\ starting = "asked" /\ starting' = "failed"
  /\ UNCHANGED <<scanning, queued, scans, running, stopping, finished, modal, polls>>

-----------------------------------------------------------------------------
(* useScanStatus                                                            *)

UNCH_scan == UNCHANGED <<scanning, queued, scans>>
(* The effect keyed on status.running: when it changes, what was asked      *)
(* before is cancelled and a poll is sent.                                  *)
Runs(r) == running' = r /\ polls' = IF r = running THEN polls ELSE {"asked"}

(* Deviation: only a page that shows a scan goes on polling.                *)
TicksWhileRunning == running /\ "asked" \notin polls /\ polls' = polls \union {"asked"}
(* The interval, of one second or of thirty.                                *)
Ticks == "asked" \notin polls /\ polls' = polls \union {"asked"}

PollTick == Ticks /\ UNCHANGED <<running, stopping, finished, modal, starting>> /\ UNCH_scan
PollServed ==
  /\ "asked" \in polls /\ polls' = (polls \ {"asked"}) \union {IF scanning THEN "running" ELSE "idle"}
  /\ UNCHANGED <<running, stopping, finished, modal, starting>> /\ UNCH_scan
(* The status; at its end, what the scan has found is shown.                *)
PollArrives(a) ==
  /\ a \in polls \ {"asked"} /\ running' = (a = "running")
  /\ polls' = IF running' = running THEN polls \ {a} ELSE {"asked"}
  /\ finished' = (finished \/ (a = "idle" /\ scans > 0))
  /\ UNCHANGED <<stopping, modal, starting>> /\ UNCH_scan
PollFails == /\ polls # {} /\ \E a \in polls : polls' = polls \ {a}
             /\ UNCHANGED <<running, stopping, finished, modal, starting>> /\ UNCH_scan

(* startRescan shows a scan at once, and takes it back if it is refused.    *)
StartRescan ==
  /\ ~running /\ starting = "none" /\ starting' = "asked"
  /\ finished' = FALSE /\ stopping' = FALSE /\ Runs(TRUE) /\ modal' = FALSE /\ UNCH_scan
RescanAnswered ==
  /\ starting = "answered" /\ starting' = "none"
  /\ UNCHANGED <<running, stopping, finished, modal, polls>> /\ UNCH_scan
RescanFails ==
  /\ starting = "failed" /\ starting' = "none" /\ Runs(FALSE)
  /\ UNCHANGED <<stopping, finished, modal>> /\ UNCH_scan
(* stopScan: the server looks at its flag between two files.                *)
StopScan ==
  /\ running /\ ~stopping /\ stopping' = TRUE
  /\ UNCHANGED <<running, finished, modal, polls, starting>> /\ UNCH_scan
OpenModal == /\ ~running /\ ~modal /\ modal' = TRUE
             /\ UNCHANGED <<running, stopping, finished, polls, starting>> /\ UNCH_scan
CloseModal == /\ modal /\ modal' = FALSE
              /\ UNCHANGED <<running, stopping, finished, polls, starting>> /\ UNCH_scan

RescanModal == modal /\ (StartRescan \/ CloseModal)
RescanButtons == OpenModal \/ StopScan
RescanStep ==
  \/ ScanBegins \/ ScanEnds \/ RescanServed \/ RescanLost \/ RescanAnswered \/ RescanFails
  \/ PollTick \/ PollServed \/ PollFails \/ (\E a \in {"running", "idle"} : PollArrives(a))
  \/ RescanButtons \/ RescanModal

-----------------------------------------------------------------------------
(* The forms                                                                *)

(* localTimeToUtc and utcToLocalTime; the weekday is not converted.         *)
localTimeToUtc(v) == IF section = "schedule" THEN [v EXCEPT !.hour = (@ - Offset + Hours) % Hours] ELSE v
utcToLocalTime(v) == IF section = "schedule" THEN [v EXCEPT !.hour = (@ + Offset) % Hours] ELSE v

Form(f, s) == form' = f /\ shown' = s /\ UNCHANGED exporting
Hydrate == Form(IF form = "loading" THEN "loaded" ELSE "saved", utcToLocalTime(kept)) /\ UNCHANGED <<kept, carried>>
FormLoaded == form = "loading" /\ Hydrate
FormFails == /\ form \in {"loading", "saving", "served"}
             /\ Form(IF form = "loading" THEN "loaded" ELSE "edited", shown) /\ UNCHANGED <<kept, carried>>
(* What is chosen while a save is under way gives way to its answer.        *)
EditForm == /\ form # "loading" /\ \E v \in Values : v # shown
                 /\ Form(IF form \in {"saving", "served"} THEN form ELSE "edited", v)
            /\ UNCHANGED <<kept, carried>>
HandleSave == /\ form \in {"loaded", "edited", "saved"} /\ carried' = localTimeToUtc(shown)
              /\ Form("saving", shown) /\ UNCHANGED kept
SaveServed == form = "saving" /\ kept' = carried /\ Form("served", shown) /\ UNCHANGED carried
SaveAnswered == form = "served" /\ Hydrate

ScheduledRescanSection == section = "schedule" /\ (EditForm \/ HandleSave)
(* The export writes the formats the server keeps.                          *)
Exporting(e) == exporting' = e /\ UNCHANGED <<shown, kept, form, carried>>
HandleExport == form # "loading" /\ shown.formats # {} /\ exporting # "asked" /\ Exporting("asked")
ExportAnswered == exporting = "asked" /\ (Exporting("done") \/ Exporting("no"))
SidecarExportSection == section = "sidecars" /\ (EditForm \/ HandleSave \/ HandleExport \/ ExportAnswered)
FormStep == ScheduledRescanSection \/ SidecarExportSection \/ FormLoaded \/ FormFails \/ SaveServed \/ SaveAnswered

-----------------------------------------------------------------------------
(* The backups                                                              *)

(* handleCreate and handleDelete: the server, and then the list.            *)
BackupMade == /\ made < MaxBackups /\ made' = made + 1 /\ backups' = backups \union {made + 1}
              /\ lists' = lists \union {backups'} /\ UNCHANGED listed
BackupDeleted == \E b \in listed : /\ backups' = backups \ {b} /\ lists' = lists \union {backups'}
                                   /\ UNCHANGED <<listed, made>>
(* A scheduled backup, and those that retention takes away.                 *)
ScheduledBackup == /\ made < MaxBackups /\ made' = made + 1
                   /\ \E old \in SUBSET backups : backups' = (backups \ old) \union {made + 1}
                   /\ UNCHANGED <<listed, lists>>
ListArrives == \E l \in lists : lists' = lists \ {l} /\ listed' = l /\ UNCHANGED <<backups, made>>
ListFails == \E l \in lists : lists' = lists \ {l} /\ UNCHANGED <<backups, listed, made>>
(* A save of the schedule may change the directory: the list is fetched.    *)
BackupScheduleSaved == lists' = lists \union {backups} /\ UNCHANGED <<backups, listed, made>>
BackupStep == BackupMade \/ BackupDeleted \/ ScheduledBackup \/ ListArrives \/ ListFails \/ BackupScheduleSaved

-----------------------------------------------------------------------------
Next ==
  \/ section = "rescan" /\ RescanStep /\ UNCHANGED <<section, formVars, listVars>>
  \/ section \in {"schedule", "sidecars"} /\ FormStep /\ UNCHANGED <<section, scanVars, listVars>>
  \/ section = "backups" /\ BackupStep /\ UNCHANGED <<section, scanVars, formVars>>

(* The interval goes on, requests are answered, and a poll that is sent     *)
(* again and again is answered in the end. A scan may go on for ever.       *)
At(A) == A /\ section = "rescan" /\ UNCHANGED <<section, formVars, listVars>>
MaintenanceFairness ==
  /\ WF_mVars(At(PollTick)) /\ SF_mVars(At(PollServed))
  /\ \A a \in {"running", "idle"} : SF_mVars(At(PollArrives(a)))
  /\ WF_mVars(At(RescanServed \/ RescanLost)) /\ WF_mVars(At(RescanAnswered \/ RescanFails))
Spec == Init /\ [][Next]_mVars /\ MaintenanceFairness

-----------------------------------------------------------------------------
(* Properties                                                               *)

(* Whoever started the scan, and whatever polls were lost, overtaken or     *)
(* cancelled: when a scan goes on, or is over for good, the section comes to *)
(* show so, again and again (a press of the button shows a scan at once).   *)
ScanIs(b) == section = "rescan" /\ scanning = b
Shows(b) == running = b
FollowsTheScan == \A b \in BOOLEAN : <>[]ScanIs(b) => []<>Shows(b)

(* A weekly run happens on the day that is shown: schedules are set in the  *)
(* local timezone (docs/backups.md:46). It does not hold: the time is       *)
(* converted to UTC and the day is not.                                     *)
DayShown ==
  section = "schedule" /\ form = "saved" /\ shown.schedule = "weekly" =>
     ((kept.weekday * Hours + kept.hour + Offset) \div Hours) % Days = shown.weekday

(* The export stays disabled until a format has been saved                  *)
(* (SidecarExportSection.jsx:77). It does not hold: the button goes by the  *)
(* formats that are ticked, saved or not.                                   *)
ExportsSavedFormats == exporting = "asked" => kept.formats # {}
=============================================================================
