----------------------------- MODULE ScanStatus -----------------------------
(***************************************************************************)
(* Which of the library's background runs is going, as the server processes *)
(* see it: one status and one stop flag, in Valkey when there is one and in *)
(* each process otherwise; a check of the status before a run and a reset   *)
(* after it; a file lock for the startup scan.  Processes may die and are   *)
(* started again, Valkey may be out of reach for a while, and its keys      *)
(* expire.  What a run does to the books is the subject of BookIndexing.    *)
(***************************************************************************)
EXTENDS Naturals

CONSTANTS
  Workers,    \* the server processes
  Jobs,       \* the background runs that can exist at once, one thread each
  Home,       \* the process each of them is a thread of
  HasValkey,  \* whether a Valkey server is configured
  MaxKills,   \* how many times a process dies
  MaxOutages  \* how many times Valkey goes out of reach

ASSUME StatusAssumption ==
  /\ Home \in [Jobs -> Workers]
  /\ HasValkey \in BOOLEAN
  /\ MaxKills \in Nat /\ MaxOutages \in Nat

VARIABLES
  shared,      \* the status in Valkey, or Absent
  local,       \* the status each process keeps for itself
  sharedStop,  \* the stop flag in Valkey
  localStop,   \* the stop flag of each process
  up,          \* whether Valkey answers
  alive,       \* the processes that run
  lock,        \* the processes that hold the startup scan's file lock
  job,         \* the background runs
  kills,       \* deaths so far
  outages      \* outages so far

stores == <<shared, local, sharedStop, localStop>>
environment == <<up, kills, outages>>
vars == <<stores, environment, alive, lock, job>>

Status == [running : BOOLEAN, phase : {"none", "scanning", "indexing", "ocr", "absent"}]
Idle == [running |-> FALSE, phase |-> "none"]
Absent == [running |-> FALSE, phase |-> "absent"]

Kinds == {"startup", "rescan", "single", "trigger"}

(* reset: the startup thread before it clears leftover state; guard: about  *)
(* to look whether a run is going; publish: about to say that one is;       *)
(* queue: about to read the OCR queue; finish: about to say it is over.     *)
Places == {"none", "reset", "guard", "publish", "scan", "index", "queue", "ocr", "finish", "unlock"}

(* read: the status a progress update has read and will write back.         *)
(* asked: history, a cancel was accepted while the run was at work.         *)
JobStates == [place : Places, kind : Kinds, read : Status, asked : BOOLEAN]

New(kind, place) ==
  [place |-> place, kind |-> kind, read |-> Absent, asked |-> FALSE]
NoJob == New("rescan", "none")

TypeOK ==
  /\ shared \in Status
  /\ local \in [Workers -> Status \ {Absent}]
  /\ sharedStop \in BOOLEAN
  /\ localStop \in [Workers -> BOOLEAN]
  /\ up \in BOOLEAN /\ (up => HasValkey)
  /\ alive \in SUBSET Workers
  /\ lock \in SUBSET alive
  /\ job \in [Jobs -> JobStates]
  /\ kills \in 0..MaxKills /\ outages \in 0..MaxOutages

-----------------------------------------------------------------------------
(* The two stores                                                           *)

StatusAt(w) == IF up /\ shared # Absent THEN shared ELSE local[w]

SetStatus(w, s) ==
  IF up THEN shared' = s /\ UNCHANGED local
        ELSE local' = [local EXCEPT ![w] = s] /\ UNCHANGED shared

StopRequested(w) == IF up THEN sharedStop ELSE localStop[w]

SetStop(w, flag) ==
  /\ localStop' = [localStop EXCEPT ![w] = flag]
  /\ sharedStop' = IF up THEN flag ELSE sharedStop

(* Deviation: a run that starts leaves the stop flag as it finds it.        *)
StopKept(w) == UNCHANGED <<sharedStop, localStop>>

ClearStop(w) == SetStop(w, FALSE)

-----------------------------------------------------------------------------
(* A run, step by step                                                      *)

Live(j) == job[j].place # "none"
AtWork(j) == job[j].place \in {"scan", "index", "queue", "ocr"}

Goto(j, place) == job' = [job EXCEPT ![j].place = place]

(* Step j is at a place, and not in the middle of a progress update.        *)
At(j, place) == job[j].place = place /\ job[j].read = Absent

(* Deviation: the process does not wait for the lock.                       *)
LockIgnored == TRUE
LockFree == lock = {}

(* lifespan: whoever gets the lock starts the startup scan in a thread.     *)
StartProcess(w) ==
  /\ w \notin alive
  /\ alive' = alive \union {w}
  /\ IF LockFree
     THEN /\ lock' = lock \union {w}
          /\ \E j \in Jobs :
               /\ ~Live(j) /\ Home[j] = w
               /\ job' = [job EXCEPT ![j] = New("startup", "reset")]
     ELSE UNCHANGED <<lock, job>>
  /\ UNCHANGED <<stores, environment>>

(* do_scan clears what a previous process may have left behind.             *)
StartupReset(j) ==
  /\ At(j, "reset")
  /\ ClearStop(Home[j]) /\ SetStatus(Home[j], Idle)
  /\ Goto(j, "guard")
  /\ UNCHANGED <<environment, alive, lock>>

(* The schedule or a request adds a background task to a process.           *)
Request(j, kind) ==
  /\ ~Live(j) /\ Home[j] \in alive
  /\ job' = [job EXCEPT ![j] = New(kind, "guard")]
  /\ UNCHANGED <<stores, environment, alive, lock>>

(* A run that is over is gone; the startup thread has its lock to drop.     *)
Leave(j) ==
  job' = [job EXCEPT ![j] = IF @.kind = "startup" THEN [@ EXCEPT !.place = "unlock"] ELSE NoJob]

Guard(j) ==
  /\ At(j, "guard")
  /\ IF StatusAt(Home[j]).running
     THEN Leave(j)
     ELSE Goto(j, IF job[j].kind = "trigger" THEN "queue" ELSE "publish")
  /\ UNCHANGED <<stores, environment, alive, lock>>

Publish(j) ==
  /\ At(j, "publish")
  /\ ClearStop(Home[j])
  /\ IF job[j].kind = "single"
     THEN SetStatus(Home[j], [running |-> TRUE, phase |-> "indexing"]) /\ Goto(j, "index")
     ELSE SetStatus(Home[j], [running |-> TRUE, phase |-> "scanning"]) /\ Goto(j, "scan")
  /\ UNCHANGED <<environment, alive, lock>>

(* _set_status merges an update into the status it has just read: progress  *)
(* counters carry the running flag and the phase along.                     *)
ProgressRead(j) ==
  /\ \E place \in {"scan", "index", "ocr"} : At(j, place)
  /\ job' = [job EXCEPT ![j].read = StatusAt(Home[j])]
  /\ UNCHANGED <<stores, environment, alive, lock>>

ProgressWrite(j) ==
  /\ job[j].read # Absent
  /\ SetStatus(Home[j], job[j].read)
  /\ job' = [job EXCEPT ![j].read = Absent]
  /\ UNCHANGED <<sharedStop, localStop, environment, alive, lock>>

(* The stop flag is polled all along the walk, the indexing and the OCR.    *)
SeesStop(j) ==
  /\ \E place \in {"scan", "index", "ocr"} : At(j, place)
  /\ StopRequested(Home[j])

Stopped(j) ==
  /\ SeesStop(j)
  /\ Goto(j, "finish")
  /\ UNCHANGED <<stores, environment, alive, lock>>

EndScan(j) ==
  /\ At(j, "scan") /\ ~StopRequested(Home[j])
  /\ SetStatus(Home[j], [running |-> TRUE, phase |-> "indexing"])
  /\ Goto(j, "index")
  /\ UNCHANGED <<sharedStop, localStop, environment, alive, lock>>

EndIndex(j) ==
  /\ At(j, "index") /\ ~StopRequested(Home[j])
  /\ Goto(j, "queue")
  /\ UNCHANGED <<stores, environment, alive, lock>>

(* run_ocr_queue: an empty queue, or one that is drained in phase "ocr".    *)
ReadQueue(j) ==
  /\ At(j, "queue")
  /\ \/ UNCHANGED stores /\ Goto(j, "finish")
     \/ /\ SetStatus(Home[j], [running |-> TRUE, phase |-> "ocr"])
        /\ UNCHANGED <<sharedStop, localStop>>
        /\ Goto(j, "ocr")
  /\ UNCHANGED <<environment, alive, lock>>

EndOcr(j) ==
  /\ At(j, "ocr") /\ ~StopRequested(Home[j])
  /\ Goto(j, "finish")
  /\ UNCHANGED <<stores, environment, alive, lock>>

(* The finally blocks: a triggered run clears the status only when the      *)
(* phase is its own.                                                        *)
Finish(j) ==
  /\ At(j, "finish")
  /\ IF job[j].kind = "trigger" /\ StatusAt(Home[j]).phase # "ocr"
     THEN UNCHANGED stores
     ELSE SetStatus(Home[j], Idle) /\ UNCHANGED <<sharedStop, localStop>>
  /\ Leave(j)
  /\ UNCHANGED <<environment, alive, lock>>

Unlock(j) ==
  /\ At(j, "unlock")
  /\ lock' = lock \ {Home[j]}
  /\ job' = [job EXCEPT ![j] = NoJob]
  /\ UNCHANGED <<stores, environment, alive>>

-----------------------------------------------------------------------------
(* Everyone else                                                            *)

(* POST /cancel-scan on process w.                                          *)
Cancel(w) ==
  /\ w \in alive
  /\ StatusAt(w).running
  /\ SetStop(w, TRUE)
  /\ job' = [j \in Jobs |-> IF AtWork(j) THEN [job[j] EXCEPT !.asked = TRUE] ELSE job[j]]
  /\ UNCHANGED <<shared, local, environment, alive, lock>>

(* Deviation: the lock is a file that a dead process leaves behind.         *)
LocksKept(w) == lock

(* flock: the system drops the locks of a process that dies.                *)
LocksLeft(w) == lock \ {w}

(* A process dies with its threads and its own state.                       *)
Kill(w) ==
  /\ w \in alive /\ kills < MaxKills
  /\ kills' = kills + 1
  /\ alive' = alive \ {w} /\ lock' = LocksLeft(w)
  /\ job' = [j \in Jobs |-> IF Home[j] = w THEN NoJob ELSE job[j]]
  /\ local' = [local EXCEPT ![w] = Idle]
  /\ localStop' = [localStop EXCEPT ![w] = FALSE]
  /\ UNCHANGED <<shared, sharedStop, up, outages>>

Outage ==
  /\ up /\ outages < MaxOutages
  /\ up' = FALSE /\ outages' = outages + 1
  /\ UNCHANGED <<stores, alive, lock, job, kills>>

Recover ==
  /\ HasValkey /\ ~up
  /\ up' = TRUE
  /\ UNCHANGED <<stores, alive, lock, job, kills, outages>>

(* Deviation: the status is stored without a time to live.                  *)
NoTimeToLive == FALSE

(* The status key lives for a day after its last update, which a run at     *)
(* work keeps refreshing; the stop flag lives for an hour.                  *)
StatusOutlived == shared # Absent /\ \A j \in Jobs : ~AtWork(j)

ExpireStatus ==
  /\ StatusOutlived
  /\ shared' = Absent
  /\ UNCHANGED <<local, sharedStop, localStop, environment, alive, lock, job>>

ExpireStop ==
  /\ sharedStop /\ \A j \in Jobs : ~AtWork(j)
  /\ sharedStop' = FALSE
  /\ UNCHANGED <<shared, local, localStop, environment, alive, lock, job>>

-----------------------------------------------------------------------------

Init ==
  /\ shared = Absent /\ sharedStop = FALSE
  /\ local = [w \in Workers |-> Idle] /\ localStop = [w \in Workers |-> FALSE]
  /\ up = HasValkey
  /\ alive = {} /\ lock = {}
  /\ job = [j \in Jobs |-> NoJob]
  /\ kills = 0 /\ outages = 0

RunStep(j) ==
  \/ StartupReset(j) \/ Guard(j) \/ Publish(j) \/ ProgressWrite(j) \/ Stopped(j)
  \/ EndScan(j) \/ EndIndex(j) \/ ReadQueue(j) \/ EndOcr(j) \/ Finish(j) \/ Unlock(j)

Next ==
  \/ \E w \in Workers : StartProcess(w) \/ Cancel(w) \/ Kill(w)
  \/ \E j \in Jobs : RunStep(j) \/ ProgressRead(j)
  \/ \E j \in Jobs, kind \in Kinds \ {"startup"} : Request(j, kind)
  \/ Outage \/ Recover \/ ExpireStatus \/ ExpireStop

Spec == Init /\ [][Next]_vars

(* The supervisor restarts processes; every step of a run ends, including   *)
(* the last progress update of a phase; keys expire and Valkey comes back.  *)
Fairness ==
  /\ \A w \in Workers : WF_vars(StartProcess(w))
  /\ \A j \in Jobs : WF_vars(RunStep(j)) /\ SF_vars(EndScan(j) \/ EndIndex(j) \/ EndOcr(j) \/ Stopped(j))
  /\ WF_vars(ExpireStatus) /\ WF_vars(Recover)
FairSpec == Spec /\ Fairness

-----------------------------------------------------------------------------
(* Properties                                                               *)

(* The file lock keeps the startup scans of several processes apart, also   *)
(* when the process that holds it dies half-way and is started again.       *)
Starts(j) == Live(j) /\ job[j].kind = "startup"
OneStartupScan == \A i, j \in Jobs : Starts(i) /\ Starts(j) => i = j

(* No process is left believing for ever that a run is going, which would   *)
(* refuse every later one: not by a process that dies, nor by a progress    *)
(* update that writes an old status back.  Holds while Valkey answers: the  *)
(* status a process keeps for itself has no time to live.                   *)
StatusClears ==
  \A w \in Workers : StatusAt(w).running ~> ~StatusAt(w).running

(* A run that clears the stop flag when it begins sees it set only when      *)
(* somebody cancelled while it was going.  Holds while Valkey answers.      *)
StopsOnlyWhenAsked ==
  \A j \in Jobs : SeesStop(j) /\ job[j].kind # "trigger" => job[j].asked

(* run_rescan_sync guards against concurrent calls: if a rescan is already  *)
(* running, the call returns.                                               *)
OneRunAtATime == \A i, j \in Jobs : AtWork(i) /\ AtWork(j) => i = j
=============================================================================
