-------------------------- MODULE ScanStatusProofs --------------------------
(***************************************************************************)
(* Type correctness, and the startup scan's file lock, for any number of    *)
(* processes and threads, deaths and outages; and, while Valkey answers,    *)
(* that a run stops only when it is asked to.                               *)
(***************************************************************************)
EXTENDS ScanStatus, TLAPS

LEMMA StatusTypes ==
  /\ Idle \in Status \ {Absent}
  /\ Absent \in Status
  /\ \A p \in {"scanning", "indexing", "ocr"} :
       [running |-> TRUE, phase |-> p] \in Status \ {Absent}
  BY DEF Idle, Absent, Status

LEMMA JobTypes ==
  /\ NoJob \in JobStates
  /\ \A k \in Kinds, p \in Places : New(k, p) \in JobStates
<1>1. \A k \in Kinds, p \in Places : New(k, p) \in JobStates
  BY StatusTypes DEF New, JobStates
<1>2. "rescan" \in Kinds /\ "none" \in Places
  BY DEF Kinds, Places
<1> QED BY <1>1, <1>2 DEF NoJob

(* What a step of one run writes to the stores, and where it goes next.     *)
LEMMA StoreTypes ==
  ASSUME TypeOK, NEW w \in Workers
  PROVE  /\ StatusAt(w) \in Status \ {Absent}
         /\ \A s \in Status \ {Absent} : SetStatus(w, s) =>
              shared' \in Status /\ local' \in [Workers -> Status \ {Absent}]
         /\ \A f \in BOOLEAN : SetStop(w, f) =>
              sharedStop' \in BOOLEAN /\ localStop' \in [Workers -> BOOLEAN]
  BY DEF TypeOK, StatusAt, SetStatus, SetStop

LEMMA GotoType ==
  ASSUME TypeOK, NEW j \in Jobs, NEW place \in Places, Goto(j, place)
  PROVE  job' \in [Jobs -> JobStates]
<1>1. job[j] \in JobStates
  BY DEF TypeOK
<1>2. [job[j] EXCEPT !.place = place] \in JobStates
  BY <1>1 DEF JobStates
<1> QED BY <1>2 DEF Goto, TypeOK

LEMMA LeaveType ==
  ASSUME TypeOK, NEW j \in Jobs, Leave(j)
  PROVE  job' \in [Jobs -> JobStates]
<1>1. job[j] \in JobStates
  BY DEF TypeOK
<1>2. [job[j] EXCEPT !.place = "unlock"] \in JobStates
  BY <1>1 DEF JobStates, Places
<1> QED BY <1>2, JobTypes DEF Leave, TypeOK

THEOREM TypeCorrect == Spec => []TypeOK
<1>1. Init => TypeOK
  <2> SUFFICES ASSUME Init PROVE TypeOK
    OBVIOUS
  <2>1. job \in [Jobs -> JobStates] /\ local \in [Workers -> Status \ {Absent}]
    BY StatusTypes, JobTypes DEF Init
  <2>2. kills \in 0..MaxKills /\ outages \in 0..MaxOutages
    BY StatusAssumption DEF Init
  <2> QED BY <2>1, <2>2, StatusTypes, StatusAssumption DEF Init, TypeOK
<1>2. TypeOK /\ [Next]_vars => TypeOK'
  <2> SUFFICES ASSUME TypeOK, [Next]_vars PROVE TypeOK'
    OBVIOUS
  <2> USE DEF vars, stores, environment
  <2>0. \A j \in Jobs : Home[j] \in Workers
    BY StatusAssumption
  <2>1. ASSUME NEW w \in Workers, StartProcess(w) PROVE TypeOK'
    <3>1. "startup" \in Kinds /\ "reset" \in Places
      BY DEF Kinds, Places
    <3>2. job' \in [Jobs -> JobStates]
      BY <2>1, <3>1, JobTypes DEF StartProcess, TypeOK
    <3> QED BY <2>1, <3>2 DEF StartProcess, TypeOK
  <2>2. ASSUME NEW j \in Jobs, StartupReset(j) PROVE TypeOK'
    <3>1. job' \in [Jobs -> JobStates]
      BY <2>2, GotoType DEF StartupReset, Places
    <3> QED BY <2>0, <2>2, <3>1, StoreTypes, StatusTypes DEF StartupReset, ClearStop, TypeOK
  <2>3. ASSUME NEW j \in Jobs, NEW kind \in Kinds \ {"startup"}, Request(j, kind) PROVE TypeOK'
    BY <2>3, JobTypes DEF Request, TypeOK, Places
  <2>4. ASSUME NEW j \in Jobs, Guard(j) PROVE TypeOK'
    <3>1. job' \in [Jobs -> JobStates]
      <4>1. CASE Leave(j)
        BY <4>1, LeaveType
      <4>2. CASE Goto(j, "queue") \/ Goto(j, "publish")
        BY <4>2, GotoType DEF Places
      <4> QED BY <2>4, <4>1, <4>2 DEF Guard
    <3> QED BY <2>4, <3>1 DEF Guard, TypeOK
  <2>5. ASSUME NEW j \in Jobs, Publish(j) PROVE TypeOK'
    <3>1. job' \in [Jobs -> JobStates]
      BY <2>5, GotoType DEF Publish, Places
    <3>2. shared' \in Status /\ local' \in [Workers -> Status \ {Absent}]
      BY <2>0, <2>5, StoreTypes, StatusTypes DEF Publish
    <3>3. sharedStop' \in BOOLEAN /\ localStop' \in [Workers -> BOOLEAN]
      BY <2>0, <2>5, StoreTypes DEF Publish, ClearStop
    <3> QED BY <2>5, <3>1, <3>2, <3>3 DEF Publish, TypeOK
  <2>6. ASSUME NEW j \in Jobs, ProgressRead(j) PROVE TypeOK'
    <3>1. StatusAt(Home[j]) \in Status /\ job[j] \in JobStates
      BY <2>0, StoreTypes DEF TypeOK
    <3>2. [job[j] EXCEPT !.read = StatusAt(Home[j])] \in JobStates
      BY <3>1 DEF JobStates
    <3> QED BY <2>6, <3>2 DEF ProgressRead, TypeOK
  <2>7. ASSUME NEW j \in Jobs, ProgressWrite(j) PROVE TypeOK'
    <3>1. job[j] \in JobStates
      BY DEF TypeOK
    <3>2. job[j].read \in Status \ {Absent}
      BY <2>7, <3>1 DEF ProgressWrite, JobStates
    <3>3. [job[j] EXCEPT !.read = Absent] \in JobStates
      BY <3>1, StatusTypes DEF JobStates
    <3>4. shared' \in Status /\ local' \in [Workers -> Status \ {Absent}]
      BY <2>0, <2>7, <3>2, StoreTypes DEF ProgressWrite
    <3> QED BY <2>7, <3>3, <3>4 DEF ProgressWrite, TypeOK
  <2>8. ASSUME NEW j \in Jobs, Stopped(j) \/ EndIndex(j) \/ EndOcr(j) PROVE TypeOK'
    <3>1. job' \in [Jobs -> JobStates]
      BY <2>8, GotoType DEF Stopped, EndIndex, EndOcr, Places
    <3> QED BY <2>8, <3>1 DEF Stopped, EndIndex, EndOcr, TypeOK
  <2>9. ASSUME NEW j \in Jobs, EndScan(j) PROVE TypeOK'
    <3>1. job' \in [Jobs -> JobStates]
      BY <2>9, GotoType DEF EndScan, Places
    <3>2. shared' \in Status /\ local' \in [Workers -> Status \ {Absent}]
      BY <2>0, <2>9, StoreTypes, StatusTypes DEF EndScan
    <3> QED BY <2>9, <3>1, <3>2 DEF EndScan, TypeOK
  <2>10. ASSUME NEW j \in Jobs, ReadQueue(j) PROVE TypeOK'
    <3>1. job' \in [Jobs -> JobStates]
      BY <2>10, GotoType DEF ReadQueue, Places
    <3>2. shared' \in Status /\ local' \in [Workers -> Status \ {Absent}]
      <4>1. CASE UNCHANGED stores
        BY <4>1 DEF TypeOK
      <4>2. CASE SetStatus(Home[j], [running |-> TRUE, phase |-> "ocr"])
        BY <2>0, <4>2, StoreTypes, StatusTypes
      <4> QED BY <2>10, <4>1, <4>2 DEF ReadQueue
    <3>3. UNCHANGED <<sharedStop, localStop>>
      BY <2>10 DEF ReadQueue
    <3> QED BY <2>10, <3>1, <3>2, <3>3 DEF ReadQueue, TypeOK
  <2>11. ASSUME NEW j \in Jobs, Finish(j) PROVE TypeOK'
    <3>1. job' \in [Jobs -> JobStates]
      BY <2>11, LeaveType DEF Finish
    <3>2. shared' \in Status /\ local' \in [Workers -> Status \ {Absent}]
      <4>1. CASE UNCHANGED stores
        BY <4>1 DEF TypeOK
      <4>2. CASE SetStatus(Home[j], Idle)
        BY <2>0, <4>2, StoreTypes, StatusTypes
      <4> QED BY <2>11, <4>1, <4>2 DEF Finish
    <3>3. UNCHANGED <<sharedStop, localStop>>
      BY <2>11 DEF Finish
    <3> QED BY <2>11, <3>1, <3>2, <3>3 DEF Finish, TypeOK
  <2>12. ASSUME NEW j \in Jobs, Unlock(j) PROVE TypeOK'
    BY <2>12, JobTypes DEF Unlock, TypeOK
  <2>13. ASSUME NEW w \in Workers, Cancel(w) PROVE TypeOK'
    <3>1. \A j \in Jobs : [job[j] EXCEPT !.asked = TRUE] \in JobStates
      BY DEF TypeOK, JobStates
    <3>2. job' \in [Jobs -> JobStates]
      BY <2>13, <3>1 DEF Cancel, TypeOK
    <3> QED BY <2>13, <3>2, StoreTypes DEF Cancel, TypeOK
  <2>14. ASSUME NEW w \in Workers, Kill(w) PROVE TypeOK'
    <3>1. kills' \in 0..MaxKills
      BY <2>14, StatusAssumption DEF Kill, TypeOK
    <3>2. job' \in [Jobs -> JobStates]
      BY <2>14, JobTypes DEF Kill, TypeOK
    <3>3. local' \in [Workers -> Status \ {Absent}] /\ localStop' \in [Workers -> BOOLEAN]
      BY <2>14, StatusTypes DEF Kill, TypeOK
    <3>4. alive' \in SUBSET Workers /\ lock' \in SUBSET alive'
      BY <2>14 DEF Kill, LocksLeft, TypeOK
    <3> QED BY <2>14, <3>1, <3>2, <3>3, <3>4 DEF Kill, TypeOK
  <2>15. CASE Outage
    <3>1. outages' \in 0..MaxOutages
      BY <2>15, StatusAssumption DEF Outage, TypeOK
    <3> QED BY <2>15, <3>1 DEF Outage, TypeOK
  <2>16. CASE Recover \/ ExpireStatus \/ ExpireStop
    <3>1. CASE Recover
      <4>1. up' \in BOOLEAN /\ HasValkey
        BY <3>1 DEF Recover
      <4> QED BY <3>1, <4>1 DEF Recover, TypeOK
    <3>2. CASE ExpireStatus
      BY <3>2, StatusTypes DEF ExpireStatus, TypeOK
    <3>3. CASE ExpireStop
      BY <3>3 DEF ExpireStop, TypeOK
    <3> QED BY <2>16, <3>1, <3>2, <3>3
  <2>17. CASE UNCHANGED vars
    BY <2>17 DEF TypeOK
  <2> QED
    BY <2>1, <2>2, <2>3, <2>4, <2>5, <2>6, <2>7, <2>8, <2>9, <2>10, <2>11, <2>12, <2>13,
       <2>14, <2>15, <2>16, <2>17
    DEF Next, RunStep
<1> QED BY <1>1, <1>2, PTL DEF Spec

-----------------------------------------------------------------------------

(* What the lock is for: a startup scan belongs to a process that holds it, *)
(* so while one goes on nobody finds the lock free; and only such a scan    *)
(* ever drops it.                                                           *)
Locked == \A j \in Jobs : Starts(j) => Home[j] \in lock
OnlyStartsUnlock == \A j \in Jobs : job[j].place = "unlock" => job[j].kind = "startup"
LockInv == Locked /\ OnlyStartsUnlock /\ OneStartupScan

(* A step that starts no startup scan and takes no lock away from one.      *)
LEMMA LockInvFrame ==
  ASSUME LockInv,
         \A j \in Jobs : Starts(j)' => Starts(j) /\ (Home[j] \in lock => Home[j] \in lock'),
         \A j \in Jobs : job'[j].place = "unlock" => job'[j].kind = "startup"
  PROVE  LockInv'
  BY DEF LockInv, Locked, OnlyStartsUnlock, OneStartupScan

(* A step of run j that goes from one place to the next, or leaves.         *)
LEMMA GotoFrame ==
  ASSUME TypeOK, LockInv, NEW j \in Jobs, NEW place, Goto(j, place), place # "unlock",
         Live(j), lock' = lock
  PROVE  LockInv'
<1>1. \A i \in Jobs : job'[i].kind = job[i].kind
  BY DEF Goto, TypeOK, JobStates
<1>2. \A i \in Jobs : i # j => job'[i] = job[i]
  BY DEF Goto, TypeOK
<1>3. job'[j].place = place
  BY DEF Goto, TypeOK, JobStates
<1>4. \A i \in Jobs : job'[i].place = "unlock" => job'[i].kind = "startup"
  BY <1>1, <1>2, <1>3 DEF LockInv, OnlyStartsUnlock
<1> QED BY <1>1, <1>2, <1>4, LockInvFrame DEF Starts, Live

LEMMA LeaveFrame ==
  ASSUME TypeOK, LockInv, NEW j \in Jobs, Leave(j), Live(j), lock' = lock
  PROVE  LockInv'
<1>1. \A i \in Jobs : i # j => job'[i] = job[i]
  BY DEF Leave, TypeOK
<1>2. NoJob.place = "none"
  BY DEF NoJob, New
<1>3. job'[j].place # "none" => job[j].kind = "startup" /\ job'[j].kind = "startup"
  BY <1>2 DEF Leave, TypeOK, JobStates
<1>4. \A i \in Jobs : job'[i].place = "unlock" => job'[i].kind = "startup"
  BY <1>1, <1>3 DEF LockInv, OnlyStartsUnlock
<1> QED BY <1>1, <1>3, <1>4, LockInvFrame DEF Starts, Live

(* At most one startup scan goes on, whichever processes start, die holding *)
(* the lock and start again.                                                *)
THEOREM StartupScansApart == Spec => []OneStartupScan
<1>1. Init => LockInv
  BY DEF Init, NoJob, New, LockInv, Locked, OnlyStartsUnlock, OneStartupScan, Starts, Live
<1>2. TypeOK /\ LockInv /\ [Next]_vars => LockInv'
  <2> SUFFICES ASSUME TypeOK, LockInv, [Next]_vars PROVE LockInv'
    OBVIOUS
  <2>1. ASSUME NEW w \in Workers, StartProcess(w) PROVE LockInv'
    <3>1. CASE lock = {}
      <4>1. \A i \in Jobs : ~Starts(i)
        BY <3>1 DEF LockInv, Locked
      <4> PICK j \in Jobs : Home[j] = w /\ job' = [job EXCEPT ![j] = New("startup", "reset")]
        BY <2>1, <3>1 DEF StartProcess, LockFree
      <4>2. \A i \in Jobs : Starts(i)' => i = j
        BY <4>1 DEF Starts, Live, TypeOK
      <4>3. Home[j] \in lock'
        BY <2>1, <3>1 DEF StartProcess, LockFree
      <4>4. \A i \in Jobs : job'[i] = IF i = j THEN New("startup", "reset") ELSE job[i]
        BY DEF TypeOK
      <4>5. New("startup", "reset").kind = "startup"
        BY DEF New
      <4>6. OnlyStartsUnlock'
        BY <4>4, <4>5 DEF LockInv, OnlyStartsUnlock
      <4> QED BY <4>2, <4>3, <4>6 DEF LockInv, Locked, OneStartupScan
    <3>2. CASE lock # {}
      <4>1. UNCHANGED <<job, lock>>
        BY <2>1, <3>2 DEF StartProcess, LockFree
      <4> QED BY <4>1, LockInvFrame DEF LockInv, OnlyStartsUnlock, Starts, Live
    <3> QED BY <3>1, <3>2
  <2>2. ASSUME NEW j \in Jobs, NEW kind \in Kinds \ {"startup"}, Request(j, kind) PROVE LockInv'
    <3>1. New(kind, "guard").kind # "startup"
      BY DEF New
    <3>2. \A i \in Jobs : i # j => job'[i] = job[i]
      BY <2>2 DEF Request, TypeOK
    <3>3. job'[j] = New(kind, "guard") /\ lock' = lock
      BY <2>2 DEF Request, TypeOK
    <3>4. New(kind, "guard").place = "guard"
      BY DEF New
    <3>5. \A i \in Jobs : job'[i].place = "unlock" => job'[i].kind = "startup"
      BY <3>2, <3>3, <3>4 DEF LockInv, OnlyStartsUnlock
    <3> QED BY <3>1, <3>2, <3>3, <3>5, LockInvFrame DEF Starts, Live
  <2>3. ASSUME NEW j \in Jobs,
               \/ StartupReset(j) \/ Publish(j) \/ Stopped(j) \/ EndScan(j)
               \/ EndIndex(j) \/ ReadQueue(j) \/ EndOcr(j)
        PROVE  LockInv'
    <3>1. Live(j) /\ lock' = lock
      BY <2>3 DEF StartupReset, Publish, Stopped, EndScan, EndIndex, ReadQueue, EndOcr,
                  SeesStop, At, Live
    <3>2. \E place : Goto(j, place) /\ place # "unlock"
      BY <2>3 DEF StartupReset, Publish, Stopped, EndScan, EndIndex, ReadQueue, EndOcr
    <3> QED BY <3>1, <3>2, GotoFrame
  <2>4. ASSUME NEW j \in Jobs, Guard(j) \/ Finish(j) PROVE LockInv'
    <3>1. Live(j) /\ lock' = lock
      BY <2>4 DEF Guard, Finish, At, Live
    <3>2. Leave(j) \/ \E place : Goto(j, place) /\ place # "unlock"
      BY <2>4 DEF Guard, Finish
    <3> QED BY <3>1, <3>2, GotoFrame, LeaveFrame
  <2>5. ASSUME NEW j \in Jobs, ProgressRead(j) \/ ProgressWrite(j) PROVE LockInv'
    <3>1. \A i \in Jobs : job'[i].kind = job[i].kind /\ job'[i].place = job[i].place
      BY <2>5 DEF ProgressRead, ProgressWrite, TypeOK, JobStates
    <3>2. lock' = lock
      BY <2>5 DEF ProgressRead, ProgressWrite
    <3>3. \A i \in Jobs : job'[i].place = "unlock" => job'[i].kind = "startup"
      BY <3>1 DEF LockInv, OnlyStartsUnlock
    <3> QED BY <3>1, <3>2, <3>3, LockInvFrame DEF Starts, Live
  <2>6. ASSUME NEW j \in Jobs, Unlock(j) PROVE LockInv'
    <3>1. \A i \in Jobs : job'[i] = IF i = j THEN NoJob ELSE job[i]
      BY <2>6 DEF Unlock, TypeOK
    <3>2. ~Live(j)'
      BY <3>1 DEF Live, NoJob, New
    <3>3. ASSUME NEW i \in Jobs, Starts(i)'
          PROVE  Starts(i) /\ (Home[i] \in lock => Home[i] \in lock')
      <4>1. i # j /\ Starts(i)
        BY <3>1, <3>2, <3>3 DEF Starts, Live
      <4>2. Starts(j)
        BY <2>6 DEF Unlock, At, LockInv, OnlyStartsUnlock, Starts, Live
      <4> QED BY <4>1, <4>2 DEF LockInv, OneStartupScan
    <3>4. \A i \in Jobs : job'[i].place = "unlock" => job'[i].kind = "startup"
      BY <3>1, <3>2 DEF LockInv, OnlyStartsUnlock, NoJob, New
    <3> QED BY <3>3, <3>4, LockInvFrame
  <2>7. ASSUME NEW w \in Workers, Kill(w) PROVE LockInv'
    <3>1. \A i \in Jobs : job'[i] = IF Home[i] = w THEN NoJob ELSE job[i]
      BY <2>7 DEF Kill
    <3>2. NoJob.place = "none"
      BY DEF NoJob, New
    <3>3. \A i \in Jobs : Starts(i)' => Starts(i) /\ Home[i] # w
      BY <3>1, <3>2 DEF Starts, Live
    <3>4. lock' = lock \ {w}
      BY <2>7 DEF Kill, LocksLeft
    <3>5. \A i \in Jobs : job'[i].place = "unlock" => job'[i].kind = "startup"
      BY <3>1, <3>2 DEF LockInv, OnlyStartsUnlock
    <3> QED BY <3>3, <3>4, <3>5, LockInvFrame
  <2>8. ASSUME NEW w \in Workers, Cancel(w) PROVE LockInv'
    <3>1. \A i \in Jobs : job'[i].kind = job[i].kind /\ job'[i].place = job[i].place
      BY <2>8 DEF Cancel, TypeOK, JobStates
    <3>2. lock' = lock
      BY <2>8 DEF Cancel
    <3>3. \A i \in Jobs : job'[i].place = "unlock" => job'[i].kind = "startup"
      BY <3>1 DEF LockInv, OnlyStartsUnlock
    <3> QED BY <3>1, <3>2, <3>3, LockInvFrame DEF Starts, Live
  <2>9. CASE UNCHANGED <<job, lock>>
    BY <2>9 DEF LockInv, Locked, OnlyStartsUnlock, OneStartupScan, Starts, Live
  <2>10. CASE Outage \/ Recover \/ ExpireStatus \/ ExpireStop \/ UNCHANGED vars
    BY <2>9, <2>10 DEF Outage, Recover, ExpireStatus, ExpireStop, vars
  <2> QED
    BY <2>1, <2>2, <2>3, <2>4, <2>5, <2>6, <2>7, <2>8, <2>10 DEF Next, RunStep
<1> QED BY <1>1, <1>2, TypeCorrect, PTL DEF Spec, LockInv

-----------------------------------------------------------------------------
(* A run stops only when it is asked to, while Valkey answers               *)

ValkeyAnswers == HasValkey => MaxOutages = 0

(* The flag a run would see was set after the run began: each run clears it *)
(* where it will look for it, and whoever sets it asks all that are at work.*)
Asked(j) ==
  AtWork(j) /\ job[j].kind # "trigger" /\ StopRequested(Home[j]) => job[j].asked

StopInv == up = HasValkey /\ \A j \in Jobs : Asked(j)

(* A step that sets no flag, takes no run to work but a triggered one, and  *)
(* forgets of none that it was asked.                                       *)
LEMMA StopFrame ==
  ASSUME TypeOK, StopInv, up' = up,
         \A j \in Jobs : AtWork(j)' /\ job'[j].kind # "trigger" =>
           /\ AtWork(j) /\ job[j].kind # "trigger" /\ (job[j].asked => job'[j].asked)
           /\ StopRequested(Home[j])' => StopRequested(Home[j])
  PROVE  StopInv'
BY DEF StopInv, Asked

LEMMA Flags ==
  ASSUME TypeOK, NEW w \in Workers, NEW f \in BOOLEAN, SetStop(w, f), up' = up
  PROVE  /\ StopRequested(w)' = f
         /\ ~f => \A v \in Workers : StopRequested(v)' => StopRequested(v)
BY DEF TypeOK, SetStop, StopRequested

LEMMA SameFlags ==
  ASSUME UNCHANGED <<sharedStop, localStop, up>>, NEW w
  PROVE  StopRequested(w)' = StopRequested(w)
BY DEF StopRequested

(* A run goes from one place to the next.                                   *)
LEMMA GotoPlace ==
  ASSUME TypeOK, NEW j \in Jobs, NEW place, Goto(j, place)
  PROVE  /\ job'[j].place = place /\ job'[j].kind = job[j].kind /\ job'[j].asked = job[j].asked
         /\ \A i \in Jobs \ {j} : job'[i] = job[i]
BY DEF Goto, TypeOK, JobStates

(* A run that has cleared the flag begins its work.                         *)
LEMMA Begins ==
  ASSUME TypeOK, StopInv, NEW j \in Jobs, NEW place, Goto(j, place),
         ClearStop(Home[j]), up' = up
  PROVE  StopInv'
<1> SUFFICES ASSUME NEW i \in Jobs PROVE Asked(i)'
  BY DEF StopInv
<1>0. Home[i] \in Workers /\ Home[j] \in Workers
  BY StatusAssumption
<1>1. /\ ~StopRequested(Home[j])'
      /\ \A v \in Workers : StopRequested(v)' => StopRequested(v)
  BY <1>0, Flags DEF ClearStop
<1>2. CASE i = j
  BY <1>1, <1>2 DEF Asked
<1>3. CASE i # j
  <2>1. job'[i] = job[i]
    BY <1>3, GotoPlace
  <2> QED BY <1>0, <1>1, <2>1 DEF StopInv, Asked, AtWork
<1> QED BY <1>2, <1>3

(* A run at work goes on, or ends.                                          *)
LEMMA GoesOn ==
  ASSUME TypeOK, StopInv, NEW j \in Jobs, NEW place, Goto(j, place),
         AtWork(j) \/ job[j].kind = "trigger" \/ place \in {"guard", "publish", "finish"},
         UNCHANGED <<sharedStop, localStop, up>>
  PROVE  StopInv'
<1>1. \A i \in Jobs : job'[i] = job[i] \/ i = j
  BY GotoPlace
<1>2. /\ job'[j].place = place /\ job'[j].kind = job[j].kind
      /\ job'[j].asked = job[j].asked
  BY GotoPlace
<1>3. ASSUME NEW i \in Jobs, AtWork(i)', job'[i].kind # "trigger"
      PROVE  AtWork(i) /\ job[i].kind # "trigger" /\ (job[i].asked => job'[i].asked)
  <2>1. CASE i = j
    BY <1>2, <1>3, <2>1 DEF AtWork
  <2>2. CASE i # j
    BY <1>1, <1>3, <2>2 DEF AtWork
  <2> QED BY <2>1, <2>2
<1> QED BY <1>3, SameFlags, StopFrame

(* A run that is over, or not yet at work.                                  *)
LEMMA OutOfWork ==
  ASSUME TypeOK, StopInv, NEW j \in Jobs, NEW s, job' = [job EXCEPT ![j] = s],
         s.place \notin {"scan", "index", "queue", "ocr"},
         UNCHANGED <<sharedStop, localStop, up>>
  PROVE  StopInv'
<1>1. \A i \in Jobs : IF i = j THEN ~AtWork(i)' ELSE job'[i] = job[i]
  BY DEF TypeOK, AtWork
<1> QED BY <1>1, SameFlags, StopFrame DEF AtWork

LEMMA LeaveOutOfWork ==
  ASSUME TypeOK, NEW j \in Jobs, Leave(j)
  PROVE  \E s : job' = [job EXCEPT ![j] = s] /\ s.place \notin {"scan", "index", "queue", "ocr"}
<1>1. [job[j] EXCEPT !.place = "unlock"].place = "unlock" /\ NoJob.place = "none"
  BY DEF TypeOK, JobStates, NoJob, New
<1> QED BY <1>1 DEF Leave

(* A run that clears the stop flag when it begins sees it set only when     *)
(* somebody cancelled while it was at work: the flag an earlier run left    *)
(* behind, in this process or another one, never stops it.                  *)
THEOREM StopsWhenAsked == ASSUME ValkeyAnswers PROVE Spec => []StopsOnlyWhenAsked
<1>1. Init => StopInv
  BY DEF Init, StopInv, Asked, AtWork, NoJob, New
<1>2. TypeOK /\ StopInv /\ [Next]_vars => StopInv'
  <2> SUFFICES ASSUME TypeOK, StopInv, [Next]_vars PROVE StopInv'
    OBVIOUS
  <2> USE DEF stores, environment
  <2>0. \A j \in Jobs : Home[j] \in Workers
    BY StatusAssumption
  <2>1. ASSUME NEW w \in Workers, StartProcess(w) PROVE StopInv'
    <3>1. UNCHANGED <<sharedStop, localStop, up>>
      BY <2>1 DEF StartProcess
    <3>2. CASE UNCHANGED job
      BY <3>1, <3>2, SameFlags, StopFrame DEF AtWork
    <3>3. ASSUME NEW j \in Jobs, job' = [job EXCEPT ![j] = New("startup", "reset")]
          PROVE  StopInv'
      <4>1. New("startup", "reset").place = "reset"
        BY DEF New
      <4> QED BY <3>1, <3>3, <4>1, OutOfWork
    <3> QED BY <2>1, <3>2, <3>3 DEF StartProcess
  <2>2. ASSUME NEW j \in Jobs, StartupReset(j) \/ Publish(j) PROVE StopInv'
    <3>1. \E place : Goto(j, place) /\ ClearStop(Home[j]) /\ up' = up
      BY <2>2 DEF StartupReset, Publish
    <3> QED BY <3>1, Begins
  <2>3. ASSUME NEW j \in Jobs, NEW kind, Request(j, kind) PROVE StopInv'
    <3>1. New(kind, "guard").place = "guard"
      BY DEF New
    <3> QED BY <2>3, <3>1, OutOfWork DEF Request
  <2>4. ASSUME NEW j \in Jobs, Guard(j) \/ Finish(j) PROVE StopInv'
    <3>1. UNCHANGED <<sharedStop, localStop, up>>
      BY <2>4 DEF Guard, Finish
    <3>2. CASE Leave(j)
      BY <3>1, <3>2, LeaveOutOfWork, OutOfWork
    <3>3. CASE Goto(j, IF job[j].kind = "trigger" THEN "queue" ELSE "publish")
      BY <3>1, <3>3, GoesOn
    <3> QED BY <2>4, <3>2, <3>3 DEF Guard, Finish
  <2>5. ASSUME NEW j \in Jobs,
               Stopped(j) \/ EndScan(j) \/ EndIndex(j) \/ ReadQueue(j) \/ EndOcr(j)
        PROVE  StopInv'
    <3>1. UNCHANGED <<sharedStop, localStop, up>>
      BY <2>5 DEF Stopped, EndScan, EndIndex, ReadQueue, EndOcr
    <3>2. AtWork(j) /\ \E place : Goto(j, place)
      BY <2>5 DEF Stopped, EndScan, EndIndex, ReadQueue, EndOcr, SeesStop, At, AtWork
    <3> QED BY <3>1, <3>2, GoesOn
  <2>6. ASSUME NEW j \in Jobs, ProgressRead(j) \/ ProgressWrite(j) PROVE StopInv'
    <3>1. \A i \in Jobs : /\ job'[i].place = job[i].place /\ job'[i].kind = job[i].kind
                          /\ job'[i].asked = job[i].asked
      BY <2>6 DEF ProgressRead, ProgressWrite, TypeOK, JobStates
    <3>2. UNCHANGED <<sharedStop, localStop, up>>
      BY <2>6 DEF ProgressRead, ProgressWrite
    <3> QED BY <3>1, <3>2, SameFlags, StopFrame DEF AtWork
  <2>7. ASSUME NEW j \in Jobs, Unlock(j) PROVE StopInv'
    <3>1. NoJob.place = "none"
      BY DEF NoJob, New
    <3> QED BY <2>7, <3>1, OutOfWork DEF Unlock
  <2>8. ASSUME NEW w \in Workers, Cancel(w) PROVE StopInv'
    <3> SUFFICES ASSUME NEW j \in Jobs, AtWork(j)' PROVE job'[j].asked
      BY <2>8 DEF Cancel, StopInv, Asked
    <3>1. job'[j] = IF AtWork(j) THEN [job[j] EXCEPT !.asked = TRUE] ELSE job[j]
      BY <2>8 DEF Cancel
    <3>2. AtWork(j)
      BY <3>1 DEF AtWork
    <3> QED BY <3>1, <3>2 DEF TypeOK, JobStates
  <2>9. ASSUME NEW w \in Workers, Kill(w) PROVE StopInv'
    <3>1. \A i \in Jobs : job'[i] = IF Home[i] = w THEN NoJob ELSE job[i]
      BY <2>9 DEF Kill
    <3>2. NoJob.place = "none"
      BY DEF NoJob, New
    <3>3. \A v \in Workers : StopRequested(v)' => StopRequested(v)
      BY <2>9 DEF Kill, StopRequested, TypeOK
    <3>4. up' = up
      BY <2>9 DEF Kill
    <3> QED BY <2>0, <3>1, <3>2, <3>3, <3>4, StopFrame DEF AtWork
  <2>10. ~Outage /\ ~Recover
    BY StatusAssumption DEF Outage, Recover, ValkeyAnswers, StopInv, TypeOK
  <2>11. CASE ExpireStatus \/ ExpireStop \/ UNCHANGED vars
    <3>1. UNCHANGED <<localStop, up, job>> /\ (sharedStop' => sharedStop)
      BY <2>11 DEF ExpireStatus, ExpireStop, vars
    <3>2. \A v : StopRequested(v)' => StopRequested(v)
      BY <3>1 DEF StopRequested
    <3> QED BY <3>1, <3>2, StopFrame DEF AtWork
  <2> QED
    BY <2>1, <2>2, <2>3, <2>4, <2>5, <2>6, <2>7, <2>8, <2>9, <2>10, <2>11 DEF Next, RunStep
<1>3. StopInv => StopsOnlyWhenAsked
  BY DEF StopInv, Asked, StopsOnlyWhenAsked, SeesStop, At, AtWork
<1> QED BY <1>1, <1>2, <1>3, TypeCorrect, PTL DEF Spec
=============================================================================
