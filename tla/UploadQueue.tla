---------------------------- MODULE UploadQueue -----------------------------
(***************************************************************************)
(* The upload queue of the file manager (useUploadQueue): one request per   *)
(* file, at most Concurrency at a time, each with its own outcome, retried  *)
(* or cancelled one by one or all together.                                 *)
(***************************************************************************)
EXTENDS Integers, Sequences, SequencesExt, FiniteSets, Arrays

CONSTANTS
  Files,        \* the files a user drops
  Concurrency,  \* CONCURRENCY, 3 in the code
  MaxTries      \* bound: how often one file is sent

VARIABLES
  item,     \* status of each row of the panel
  waiting,  \* queue.current: the files to send, in order
  active,   \* active.current: the files with a request under way
  running,  \* running.current
  upload,   \* what became of a file's request: sent, stored, refused
  tries,    \* how often each file has been sent
  pumping   \* a deferred pump (setTimeout) is to run

uVars == <<item, waiting, active, running, upload, tries, pumping>>

Failed == {"error", "cancelled"}

UploadTypeOK ==
  /\ item \in [Files -> {"absent", "queued", "uploading", "done"} \union Failed]
  /\ waiting \in Seq(Files)
  /\ active \subseteq Files
  /\ running \in Int
  /\ upload \in [Files -> {"none", "sent", "stored", "refused"}]
  /\ tries \in [Files -> 0..MaxTries]
  /\ pumping \in BOOLEAN

Init ==
  /\ item = [f \in Files |-> "absent"]
  /\ waiting = <<>>
  /\ active = {}
  /\ running = 0
  /\ upload = [f \in Files |-> "none"]
  /\ tries = [f \in Files |-> 0]
  /\ pumping = FALSE

(* pump and send: with queue w, requests a under way and n of them counted, *)
(* start the next files; st is what the rows say before.                    *)
Pump(st, w, a, n) ==
  LET room == IF n < Concurrency THEN Concurrency - n ELSE 0
      k == IF Len(w) < room THEN Len(w) ELSE room
      starts == ToSet(SubSeq(w, 1, k))
  IN /\ waiting' = SubSeq(w, k + 1, Len(w))
     /\ active' = a \union starts
     /\ running' = n + k
     /\ item' = [f \in Files |-> IF f \in starts THEN "uploading" ELSE st[f]]
     /\ upload' = [f \in Files |-> IF f \in starts THEN "sent"
                                   ELSE IF f \in a THEN upload[f] ELSE "none"]
     /\ tries' = [f \in Files |-> IF f \in starts THEN tries[f] + 1 ELSE tries[f]]

(* Deviation: a network error does not give its place back.                 *)
OverKept(f, s) ==
  /\ Pump([item EXCEPT ![f] = s], waiting, active \ {f},
          IF s = "error" THEN running ELSE running - 1)
  /\ UNCHANGED pumping

(* The request of f is over, with the row saying s.                         *)
Over(f, s) ==
  /\ Pump([item EXCEPT ![f] = s], waiting, active \ {f}, running - 1)
  /\ UNCHANGED pumping

-----------------------------------------------------------------------------

Enqueue(f) ==
  /\ item[f] = "absent"
  /\ Pump([item EXCEPT ![f] = "queued"], Append(waiting, f), active, running)
  /\ UNCHANGED pumping

(* The server stores the file, or refuses it (no permission, an expired     *)
(* token, a full disk).                                                     *)
Stores(f) ==
  /\ upload[f] = "sent"
  /\ \E r \in {"stored", "refused"} : upload' = [upload EXCEPT ![f] = r]
  /\ UNCHANGED <<item, waiting, active, running, tries, pumping>>

(* onload                                                                   *)
Answered(f) ==
  \/ upload[f] = "stored" /\ Over(f, "done")
  \/ upload[f] = "refused" /\ Over(f, "error")

(* onerror: the connection is lost, before or after the server is done.     *)
Lost(f) == f \in active /\ Over(f, "error")

(* Deviation: the pump is not called again.                                 *)
RetryWithoutPump(F) ==
  /\ F # {}
  /\ \A f \in F : item[f] \in Failed /\ tries[f] < MaxTries
  /\ item' = [f \in Files |-> IF f \in F THEN "queued" ELSE item[f]]
  /\ waiting' = waiting \o SetToSeq(F)
  /\ UNCHANGED <<active, running, upload, tries, pumping>>

(* retry and retryFailed: the rows are queued, the pump runs a little later.*)
Retry(F) ==
  /\ F # {}
  /\ \A f \in F : item[f] \in Failed /\ tries[f] < MaxTries
  /\ item' = [f \in Files |-> IF f \in F THEN "queued" ELSE item[f]]
  /\ waiting' = waiting \o SetToSeq(F)
  /\ pumping' = TRUE
  /\ UNCHANGED <<active, running, upload, tries>>

DeferredPump ==
  /\ pumping /\ pumping' = FALSE
  /\ Pump(item, waiting, active, running)

(* cancel: a request is aborted, and its place is taken at once; a file     *)
(* that still waits is dropped.                                             *)
Cancel(f) ==
  \/ f \in active /\ Over(f, "cancelled")
  \/ /\ item[f] = "queued"
     /\ item' = [item EXCEPT ![f] = "cancelled"]
     /\ waiting' = Filtered(waiting, Files \ {f})
     /\ UNCHANGED <<active, running, upload, tries, pumping>>

CancelAll ==
  /\ active # {} \/ waiting # <<>>
  /\ waiting' = <<>>
  /\ active' = {}
  /\ running' = running - Cardinality(active)
  /\ item' = [f \in Files |-> IF item[f] \in {"queued", "uploading"} THEN "cancelled" ELSE item[f]]
  /\ upload' = [f \in Files |-> "none"]
  /\ UNCHANGED <<tries, pumping>>

ClearCompleted ==
  /\ \E f \in Files : item[f] = "done"
  /\ item' = [f \in Files |-> IF item[f] = "done" THEN "absent" ELSE item[f]]
  /\ UNCHANGED <<waiting, active, running, upload, tries, pumping>>

-----------------------------------------------------------------------------

(* The panel offers a retry of every failed row, and of all of them, a      *)
(* cancel of every row under way, and of all of them.                       *)
Panel == \/ \E f \in Files : Cancel(f)
         \/ CancelAll \/ ClearCompleted
         \/ \E F \in SUBSET {f \in Files : item[f] \in Failed} : Retry(F)

Network == \E f \in Files : Stores(f) \/ Answered(f) \/ Lost(f)

Drop == \E f \in Files : tries[f] < MaxTries /\ Enqueue(f)

Next == Drop \/ Panel \/ Network \/ DeferredPump

(* The server answers or the connection is lost; a timer fires.             *)
UploadFairness ==
  /\ \A f \in Files : WF_uVars(Stores(f)) /\ WF_uVars(Answered(f) \/ Lost(f))
  /\ WF_uVars(DeferredPump)

Spec == Init /\ [][Next]_uVars /\ UploadFairness

-----------------------------------------------------------------------------
(* Why it holds                                                             *)

(* A request has an outcome only while it is under way, and what waits may  *)
(* be sent.                                                                 *)
RequestsUnderWay == \A f \in Files : upload[f] # "none" => f \in active
WaitingHasTries == \A f \in ToSet(waiting) : tries[f] < MaxTries

-----------------------------------------------------------------------------
(* Properties                                                               *)

(* The three records of what is going on agree: the count is that of the    *)
(* requests, and stays within the limit; a row says "uploading" exactly     *)
(* when its request is under way, "queued" exactly when the file waits, and *)
(* no file waits twice.                                                     *)
UploadsAccounted ==
  /\ running = Cardinality(active) /\ running <= Concurrency
  /\ \A f \in Files : /\ item[f] = "uploading" <=> f \in active
                      /\ item[f] = "queued" <=> f \in ToSet(waiting)
  /\ IsInjective(waiting)

(* Every file that is queued is done, has failed or was cancelled in the    *)
(* end.                                                                     *)
Settled(f) == item[f] \notin {"queued", "uploading"}
UploadsSettle == \A f \in Files : item[f] = "queued" ~> Settled(f)
=============================================================================
