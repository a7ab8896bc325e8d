------------------------- MODULE ClientSessionProofs -------------------------
(***************************************************************************)
(* What holds of the parts of the client that outlive a page, for every     *)
(* value of their constants. Each part's state is the cells that            *)
(* ClientSession gives it.                                                  *)
(***************************************************************************)
EXTENDS ClientSession, ArraysProofs

(* A behaviour stays with the part it looks at, and a step is that part's.  *)
LEMMA OnePart ==
  ASSUME [Next]_vars
  PROVE  /\ focus' = focus
         /\ \/ UNCHANGED vars
            \/ /\ focus = "queue" => Queue!Next
               /\ focus = "listening" => Audio!Next
               /\ focus = "soundboard" => Board!Next
               /\ focus = "uploads" => Uploads!Next
               /\ focus = "session" => Auth!Next
               /\ focus = "sso" => Sso!Next
               /\ focus = "maintenance" => Upkeep!Next
               /\ focus = "recents" => Opened!Next
BY DEF Next, vars

-----------------------------------------------------------------------------
(* The single sign-on settings: c1 locked, c8 touched, c9 asks              *)

(* What is typed, and what the server and its answers do, name nothing.     *)
LEMMA SilentSteps ==
  ASSUME Sso!LockedUntouched,
         \/ \E f, v : Sso!Type(f, v)
         \/ \E a \in c9 : \/ Sso!Serve(a) \/ Sso!Loaded(a) \/ Sso!Saved(a)
                         \/ Sso!Filled(a) \/ Sso!Fails(a)
         \/ UNCHANGED Sso!ssoVars
  PROVE  Sso!LockedUntouched'
BY DEF Sso!LockedUntouched, Sso!Type, Sso!Serve, Sso!Loaded, Sso!Saved, Sso!Filled,
       Sso!Fails, Sso!ssoVars

(* A field is saved by hand: it is the one the request names, and unlocked. *)
LEMMA SavingOneField ==
  ASSUME NEW f, NEW d, Sso!LockedUntouched, Sso!SaveField(f, d)
  PROVE  Sso!LockedUntouched'
BY DEF Sso!LockedUntouched, Sso!SaveField, Sso!Send

(* Taking the secret away names the secret, which is unlocked then.         *)
LEMMA Clearing ==
  ASSUME Sso!LockedUntouched, Sso!ClearSecret
  PROVE  Sso!LockedUntouched'
BY DEF Sso!LockedUntouched, Sso!ClearSecret, Sso!Send

(* A look-up begins with a question, which names no setting to write.       *)
LEMMA Asking ==
  ASSUME Sso!LockedUntouched, Sso!Discover
  PROVE  Sso!LockedUntouched'
BY DEF Sso!LockedUntouched, Sso!Discover, Sso!Send

(* What a look-up changes is never locked, whatever it started from and     *)
(* whatever the provider says.                                              *)
LEMMA UpdatesAvoidLocks ==
  ASSUME NEW base, NEW found
  PROVE  DOMAIN Sso!Updates(base, found) \intersect c1 = {}
BY DEF Sso!Updates

LEMMA Finding ==
  ASSUME NEW a, NEW found, Sso!LockedUntouched, Sso!Discovered(a, found)
  PROVE  Sso!LockedUntouched'
<1>1. DOMAIN Sso!Updates(a.put, found) \intersect c1 = {}
  BY UpdatesAvoidLocks
<1> QED
  BY <1>1 DEF Sso!LockedUntouched, Sso!Discovered

LEMMA SsoStep ==
  ASSUME Sso!LockedUntouched, Sso!Next
  PROVE  Sso!LockedUntouched'
<1>1. ASSUME NEW f, Sso!FieldRow(f)
      PROVE  Sso!LockedUntouched'
  <2>1. ASSUME NEW v, Sso!Type(f, v)
        PROVE  Sso!LockedUntouched'
    BY <2>1, SilentSteps
  <2>2. CASE Sso!StringBlur(f)
    BY <2>2, SavingOneField DEF Sso!StringBlur
  <2> QED
    BY <1>1, <2>1, <2>2 DEF Sso!FieldRow
<1>2. CASE Sso!IssuerRow
  BY <1>1, <1>2, Asking DEF Sso!IssuerRow
<1>3. CASE Sso!SecretRow
  <2>1. ASSUME NEW v, Sso!Type("secret", v)
        PROVE  Sso!LockedUntouched'
    BY <2>1, SilentSteps
  <2>2. CASE Sso!SaveSecret
    BY <2>2, SavingOneField DEF Sso!SaveSecret
  <2>3. CASE Sso!ClearSecret
    BY <2>3, Clearing
  <2> QED
    BY <1>3, <2>1, <2>2, <2>3 DEF Sso!SecretRow
<1>4. CASE Sso!CheckboxRow \/ Sso!SelectRow
  BY <1>4, SavingOneField DEF Sso!CheckboxRow, Sso!SelectRow, Sso!BoolToggle, Sso!SelectChange
<1>5. ASSUME NEW a \in c9,
             Sso!Serve(a) \/ Sso!Loaded(a) \/ Sso!Saved(a) \/ Sso!Filled(a) \/ Sso!Fails(a)
      PROVE  Sso!LockedUntouched'
  BY <1>5, SilentSteps
<1>6. ASSUME NEW a \in c9, NEW found \in SUBSET Endpoints, Sso!Discovered(a, found)
      PROVE  Sso!LockedUntouched'
  BY <1>6, Finding
<1> QED
  BY <1>1, <1>2, <1>3, <1>4, <1>5, <1>6 DEF Sso!Next, Sso!Form

(* Whichever way a setting is changed, by hand, by its button or by a       *)
(* look-up, no request ever names a setting the environment has set:        *)
(* LockedUntouched is inductive, whatever the drafts and the answers are.   *)
THEOREM LocksRespected == Spec => []LockedUntouched
<1>1. Init => LockedUntouched
  BY DEF Init, LockedUntouched, Sso!Init, Sso!LockedUntouched
<1>2. LockedUntouched /\ [Next]_vars => LockedUntouched'
  <2> SUFFICES ASSUME LockedUntouched, [Next]_vars, focus = "sso"
               PROVE  Sso!LockedUntouched'
    BY OnePart DEF LockedUntouched
  <2>1. CASE UNCHANGED vars
    BY <2>1 DEF LockedUntouched, Sso!LockedUntouched, vars
  <2>2. CASE Sso!Next
    BY <2>2, SsoStep DEF LockedUntouched
  <2> QED
    BY <2>1, <2>2, OnePart
<1> QED
  BY <1>1, <1>2, PTL DEF Spec

-----------------------------------------------------------------------------
(* The play queue, as PlayQueueProofs knows it                              *)

QueueP == INSTANCE PlayQueueProofs WITH
  Tracks <- QueueTracks,
  queue <- c1, index <- c2, asked <- c3, playing <- c4, repeatOne <- c5, hydrating <- c6,
  did <- c7

(* The queue of this module is the one whose steps are proved good there.   *)
LEMMA SameQueue ==
  /\ Queue!Init => QueueP!Init
  /\ Queue!Next => QueueP!Next
<1> USE DEF Queue!Rendered, QueueP!Rendered, Queue!Lesser, QueueP!Lesser, Queue!Current,
            QueueP!Current, Queue!Poor, QueueP!Poor, Queue!Entries, QueueP!Entries,
            Queue!InsertAt, QueueP!InsertAt, Queue!RemoveAt, QueueP!RemoveAt
<1>1. ASSUME NEW list, NEW start, Queue!PlayQueue(list, start)
      PROVE  QueueP!PlayQueue(list, start)
  BY <1>1 DEF Queue!PlayQueue, QueueP!PlayQueue
<1>2. ASSUME NEW t, NEW at, Queue!Enqueue(t, at)
      PROVE  QueueP!Enqueue(t, at)
  BY <1>2 DEF Queue!Enqueue, QueueP!Enqueue
<1>3. ASSUME NEW i, NEW j, Queue!MoveTrack(i, j)
      PROVE  QueueP!MoveTrack(i, j)
  BY <1>3 DEF Queue!MoveTrack, QueueP!MoveTrack, Queue!AfterMove, QueueP!AfterMove
<1>4. ASSUME NEW i, Queue!RemoveTrack(i)
      PROVE  QueueP!RemoveTrack(i)
  BY <1>4 DEF Queue!RemoveTrack, QueueP!RemoveTrack, Queue!AfterRemoval, QueueP!AfterRemoval
<1>5. ASSUME NEW i, Queue!JumpTo(i)
      PROVE  QueueP!JumpTo(i)
  BY <1>5 DEF Queue!JumpTo, QueueP!JumpTo
<1>6. ASSUME NEW id, Queue!Hydrated(id)
      PROVE  QueueP!Hydrated(id)
  BY <1>6 DEF Queue!Hydrated, QueueP!Hydrated
<1>7. /\ Queue!Clear => QueueP!Clear
      /\ Queue!NextTrack => QueueP!NextTrack
      /\ Queue!Prev => QueueP!Prev
      /\ Queue!Ended => QueueP!Ended
      /\ Queue!ToggleRepeat => QueueP!ToggleRepeat
      /\ Queue!TogglePlay => QueueP!TogglePlay
  BY DEF Queue!Clear, Queue!NextTrack, Queue!Prev, Queue!Ended, Queue!ToggleRepeat,
         Queue!TogglePlay, QueueP!Clear, QueueP!NextTrack, QueueP!Prev, QueueP!Ended,
         QueueP!ToggleRepeat, QueueP!TogglePlay
<1> HIDE DEF Queue!Rendered, QueueP!Rendered, Queue!InsertAt, QueueP!InsertAt,
             Queue!RemoveAt, QueueP!RemoveAt
<1>8. /\ Queue!Controller => QueueP!Controller
      /\ \A i : Queue!Row(i) => QueueP!Row(i)
  BY <1>1, <1>2, <1>3, <1>4, <1>5, <1>7
     DEF Queue!Controller, QueueP!Controller, Queue!Row, QueueP!Row, Queue!PlayNext,
         QueueP!PlayNext
<1>9. Queue!Play => QueueP!Play
  BY <1>1, <1>7 DEF Queue!Play, QueueP!Play
<1>10. Queue!Edit => QueueP!Edit
  BY <1>2, <1>6, <1>7, <1>8
     DEF Queue!Edit, QueueP!Edit, Queue!PlayNext, QueueP!PlayNext, Queue!AddToQueue,
         QueueP!AddToQueue
<1>11. Queue!Init => QueueP!Init
  BY DEF Queue!Init, QueueP!Init
<1> QED
  BY <1>8, <1>9, <1>10, <1>11 DEF Queue!Next, QueueP!Next

QueueInv == focus = "queue" => QueueP!QueueInv

LEMMA QueueKept ==
  ASSUME QueueP!ListsFit, QueueInv, [Next]_vars
  PROVE  QueueInv' /\ (focus = "queue" => QueueP!Good)
<1> SUFFICES ASSUME focus = "queue" PROVE QueueP!Good
  BY OnePart DEF QueueInv, QueueP!Good
<1>1. CASE UNCHANGED vars
  BY <1>1, QueueP!QueueIdle DEF QueueInv, vars, QueueP!qVars
<1>2. CASE Queue!Next
  BY <1>2, SameQueue, QueueP!QueueStep DEF QueueInv
<1> QED
  BY <1>1, <1>2, OnePart

LEMMA QueueBegins == QueueP!ListsFit /\ Init => QueueInv
  BY SameQueue, QueueP!QueueInit DEF Init, QueueInv

(* Whatever makes another track the current one also starts it: the next of *)
(* a removed one, a row, the neighbour, a list.                             *)
THEOREM NewTrackStarts == ASSUME QueueP!ListsFit PROVE Spec => NewTrackPlays
<1>1. QueueInv /\ [Next]_vars => QueueInv' /\ [focus = "queue" => Queue!StartsTheNewTrack]_vars
  BY QueueKept
     DEF QueueP!Good, QueueP!StartsTheNewTrack, Queue!StartsTheNewTrack, Queue!Current,
         QueueP!Current
<1> QED
  BY <1>1, QueueBegins, PTL DEF Spec, NewTrackPlays

(* Seen as a playlist, the queue of the composition is the one proved of    *)
(* there; nothing plays in a behaviour that looks at another part.          *)
LEMMA Parts ==
  /\ focus = "queue" => /\ PlayedBefore = QueueP!played /\ PlayedNow = QueueP!current
                        /\ PlayedNext = QueueP!upcoming /\ LastDone = c7
  /\ focus # "queue" => /\ PlayedBefore = <<>> /\ PlayedNow = <<>> /\ PlayedNext = <<>>
                        /\ LastDone = "none"
BY DEF PlayedBefore, PlayedNow, PlayedNext, LastDone, Queue!ids, QueueP!ids, Queue!played,
       QueueP!played, Queue!current, QueueP!current, Queue!upcoming, QueueP!upcoming

LEMMA PartsNext ==
  /\ focus' = "queue" => /\ PlayedBefore' = QueueP!played' /\ PlayedNow' = QueueP!current'
                         /\ PlayedNext' = QueueP!upcoming' /\ LastDone' = c7'
  /\ focus' # "queue" => /\ PlayedBefore' = <<>> /\ PlayedNow' = <<>> /\ PlayedNext' = <<>>
                         /\ LastDone' = "none"
BY DEF PlayedBefore, PlayedNow, PlayedNext, LastDone, Queue!ids, QueueP!ids, Queue!played,
       QueueP!played, Queue!current, QueueP!current, Queue!upcoming, QueueP!upcoming

LEMMA SamePlace ==
  /\ focus = "queue" /\ QueueP!L!Init => Place!Init
  /\ focus = "queue" /\ focus' = focus /\ QueueP!L!Next => Place!Next
  /\ focus = "queue" /\ focus' = focus /\ UNCHANGED QueueP!L!vars => UNCHANGED Place!vars
  /\ focus # "queue" => Place!Init
  /\ focus # "queue" /\ focus' = focus => UNCHANGED Place!vars
<1> USE Parts, PartsNext
        DEF Place!Cut, QueueP!L!Cut, Place!list, QueueP!L!list, Place!RemoveAt, QueueP!L!RemoveAt
<1>1. focus = "queue" /\ QueueP!L!Init => Place!Init
  BY DEF QueueP!L!Init, Place!Init
<1>2. ASSUME focus = "queue", focus' = focus, QueueP!L!Next
      PROVE  Place!Next
  <2>1. CASE QueueP!L!Load
    BY <1>2, <2>1 DEF QueueP!L!Load, Place!Load, Place!Next, Place!BoundedSeq,
       QueueP!L!BoundedSeq, Place!SeqOf, QueueP!L!SeqOf
  <2>2. CASE QueueP!L!Skip
    BY <1>2, <2>2 DEF QueueP!L!Skip, Place!Skip, Place!Next
  <2>3. CASE QueueP!L!Insert
    BY <1>2, <2>3 DEF QueueP!L!Insert, Place!Insert, Place!Next
  <2>4. CASE QueueP!L!DropAround
    BY <1>2, <2>4 DEF QueueP!L!DropAround, Place!DropAround, Place!Next
  <2>5. CASE QueueP!L!DropCurrent
    BY <1>2, <2>5 DEF QueueP!L!DropCurrent, Place!DropCurrent, Place!Next
  <2>6. CASE QueueP!L!MoveAround
    <3>1. \A l : Place!WithoutOne(l) = QueueP!L!WithoutOne(l)
      BY DEF Place!WithoutOne, QueueP!L!WithoutOne
    <3>2. /\ PlayedBefore = QueueP!played /\ PlayedNow = QueueP!current
          /\ PlayedNext = QueueP!upcoming /\ LastDone' = c7'
          /\ PlayedBefore' = QueueP!played' /\ PlayedNow' = QueueP!current'
          /\ PlayedNext' = QueueP!upcoming'
      BY <1>2
    <3> QED
      BY ONLY <2>6, <3>1, <3>2 DEF QueueP!L!MoveAround, Place!MoveAround, Place!Next
  <2>7. CASE QueueP!L!MoveCurrent
    BY <1>2, <2>7 DEF QueueP!L!MoveCurrent, Place!MoveCurrent, Place!Next
  <2> QED
    BY <1>2, <2>1, <2>2, <2>3, <2>4, <2>5, <2>6, <2>7 DEF QueueP!L!Next
<1>3. focus = "queue" /\ focus' = focus /\ UNCHANGED QueueP!L!vars => UNCHANGED Place!vars
  BY DEF QueueP!L!vars, Place!vars
<1>4. focus # "queue" => Place!Init
  BY DEF Place!Init
<1>5. focus # "queue" /\ focus' = focus => UNCHANGED Place!vars
  BY DEF Place!vars
<1> QED
  BY <1>1, <1>2, <1>3, <1>4, <1>5

(* The queue and its index implement the list that cannot lose its place:   *)
(* no removal, move or insertion changes what plays behind the user's back. *)
THEOREM QueueImplementsPlaylist == ASSUME QueueP!ListsFit PROVE Spec => KeepsItsPlace
<1>1. Init => Place!Init
  BY SameQueue, SamePlace, QueueP!QueueInit DEF Init
<1>2. QueueInv /\ [Next]_vars => QueueInv' /\ [Place!Next]_(Place!vars)
  <2> SUFFICES ASSUME QueueInv, [Next]_vars PROVE QueueInv' /\ [Place!Next]_(Place!vars)
    OBVIOUS
  <2>1. QueueInv' /\ focus' = focus /\ (focus = "queue" => [QueueP!L!Next]_(QueueP!L!vars))
    BY QueueKept, OnePart DEF QueueP!Good
  <2> QED
    BY <2>1, SamePlace
<1> QED
  BY <1>1, <1>2, QueueBegins, PTL DEF Spec, KeepsItsPlace, Place!Spec

-----------------------------------------------------------------------------
(* The session of a page: c1 row, c2 jar, c3 token, c4 issued, c5 expired,  *)
(* c6 page, c7 boot, c8 call, c9 flight, c10 leaving, c11 excused           *)

AuthFits == /\ MaxLogins \in Nat /\ MaxIssued \in Nat
            /\ \A t, u \in SignedTabs : t = u   \* one page

LEMMA SameCardinality == ASSUME NEW S PROVE Auth!Cardinality(S) = Cardinality(S)
BY DEF Auth!Cardinality, Cardinality

LEMMA CreatedCounted ==
  ASSUME AuthFits
  PROVE  Auth!Cardinality(Auth!Created) \in Nat
<1>1. IsFiniteSet(Auth!Sessions)
  BY FS_Interval DEF AuthFits, Auth!Sessions
<1> QED
  BY <1>1, FS_Subset, FS_CardinalityType, SameCardinality DEF Auth!Created

LEMMA AuthBlank ==
  ASSUME AuthFits
  PROVE  /\ Auth!None \in Auth!Marks /\ Auth!Idle \in Auth!Requests /\ Auth!Quiet \in Auth!Flights
         /\ MaxLogins \in Nat /\ MaxIssued \in Nat /\ 0 \in 0..MaxLogins /\ 0 \in 0..MaxIssued
BY DEF AuthFits, Auth!None, Auth!Idle, Auth!Quiet, Auth!Marks, Auth!Requests, Auth!Flights

LEMMA AuthMarks ==
  ASSUME NEW k \in Auth!Marks
  PROVE  /\ k.s \in 0..MaxLogins /\ k.n \in 0..MaxIssued
         /\ [st |-> "sent", with |-> k] \in Auth!Requests
         /\ [st |-> "held", with |-> k] \in Auth!Requests
         /\ [st |-> "again", with |-> k] \in Auth!Requests
         /\ [st |-> "sent", with |-> k] \in Auth!Flights
         /\ [st |-> "renewed", with |-> k] \in Auth!Flights
BY DEF Auth!Marks, Auth!Requests, Auth!Flights

LEMMA RevokedRow ==
  ASSUME c1 \in [Auth!Sessions -> Auth!Rows], MaxIssued \in Nat, NEW k
  PROVE  Auth!Revoked(k) \in [Auth!Sessions -> Auth!Rows]
<1> DEFINE r == [c1[k.s] EXCEPT !.alive = FALSE]
           q == [r EXCEPT !.before = 0]
<1>v. 0 \in 0..MaxIssued
  OBVIOUS
<1>1. CASE k.s \in Auth!Sessions
  <2>1. c1[k.s] \in Auth!Rows
    BY <1>1
  <2>2. r \in Auth!Rows
    BY <2>1 DEF Auth!Rows
  <2> HIDE DEF r
  <2>3. q \in Auth!Rows
    BY <1>v, <2>2 DEF Auth!Rows
  <2> HIDE DEF q
  <2>4. [[c1 EXCEPT ![k.s] = r] EXCEPT ![k.s] = q] \in [Auth!Sessions -> Auth!Rows]
    BY <2>2, <2>3
  <2>5. Auth!Revoked(k) = [[c1 EXCEPT ![k.s] = r] EXCEPT ![k.s] = q]
    BY <1>1 DEF Auth!Revoked, r, q
  <2> QED
    BY <2>4, <2>5
<1>2. CASE k.s \notin Auth!Sessions
  BY <1>2 DEF Auth!Revoked
<1> QED
  BY <1>1, <1>2

LEMMA PutCall ==
  ASSUME c8 \in [SignedTabs -> [Calls -> Auth!Requests]],
         NEW t \in SignedTabs, NEW c \in Calls, NEW q \in Auth!Requests
  PROVE  [c8 EXCEPT ![t][c] = q] \in [SignedTabs -> [Calls -> Auth!Requests]]
OBVIOUS

(* What a step leaves of each variable's type.                              *)
LEMMA AuthTypes ==
  ASSUME AuthFits, Auth!AuthTypeOK, [Auth!Next]_(Auth!aVars)
  PROVE  Auth!AuthTypeOK'
<1>t. /\ c1 \in [Auth!Sessions -> Auth!Rows] /\ c2 \in Auth!Marks /\ c3 \in Auth!Marks
      /\ c4 \in 0..MaxIssued /\ c5 \in 0..c4 /\ c6 \in [SignedTabs -> 0..MaxLogins]
      /\ c7 \in [SignedTabs -> {"done", "me", "refresh"}]
      /\ c8 \in [SignedTabs -> [Calls -> Auth!Requests]] /\ c9 \in [SignedTabs -> Auth!Flights]
      /\ c10 \in [SignedTabs -> Auth!Marks] /\ c11 \subseteq Auth!Sessions
  BY DEF Auth!AuthTypeOK
<1>v. /\ Auth!None \in Auth!Marks /\ Auth!Idle \in Auth!Requests /\ Auth!Quiet \in Auth!Flights
      /\ MaxLogins \in Nat /\ MaxIssued \in Nat /\ 0 \in 0..MaxLogins /\ 0 \in 0..MaxIssued
  BY AuthBlank
<1>w. ASSUME NEW t \in SignedTabs
      PROVE  c9[t].st \in {"none", "sent", "renewed", "refused"} /\ c9[t].with \in Auth!Marks
  BY <1>t DEF Auth!Flights
<1>1. CASE Auth!Expire
  BY <1>1 DEF Auth!Expire, Auth!AuthTypeOK
<1>2. ASSUME NEW t \in SignedTabs, Auth!Login(t)
      PROVE  Auth!AuthTypeOK'
  <2>1. Auth!Cardinality(Auth!Created) \in Nat
    BY CreatedCounted
  <2>2. /\ Auth!Cardinality(Auth!Created) + 1 \in 1..MaxLogins /\ c4 + 1 \in 1..MaxIssued
        /\ c4' = c4 + 1 /\ c5 \in 0..c4'
    BY <1>2, <1>v, <1>t, <2>1 DEF Auth!Login
  <2>3. [s |-> Auth!Cardinality(Auth!Created) + 1, n |-> c4 + 1] \in Auth!Marks
    BY ONLY <2>2, <1>v DEF Auth!Marks
  <2> DEFINE n == Auth!Cardinality(Auth!Created) + 1
  <2> HIDE DEF n
  <2>n. n = Auth!Cardinality(Auth!Created) + 1 /\ n \in 1..MaxLogins
    BY <2>2 DEF n
  <2>4. c2' \in Auth!Marks /\ c3' \in Auth!Marks /\ c6' \in [SignedTabs -> 0..MaxLogins]
    BY <1>2, <1>t, <1>v, <2>n, <2>3 DEF Auth!Login
  <2>r. [now |-> c4 + 1, before |-> 0, alive |-> TRUE] \in Auth!Rows
    BY <1>v, <2>2 DEF Auth!Rows
  <2>5. c1' \in [Auth!Sessions -> Auth!Rows]
    BY <1>2, <1>t, <2>n, <2>r DEF Auth!Login
  <2>6. c11' \subseteq Auth!Sessions
    BY <1>2, <1>t, <1>v, <2>n DEF Auth!Login, Auth!Sessions
  <2> QED
    BY <1>2, <1>v, <1>t, <2>2, <2>4, <2>5, <2>6 DEF Auth!Login, Auth!AuthTypeOK
<1>3. ASSUME NEW t \in SignedTabs, Auth!Logout(t)
      PROVE  Auth!AuthTypeOK'
  <2>1. c3' \in Auth!Marks /\ c10' \in [SignedTabs -> Auth!Marks] /\ c6' \in [SignedTabs -> 0..MaxLogins]
    BY <1>3, <1>t, <1>v DEF Auth!Logout
  <2>0. c6[t] \in 1..MaxLogins
    BY <1>3, <1>t, <1>v DEF Auth!Logout
  <2>2. c11' \subseteq Auth!Sessions
    BY <2>0, <1>3, <1>t, <1>v DEF Auth!Logout, Auth!Sessions
  <2> QED
    BY <1>3, <1>t, <1>v, <2>1, <2>2 DEF Auth!Logout, Auth!AuthTypeOK
<1>4. ASSUME NEW t \in SignedTabs, Auth!Reload(t)
      PROVE  Auth!AuthTypeOK'
  <2>1. /\ c7' \in [SignedTabs -> {"done", "me", "refresh"}]
        /\ c8' \in [SignedTabs -> [Calls -> Auth!Requests]] /\ c9' \in [SignedTabs -> Auth!Flights]
    BY <1>4, <1>t, <1>v DEF Auth!Reload
  <2>2. c11' \subseteq Auth!Sessions
    BY <1>4, <1>t, <1>v DEF Auth!Reload, Auth!Created
  <2> QED
    BY <1>4, <1>t, <1>v, <2>1, <2>2 DEF Auth!Reload, Auth!AuthTypeOK
<1>5. ASSUME NEW t \in SignedTabs, Auth!Exchange(t)
      PROVE  Auth!AuthTypeOK'
  <2> DEFINE k == c9[t].with
  <2>1. k \in Auth!Marks
    BY <1>w
  <2>2. CASE Auth!Active(k)
    <3>1. k.s \in Auth!Sessions /\ k.n \in 0..MaxIssued
      <4>1. k.s \in 0..MaxLogins /\ k.n \in 0..MaxIssued
        BY <2>1, AuthMarks
      <4>2. k.s # 0
        BY <2>2 DEF Auth!Active
      <4> HIDE DEF k
      <4> QED
        BY <1>v, <4>1, <4>2 DEF Auth!Sessions
    <3>2. c4' \in 0..MaxIssued /\ c4' = c4 + 1 /\ c4 \in Nat
      BY <1>5, <1>t, <1>v, <2>2 DEF Auth!Exchange
    <3>3. c1' \in [Auth!Sessions -> Auth!Rows]
      BY <1>5, <1>t, <1>v, <2>2, <3>1, <3>2 DEF Auth!Exchange, Auth!Rows
    <3>4. [s |-> k.s, n |-> c4 + 1] \in Auth!Marks
      BY <1>v, <2>1, <3>2 DEF Auth!Marks
    <3>5. c9' \in [SignedTabs -> Auth!Flights]
      BY <1>5, <1>t, <1>v, <2>2, <3>4, AuthMarks DEF Auth!Exchange
    <3> QED
      BY <1>5, <1>t, <1>v, <3>2, <3>3, <3>5 DEF Auth!Exchange, Auth!AuthTypeOK
  <2>3. CASE ~ Auth!Active(k)
    <3>1. c1' \in [Auth!Sessions -> Auth!Rows]
      BY <1>5, <1>t, <1>v, <2>3, RevokedRow DEF Auth!Exchange
    <3>2. [c9 EXCEPT ![t].st = "refused"] \in [SignedTabs -> Auth!Flights]
      BY ONLY <1>t, t \in SignedTabs DEF Auth!Flights
    <3>3. c9' \in [SignedTabs -> Auth!Flights]
      BY <1>5, <2>3, <3>2 DEF Auth!Exchange
    <3> QED
      BY <1>5, <1>t, <1>v, <2>3, <3>1, <3>3 DEF Auth!Exchange, Auth!AuthTypeOK
  <2> QED
    BY <2>2, <2>3
<1>6. ASSUME NEW t \in SignedTabs, Auth!LogoutServed(t)
      PROVE  Auth!AuthTypeOK'
  <2>1. /\ c1' \in [Auth!Sessions -> Auth!Rows] /\ c2' \in Auth!Marks
        /\ c10' \in [SignedTabs -> Auth!Marks]
    BY <1>6, <1>t, <1>v, RevokedRow DEF Auth!LogoutServed
  <2> QED
    BY <1>6, <1>t, <1>v, <2>1 DEF Auth!LogoutServed, Auth!AuthTypeOK
<1>7. ASSUME NEW t \in SignedTabs, Auth!Refreshed(t)
      PROVE  Auth!AuthTypeOK'
  <2>1. c9[t] \in Auth!Flights /\ c9[t].with \in Auth!Marks /\ c9[t].with.s \in 0..MaxLogins
    BY <1>t, <1>w, AuthMarks
  <2>2. /\ c2' \in Auth!Marks /\ c3' \in Auth!Marks /\ c6' \in [SignedTabs -> 0..MaxLogins]
        /\ c7' \in [SignedTabs -> {"done", "me", "refresh"}]
    BY <1>7, <1>t, <1>v, <2>1 DEF Auth!Refreshed
  <2>3. c8' \in [SignedTabs -> [Calls -> Auth!Requests]]
    BY <1>7, <1>t, <1>v, <2>1, AuthMarks DEF Auth!Refreshed
  <2>4. c9' \in [SignedTabs -> Auth!Flights]
    BY <1>7, <1>t, <1>v DEF Auth!Refreshed
  <2> QED
    BY <1>7, <1>t, <1>v, <2>2, <2>3, <2>4 DEF Auth!Refreshed, Auth!AuthTypeOK
<1>r. ASSUME NEW t \in SignedTabs, Auth!Refreshing(t)
      PROVE  c9' \in [SignedTabs -> Auth!Flights]
  BY <1>r, <1>t, AuthMarks DEF Auth!Refreshing
<1>8. ASSUME NEW t \in SignedTabs, Auth!NotRefreshed(t)
      PROVE  Auth!AuthTypeOK'
  <2>1. /\ c2' \in Auth!Marks /\ c7' \in [SignedTabs -> {"done", "me", "refresh"}]
        /\ c9' \in [SignedTabs -> Auth!Flights]
    BY <1>8, <1>t, <1>v DEF Auth!NotRefreshed
  <2>2. c8' \in [SignedTabs -> [Calls -> Auth!Requests]]
    BY <1>8, <1>t, <1>v DEF Auth!NotRefreshed
  <2>3. c3' \in Auth!Marks /\ c6' \in [SignedTabs -> 0..MaxLogins]
    BY <1>8, <1>t, <1>v DEF Auth!NotRefreshed, Auth!SignedOut
  <2> QED
    BY <1>8, <1>t, <1>v, <2>1, <2>2, <2>3 DEF Auth!NotRefreshed, Auth!AuthTypeOK
<1>9. ASSUME NEW t \in SignedTabs, Auth!Resolved(t)
      PROVE  Auth!AuthTypeOK'
  <2>1. c9' \in [SignedTabs -> Auth!Flights]
    BY <1>9, <1>t, <1>v, <1>r DEF Auth!Resolved
  <2>2. /\ c3' \in Auth!Marks /\ c7' \in [SignedTabs -> {"done", "me", "refresh"}]
        /\ c6' \in [SignedTabs -> 0..MaxLogins]
    BY <1>9, <1>t, <1>v, AuthMarks DEF Auth!Resolved
  <2> QED
    BY <1>9, <1>t, <1>v, <2>1, <2>2 DEF Auth!Resolved, Auth!AuthTypeOK
<1>10. ASSUME NEW t \in SignedTabs, NEW c \in Calls, Auth!Ask(t, c) \/ Auth!Succeeds(t, c)
       PROVE  Auth!AuthTypeOK'
  <2>1. [st |-> "sent", with |-> c3] \in Auth!Requests
    BY <1>t, AuthMarks
  <2>2. /\ [c8 EXCEPT ![t][c] = Auth!Idle] \in [SignedTabs -> [Calls -> Auth!Requests]]
        /\ [c8 EXCEPT ![t][c] = [st |-> "sent", with |-> c3]] \in [SignedTabs -> [Calls -> Auth!Requests]]
    BY <1>t, <1>v, <2>1, PutCall
  <2>3. c8' \in [SignedTabs -> [Calls -> Auth!Requests]]
    BY <1>10, <2>2 DEF Auth!Ask, Auth!Succeeds
  <2> QED
    BY <1>10, <1>t, <1>v, <2>3 DEF Auth!Ask, Auth!Succeeds, Auth!AuthTypeOK
<1>11. CASE UNCHANGED Auth!aVars
  BY <1>11 DEF Auth!aVars, Auth!AuthTypeOK
<1>12. ASSUME NEW t \in SignedTabs, NEW c \in Calls, Auth!Refused(t, c)
       PROVE  Auth!AuthTypeOK'
  <2>1. c9' \in [SignedTabs -> Auth!Flights]
    BY <1>12, <1>t, <1>v, <1>r DEF Auth!Refused
  <2>2. [st |-> "held", with |-> c8[t][c].with] \in Auth!Requests
    BY <1>t DEF Auth!Requests
  <2>3. /\ [c8 EXCEPT ![t][c] = Auth!Idle] \in [SignedTabs -> [Calls -> Auth!Requests]]
        /\ [c8 EXCEPT ![t][c] = [st |-> "held", with |-> c8[t][c].with]]
             \in [SignedTabs -> [Calls -> Auth!Requests]]
    BY <1>t, <1>v, <2>2, PutCall
  <2>4. c8' \in [SignedTabs -> [Calls -> Auth!Requests]]
    BY <1>12, <2>3 DEF Auth!Refused
  <2>5. c3' \in Auth!Marks /\ c6' \in [SignedTabs -> 0..MaxLogins]
    <3>1. CASE c3 = Auth!None
      BY <1>12, <1>t, <1>v, <3>1 DEF Auth!Refused, Auth!SignedOut
    <3>2. CASE c3 # Auth!None
      BY <1>12, <1>t, <1>v, <3>2 DEF Auth!Refused
    <3> QED
      BY <3>1, <3>2
  <2> QED
    BY <1>12, <1>t, <1>v, <2>1, <2>4, <2>5 DEF Auth!Refused, Auth!AuthTypeOK
<1> QED
  BY <1>1, <1>2, <1>3, <1>4, <1>5, <1>6, <1>7, <1>8, <1>9, <1>10, <1>11, <1>12
     DEF Auth!Next, Auth!Network

-----------------------------------------------------------------------------
(* Of the sessions, only the one the page shows may be one the user has not *)
(* left, and everything that names a session names one that was created.    *)
Stays(t) == /\ Auth!SignedIn(t)'
            /\ c6[t] # 0 /\ c6[t] \notin c11' => c6'[t] = c6[t]

LEMMA AuthStep ==
  ASSUME AuthFits, Auth!AuthTypeOK, Auth!AuthTypeOK', NEW t \in SignedTabs,
         Auth!SignedIn(t), [Auth!Next]_(Auth!aVars)
  PROVE  Stays(t)
<1>t. /\ c1 \in [Auth!Sessions -> Auth!Rows] /\ c2 \in Auth!Marks /\ c3 \in Auth!Marks
      /\ c4 \in 0..MaxIssued /\ c5 \in 0..c4 /\ c6 \in [SignedTabs -> 0..MaxLogins]
      /\ c7 \in [SignedTabs -> {"done", "me", "refresh"}]
      /\ c8 \in [SignedTabs -> [Calls -> Auth!Requests]] /\ c9 \in [SignedTabs -> Auth!Flights]
      /\ c10 \in [SignedTabs -> Auth!Marks] /\ c11 \subseteq Auth!Sessions
  BY DEF Auth!AuthTypeOK
<1> USE DEF Stays
<1>1. CASE Auth!Expire
  BY <1>1 DEF Auth!Expire, Auth!SignedIn, Auth!Created,
       Auth!Renewable, Auth!Own, Auth!None, Auth!Quiet, Auth!Idle
<1>2. CASE Auth!Login(t)
  <2> DEFINE n == Auth!Cardinality(Auth!Created) + 1
             m == [s |-> n, n |-> c4 + 1]
  <2>1. n \in Auth!Sessions /\ c4 \in Nat
    <3>1. c6'[t] = n
      BY <1>2, <1>t DEF Auth!Login
    <3>2. c2' = m /\ c2' \in Auth!Marks
      BY <1>2 DEF Auth!Login, Auth!AuthTypeOK
    <3>3. n \in 0..MaxLogins
      BY ONLY <3>2, AuthMarks
    <3>4. Auth!Cardinality(Auth!Created) \in Nat
      BY CreatedCounted
    <3> QED
      BY <3>3, <3>4, <1>t DEF AuthFits, Auth!Sessions
  <2> HIDE DEF n
  <2>2. /\ c6[t] = 0 /\ c7[t] = "done" /\ c6'[t] = n /\ c2' = m /\ c3' = m /\ c9' = c9 /\ c10' = c10
        /\ c7' = c7 /\ c8' = c8 /\ c11 \subseteq c11'
        /\ c9[t] # Auth!Quiet \/ c10[t] # Auth!None => n \in c11'
        /\ c1' = [c1 EXCEPT ![n] = [now |-> c4 + 1, before |-> 0, alive |-> TRUE]]
    BY <1>2, <1>t DEF Auth!Login, n
  <2>3. /\ c1'[n] = [now |-> c4 + 1, before |-> 0, alive |-> TRUE]
        /\ \A s \in Auth!Sessions \ {n} : c1'[s] = c1[s]
    BY ONLY <1>t, <2>1, <2>2
  <2>4. n \in Auth!Created' /\ Auth!Created \subseteq Auth!Created' /\ Auth!Created' \subseteq Auth!Created \union {n}
    BY ONLY <2>1, <2>3 DEF Auth!Created, Auth!Sessions
  <2>5. \A k \in {c2', c3', c9'[t].with} : k.s # 0 => k.s \in Auth!Created'
    BY <2>2, <2>4 DEF Auth!SignedIn
  <2>6. \A s \in Auth!Created' : s \in c11' \/ c6'[t] = s
    <3>1. \A s \in Auth!Created : s # 0
      BY DEF Auth!Created, Auth!Sessions
    <3> QED
      BY <3>1, <2>2, <2>4 DEF Auth!SignedIn
  <2>7. n \notin c11' => Auth!Renewable(t)'
    BY <2>2, <2>3 DEF Auth!Renewable, Auth!Own
  <2> QED
    BY <2>2, <2>4, <2>5, <2>6, <2>7 DEF Auth!SignedIn
<1>3. CASE Auth!Logout(t)
  BY <1>3, <1>t DEF Auth!Logout, Auth!SignedIn, Auth!Created,
       Auth!Renewable, Auth!Own, Auth!None, Auth!Quiet, Auth!Idle
<1>4. CASE Auth!Reload(t)
  BY <1>4, <1>t DEF Auth!Reload, Auth!SignedIn, Auth!Created,
       Auth!Renewable, Auth!Own, Auth!None, Auth!Quiet, Auth!Idle
<1>5. CASE Auth!Exchange(t)
  <2> DEFINE k == c9[t].with
  <2>1. k.s # 0 => k.s \in Auth!Sessions /\ c1[k.s].now # 0
    BY DEF Auth!SignedIn, Auth!Created
  <2>2. CASE Auth!Active(k)
    <3>1. /\ c1' = [c1 EXCEPT ![k.s].before = k.n, ![k.s].now = c4 + 1]
          /\ c9' = [c9 EXCEPT ![t] = [st |-> "renewed", with |-> [s |-> k.s, n |-> c4 + 1]]]
      BY <1>5, <2>2 DEF Auth!Exchange
    <3>2. k.s \in Auth!Sessions /\ k.s # 0 /\ c4 + 1 # 0
      BY <1>t, <2>1, <2>2 DEF Auth!Active
    <3>3. /\ \A s \in Auth!Sessions \ {k.s} : c1'[s] = c1[s]
          /\ c1'[k.s].now = c4 + 1 /\ c1'[k.s].alive = c1[k.s].alive
      BY <1>t, <3>1, <3>2 DEF Auth!Rows
    <3>4. Auth!Created' = Auth!Created
      <4>1. c1[k.s].now # 0 /\ c1'[k.s].now # 0
        BY <2>1, <3>2, <3>3
      <4> HIDE DEF k
      <4> QED
        BY <4>1, <3>3 DEF Auth!Created, Auth!Sessions
    <3>5. c9'[t] = [st |-> "renewed", with |-> [s |-> k.s, n |-> c4 + 1]]
      BY <1>t, <3>1
    <3>6. UNCHANGED <<c2, c3, c6, c7, c8, c10, c11>>
      BY <1>5 DEF Auth!Exchange
    <3>7. c6[t] # 0 /\ c6[t] \notin c11 => Auth!Renewable(t)'
      <4> SUFFICES ASSUME c6[t] # 0, c6[t] \notin c11 PROVE Auth!Renewable(t)'
        OBVIOUS
      <4>1. Auth!Renewable(t) /\ c9[t].st = "sent"
        BY <1>5 DEF Auth!SignedIn, Auth!Exchange
      <4>2. k.s = c6[t]
        BY <4>1 DEF Auth!Renewable, Auth!Own, Auth!Quiet
      <4> QED
        BY <3>3, <3>5, <3>6, <4>1, <4>2 DEF Auth!Renewable, Auth!Own, Auth!Quiet
    <3> QED
      BY <2>1, <3>2, <3>4, <3>5, <3>6, <3>7 DEF Auth!SignedIn
  <2>3. CASE ~ Auth!Active(k)
    <3>1. /\ c1' = IF Auth!Replayed(k) THEN Auth!Revoked(k) ELSE c1
          /\ c9' = [c9 EXCEPT ![t].st = "refused"]
          /\ UNCHANGED <<c2, c3, c6, c7, c8, c10, c11>>
      BY <1>5, <2>3 DEF Auth!Exchange
    <3>2. ~ (c6[t] # 0 /\ c6[t] \notin c11)
      BY <1>5, <2>3 DEF Auth!SignedIn, Auth!Exchange, Auth!Renewable, Auth!Own, Auth!Quiet, Auth!Active
    <3>3. \A s \in Auth!Sessions : c1'[s].now = c1[s].now
      BY <1>t, <3>1 DEF Auth!Revoked, Auth!Rows
    <3>4. Auth!Created' = Auth!Created
      BY <3>3 DEF Auth!Created
    <3>5. c9'[t].with = k
      BY <1>t, <3>1 DEF Auth!Flights
    <3> QED
      BY <3>1, <3>2, <3>4, <3>5 DEF Auth!SignedIn
  <2> QED
    BY <2>2, <2>3
<1>6. CASE Auth!LogoutServed(t)
  <2> DEFINE k == c10[t]
  <2>1. /\ c1' = IF Auth!Active(k) \/ Auth!Replayed(k) THEN Auth!Revoked(k) ELSE c1
        /\ c2' = Auth!None
        /\ UNCHANGED <<c3, c6, c7, c8, c9, c11>>
    BY <1>6 DEF Auth!LogoutServed
  <2>2. ~ (c6[t] # 0 /\ c6[t] \notin c11)
    BY <1>6 DEF Auth!LogoutServed, Auth!SignedIn, Auth!Renewable
  <2>3. \A s \in Auth!Sessions : c1'[s].now = c1[s].now
    BY <1>t, <2>1 DEF Auth!Revoked, Auth!Rows
  <2>4. Auth!Created' = Auth!Created
    BY <2>3 DEF Auth!Created
  <2>5. Auth!None.s = 0
    BY DEF Auth!None
  <2> QED
    BY <2>1, <2>2, <2>4, <2>5 DEF Auth!SignedIn
<1>7. CASE Auth!Refreshed(t)
  <2> DEFINE k == c9[t].with
  <2>1. /\ c2' = k /\ c3' = k /\ c9'[t] = Auth!Quiet
        /\ UNCHANGED <<c1, c10, c11>>
        /\ IF c7[t] = "refresh" THEN c6'[t] = k.s /\ c7'[t] = "done" ELSE UNCHANGED <<c6, c7>>
    BY <1>7, <1>t DEF Auth!Refreshed
  <2>2. \A c \in Calls : c8[t][c] = Auth!Idle => c8'[t][c] = Auth!Idle
    BY <1>7, <1>t DEF Auth!Refreshed, Auth!Idle
  <2>3. Auth!Created' = Auth!Created
    BY <2>1 DEF Auth!Created
  <2>4. c6[t] # 0 /\ c6[t] \notin c11 => k = Auth!Own(c6[t])
    BY <1>7 DEF Auth!SignedIn, Auth!Renewable, Auth!Refreshed, Auth!Quiet
  <2>5. c6[t] # 0 /\ c6[t] \notin c11 => k.s = c6[t] /\ c6'[t] = c6[t] /\ Auth!Renewable(t)'
    <3> SUFFICES ASSUME c6[t] # 0, c6[t] \notin c11
                 PROVE  k.s = c6[t] /\ c6'[t] = c6[t] /\ Auth!Renewable(t)'
      OBVIOUS
    <3>1. k = Auth!Own(c6[t]) /\ k.s = c6[t] /\ c6'[t] = c6[t]
      BY <2>1, <2>4 DEF Auth!Own
    <3>2. Auth!Renewable(t)
      BY DEF Auth!SignedIn
    <3>3. c7'[t] # "refresh"
      BY <2>1
    <3> HIDE DEF k
    <3> QED
      BY <2>1, <3>1, <3>2, <3>3 DEF Auth!Renewable, Auth!Own
  <2>6. c6'[t] \in {c6[t], k.s}
    BY <2>1
  <2>7. Auth!Quiet.with.s = 0
    BY DEF Auth!Quiet, Auth!None
  <2>8. k.s # 0 => k.s \in Auth!Created
    BY DEF Auth!SignedIn
  <2>9. c7'[t] # "done" => c7[t] # "done"
    BY <2>1
  <2> HIDE DEF k
  <2>10. \A s \in Auth!Created : s \in c11 \/ c6'[t] = s
    BY <2>5, <2>6 DEF Auth!SignedIn, Auth!Created, Auth!Sessions
  <2>11. c6'[t] # 0 => c6'[t] \in Auth!Created
    BY <2>6, <2>8 DEF Auth!SignedIn
  <2>12. c6'[t] # 0 /\ c6'[t] \notin c11 => Auth!Renewable(t)'
    BY <2>5, <2>11 DEF Auth!SignedIn
  <2> QED
    BY <2>1, <2>2, <2>3, <2>5, <2>7, <2>8, <2>9, <2>10, <2>11, <2>12 DEF Auth!SignedIn
<1>8. CASE Auth!NotRefreshed(t)
  BY <1>8, <1>t DEF Auth!NotRefreshed, Auth!SignedOut, Auth!SignedIn, Auth!Created,
       Auth!Renewable, Auth!Own, Auth!None, Auth!Quiet, Auth!Idle
<1>9. CASE Auth!Resolved(t)
  <2>1. UNCHANGED <<c1, c2, c8, c10, c11>> /\ Auth!Created' = Auth!Created /\ c7[t] = "me"
    BY <1>9 DEF Auth!Resolved, Auth!Created
  <2>2. CASE Auth!Valid(c3)
    <3>1. /\ c6'[t] = c3.s /\ c7'[t] = "done" /\ UNCHANGED <<c3, c9>>
      BY <1>9, <1>t, <2>2 DEF Auth!Resolved
    <3>2. c6[t] # 0 /\ c6[t] \notin c11 => c3.s = c6[t] /\ Auth!Renewable(t)
      BY <2>1 DEF Auth!SignedIn, Auth!Renewable
    <3>3. c6[t] # 0 /\ c6[t] \notin c11 => Auth!Renewable(t)'
      BY <2>1, <3>1, <3>2 DEF Auth!Renewable, Auth!Own
    <3>4. c3.s # 0 => c3.s \in Auth!Created
      BY DEF Auth!SignedIn
    <3>5. \A s \in Auth!Created : s \in c11 \/ c6'[t] = s
      BY <3>1, <3>2 DEF Auth!SignedIn, Auth!Created, Auth!Sessions
    <3>6. c6'[t] # 0 /\ c6'[t] \notin c11 => Auth!Renewable(t)'
      BY <3>1, <3>3, <3>4 DEF Auth!SignedIn
    <3> QED
      BY <2>1, <3>1, <3>2, <3>4, <3>5, <3>6 DEF Auth!SignedIn
  <2>3. CASE ~ Auth!Valid(c3)
    <3>1. c3' = Auth!None /\ c6' = c6 /\ c7'[t] = "refresh" /\ Auth!Refreshing(t)
      BY <1>9, <1>t, <2>3 DEF Auth!Resolved
    <3>2. IF c9[t] = Auth!Quiet THEN c9'[t] = [st |-> "sent", with |-> c2] ELSE c9'[t] = c9[t]
      BY <1>t, <3>1 DEF Auth!Refreshing
    <3>3. Auth!None.s = 0 /\ [st |-> "sent", with |-> c2] # Auth!Quiet
      BY DEF Auth!None, Auth!Quiet
    <3>4. c6[t] # 0 /\ c6[t] \notin c11 => Auth!Renewable(t)'
      <4> SUFFICES ASSUME Auth!Renewable(t) PROVE Auth!Renewable(t)'
        BY DEF Auth!SignedIn
      <4>1. c9'[t] # Auth!Quiet
        BY <3>2, <3>3
      <4>2. \/ c9[t] = Auth!Quiet /\ c9'[t].st = "sent" /\ c9'[t].with = c2
            \/ c9'[t] = c9[t]
        BY <3>2
      <4>3. c7'[t] = "refresh" /\ c6'[t] = c6[t] /\ c2' = c2 /\ c1' = c1 /\ c10' = c10
        BY <2>1, <3>1
      <4> QED
        BY ONLY <4>1, <4>2, <4>3, Auth!Renewable(t) DEF Auth!Renewable, Auth!Own, Auth!Quiet
    <3> QED
      BY <2>1, <3>1, <3>2, <3>3, <3>4 DEF Auth!SignedIn
  <2> QED
    BY <2>2, <2>3
<1>10. ASSUME NEW c \in Calls, Auth!Ask(t, c) \/ Auth!Succeeds(t, c)
       PROVE  Stays(t)
  BY <1>10, <1>t DEF Auth!Ask, Auth!Succeeds, Auth!SignedIn, Auth!Created,
       Auth!Renewable, Auth!Own, Auth!None, Auth!Quiet, Auth!Idle
<1>11. CASE UNCHANGED Auth!aVars
  BY <1>11 DEF Auth!aVars, Auth!SignedIn, Auth!Created,
       Auth!Renewable, Auth!Own, Auth!None, Auth!Quiet, Auth!Idle
<1>12. ASSUME NEW c \in Calls, Auth!Refused(t, c)
       PROVE  Stays(t)
  BY <1>12, <1>t DEF Auth!Refused, Auth!Refreshing, Auth!SignedOut, Auth!Valid, Auth!SignedIn, Auth!Created,
       Auth!Renewable, Auth!Own, Auth!None, Auth!Quiet, Auth!Idle
<1> QED
  BY <1>1, <1>2, <1>3, <1>4, <1>5, <1>6, <1>7, <1>8, <1>9, <1>10, <1>11, <1>12
     DEF Auth!Next, Auth!Network, AuthFits

LEMMA AuthBegins == ASSUME AuthFits, Auth!Init PROVE Auth!AuthTypeOK
BY AuthBlank DEF Auth!Init, Auth!AuthTypeOK, Auth!Rows

(* However the requests of a page expire and its renewals are answered, it  *)
(* goes on showing the user who signed in. With two pages it would not: one *)
(* of them may still show its login form when the other has signed in.      *)
THEOREM UserStays == ASSUME AuthFits PROVE Spec => StaysSignedIn
<1> DEFINE I == focus = "session" => /\ Auth!AuthTypeOK
                                     /\ \A t \in SignedTabs : Auth!SignedIn(t)
<1>1. Init => I
  <2>1. Auth!Init => Auth!AuthTypeOK
    BY AuthBegins
  <2>2. ASSUME Auth!Init, NEW t \in SignedTabs PROVE Auth!SignedIn(t)
    BY <2>2 DEF Auth!Init, Auth!SignedIn, Auth!Created, Auth!None, Auth!Quiet
  <2> QED
    BY <2>1, <2>2 DEF Init
<1>2. I /\ [Next]_vars => I' /\ [focus = "session" => Auth!KeepsItsUser]_vars
  <2> SUFFICES ASSUME I, [Next]_vars PROVE I' /\ [focus = "session" => Auth!KeepsItsUser]_vars
    OBVIOUS
  <2>1. focus' = focus
    BY OnePart
  <2>2. CASE focus = "session"
    <3>1. [Auth!Next]_(Auth!aVars)
      BY <2>2, OnePart DEF vars, Auth!aVars
    <3>2. Auth!AuthTypeOK'
      BY <2>2, <3>1, AuthTypes
    <3> QED
      BY <2>1, <2>2, <3>1, <3>2, AuthStep DEF Stays, Auth!KeepsItsUser
  <2> QED
    BY <2>1, <2>2
<1> QED
  BY <1>1, <1>2, PTL DEF Spec, StaysSignedIn

-----------------------------------------------------------------------------
(* The position in the track that plays: c1 cur, c2 el, c3 shown, c8 saved  *)

PositionsKept ==
  /\ c3 = [at |-> c3.at, known |-> c3.known]
  /\ c8 = [b \in Audiobooks |-> c8[b]]
  /\ Audio!ShowsItself /\ Audio!SavesItself

(* A save writes what is shown, which is the position of the track it is    *)
(* for.                                                                     *)
LEMMA Saving ==
  ASSUME PositionsKept, Audio!Save(c1)
  PROVE  c8' = [b \in Audiobooks |-> c8'[b]] /\ Audio!SavesItself'
BY DEF PositionsKept, Audio!Save, Audio!ShowsItself, Audio!SavesItself

LEMMA ListeningStep ==
  ASSUME PositionsKept, [Audio!Next]_(Audio!lVars)
  PROVE  PositionsKept'
<1> USE DEF PositionsKept, Audio!ShowsItself
<1>1. ASSUME NEW t, NEW r, Audio!Change(t, r)
      PROVE  PositionsKept'
  BY <1>1, Saving DEF Audio!Change, Audio!At
<1>2. ASSUME NEW t, NEW p, Audio!PlayTrackAt(t, p)
      PROVE  PositionsKept'
  BY <1>1, <1>2 DEF Audio!PlayTrackAt, Audio!SavesItself
<1>3. CASE Audio!Source
  <2>1. ASSUME NEW t, Audio!Load(t) PROVE PositionsKept'
    BY <1>1, <2>1 DEF Audio!Load
  <2>2. CASE Audio!Retitled
    BY <2>2, Saving DEF Audio!Retitled
  <2>3. CASE Audio!Close
    BY <2>3, Saving DEF Audio!Close
  <2> QED
    BY <1>3, <1>2, <2>1, <2>2, <2>3 DEF Audio!Source, Audio!AudioPage, Audio!Chapters
<1>4. CASE Audio!Looked \/ Audio!LookedUp \/ Audio!Plays
  BY <1>4 DEF Audio!Looked, Audio!LookedUp, Audio!Plays, Audio!SavesItself
<1>5. CASE Audio!Loaded
  BY <1>5 DEF Audio!Loaded, Audio!SavesItself
<1>6. CASE Audio!TimeUpdate
  BY <1>6 DEF Audio!TimeUpdate, Audio!SavesItself, Audio!At
<1>7. CASE Audio!Hotkeys
  BY <1>7, Saving DEF Audio!Hotkeys, Audio!Seek, Audio!Pause, Audio!Unpause, Audio!SavesItself
<1>8. CASE Audio!SleepTimer
  BY <1>8 DEF Audio!SleepTimer, Audio!SetSleep, Audio!SavesItself
<1>9. CASE Audio!SaveTick
  BY <1>9, Saving DEF Audio!SaveTick
<1>10. CASE Audio!BookPage
  <2>1. ASSUME NEW b, Audio!ResetStart(b) PROVE PositionsKept'
    BY <2>1 DEF Audio!ResetStart, Audio!SavesItself
  <2>2. CASE Audio!ResetEnd
    BY <2>2 DEF Audio!ResetEnd, Audio!SavesItself
  <2>3. ASSUME NEW t, Audio!Load(t) PROVE PositionsKept'
    BY <1>1, <2>3 DEF Audio!Load
  <2> QED
    BY <1>10, <1>2, <2>1, <2>2, <2>3 DEF Audio!BookPage, Audio!Chapters
<1>11. CASE UNCHANGED Audio!lVars
  BY <1>11 DEF Audio!lVars, Audio!SavesItself
<1> QED
  BY <1>3, <1>4, <1>5, <1>6, <1>7, <1>8, <1>9, <1>10, <1>11
     DEF Audio!Next, Audio!Reports, Audio!Controls

(* However tracks change while positions are still looked up and saved, no  *)
(* book is saved at a position of another: the time shown is always one of  *)
(* the current track, and only that is saved.                               *)
THEOREM BooksSaveThemselves == Spec => []SavesItself
<1> DEFINE I == focus = "listening" => PositionsKept
<1>1. Init => I
  BY DEF Init, Audio!Init, PositionsKept, Audio!ShowsItself, Audio!SavesItself
<1>2. I /\ [Next]_vars => I'
  BY OnePart, ListeningStep DEF vars, Audio!lVars
<1>3. I => SavesItself
  BY DEF SavesItself, PositionsKept
<1> QED
  BY <1>1, <1>2, <1>3, PTL DEF Spec

-----------------------------------------------------------------------------
(* The soundboard: c1 pads, c2 loop, c3 registered, c4 sounding, c5 reports, *)
(* c6 marked, c7 loading                                                    *)

BoardsFit == Boards \subseteq Seq(Sounds) /\ IsFiniteSet(Sounds)

BoardKept ==
  /\ c1 \in Seq(Sounds) /\ c3 \subseteq Sounds
  /\ c5 \in [Sounds -> Seq({"on", "off"})]
  /\ Board!SoundReachable /\ Board!LastReport /\ Board!SoundShown

(* A sound put among the pads.                                              *)
LEMMA InsertedPad ==
  ASSUME NEW p \in Seq(Sounds), NEW at \in 1..(Len(p) + 1), NEW x \in Sounds
  PROVE  /\ QueueP!InsertAt(p, at, x) \in Seq(Sounds)
         /\ Len(QueueP!InsertAt(p, at, x)) = Len(p) + 1
         /\ \A k \in 1..(Len(p) + 1) : QueueP!InsertAt(p, at, x)[k] =
              IF k < at THEN p[k] ELSE IF k = at THEN x ELSE p[k - 1]
<1>1. QueueP!InsertAt(p, at, x) \in Seq(Sounds)
  BY QueueP!InsertAtEntries
<1>2. Len(QueueP!InsertAt(p, at, x)) = Len(p) + 1
  BY QueueP!InsertAtEntries
<1>3. \A k \in 1..(Len(p) + 1) : QueueP!InsertAt(p, at, x)[k] =
        IF k < at THEN p[k] ELSE IF k = at THEN x ELSE p[k - 1]
  BY QueueP!InsertAtEntry
<1> QED
  BY <1>1, <1>2, <1>3

(* A pad that is moved takes none away.                                     *)
LEMMA MovedPad ==
  ASSUME NEW l \in Seq(Sounds), NEW i \in DOMAIN l, NEW j \in DOMAIN l
  PROVE  LET m == Board!InsertAt(Board!RemoveAt(l, i), j, l[i])
         IN m \in Seq(Sounds) /\ Board!ToSet(l) \subseteq Board!ToSet(m)
<1> DEFINE r == QueueP!RemoveAt(l, i)
           m == QueueP!InsertAt(r, j, l[i])
<1>0. Len(l) \in Nat /\ i \in 1..Len(l) /\ j \in 1..Len(l) /\ l[i] \in Sounds
  BY LenProperties, ElementOfSeq
<1>1. /\ r \in Seq(Sounds) /\ Len(r) = Len(l) - 1
      /\ \A k \in 1..(Len(l) - 1) : r[k] = IF k < i THEN l[k] ELSE l[k + 1]
  BY <1>0, QueueP!RemoveAtEntries
<1> HIDE DEF r
<1>2. j \in 1..(Len(r) + 1)
  BY <1>0, <1>1
<1>3. /\ m \in Seq(Sounds) /\ Len(m) = Len(r) + 1
      /\ \A k \in 1..(Len(r) + 1) :
           m[k] = IF k < j THEN r[k] ELSE IF k = j THEN l[i] ELSE r[k - 1]
  <2> DEFINE e == l[i]
  <2>1. r \in Seq(Sounds) /\ e \in Sounds
    BY <1>0, <1>1
  <2> HIDE DEF e
  <2>2. m = QueueP!InsertAt(r, j, e)
    BY DEF e
  <2> HIDE DEF m
  <2>3. /\ QueueP!InsertAt(r, j, e) \in Seq(Sounds)
        /\ Len(QueueP!InsertAt(r, j, e)) = Len(r) + 1
        /\ \A k \in 1..(Len(r) + 1) : QueueP!InsertAt(r, j, e)[k] =
             IF k < j THEN r[k] ELSE IF k = j THEN e ELSE r[k - 1]
    BY ONLY <1>2, <2>1, InsertedPad
  <2> QED
    BY ONLY <2>2, <2>3 DEF e
<1>4. m = Board!InsertAt(Board!RemoveAt(l, i), j, l[i])
  BY DEF r, QueueP!InsertAt, QueueP!RemoveAt, Board!InsertAt, Board!RemoveAt
<1> HIDE DEF m
<1>5. ASSUME NEW k \in 1..Len(l)
      PROVE  \E h \in 1..Len(m) : m[h] = l[k]
  <2>1. CASE k = i
    <3>1. j \in 1..Len(m) /\ m[j] = l[k]
      BY <1>0, <1>1, <1>3, <2>1
    <3> QED
      BY <3>1
  <2>2. CASE k # i
    <3> DEFINE g == IF k < i THEN k ELSE k - 1
               h == IF g < j THEN g ELSE g + 1
    <3>1. g \in 1..(Len(l) - 1) /\ r[g] = l[k]
      BY <1>0, <1>1, <2>2
    <3> HIDE DEF g
    <3>2. h \in 1..Len(m) /\ m[h] = r[g]
      BY <1>0, <1>1, <1>3, <3>1
    <3> QED
      BY <3>1, <3>2
  <2> QED
    BY <2>1, <2>2
<1>6. DOMAIN l = 1..Len(l) /\ DOMAIN m = 1..Len(m)
  BY <1>3, LenProperties
<1>7. Board!ToSet(l) \subseteq Board!ToSet(m)
  BY ONLY <1>5, <1>6 DEF Board!ToSet
<1> QED
  BY <1>3, <1>4, <1>7

(* A pad that is taken out takes no other away.                             *)
LEMMA RemovedPad ==
  ASSUME NEW l \in Seq(Sounds), NEW i \in DOMAIN l
  PROVE  /\ Board!RemoveAt(l, i) \in Seq(Sounds)
         /\ Board!ToSet(l) \ {l[i]} \subseteq Board!ToSet(Board!RemoveAt(l, i))
<1> DEFINE r == QueueP!RemoveAt(l, i)
<1>0. Len(l) \in Nat /\ DOMAIN l = 1..Len(l) /\ i \in 1..Len(l)
  BY LenProperties
<1>1. /\ r \in Seq(Sounds) /\ Len(r) = Len(l) - 1
      /\ \A k \in 1..(Len(l) - 1) : r[k] = IF k < i THEN l[k] ELSE l[k + 1]
  BY <1>0, QueueP!RemoveAtEntries
<1>2. r = Board!RemoveAt(l, i)
  BY DEF QueueP!RemoveAt, Board!RemoveAt
<1> HIDE DEF r
<1>3. ASSUME NEW k \in 1..Len(l), k # i
      PROVE  \E h \in 1..Len(r) : r[h] = l[k]
  <2> DEFINE h == IF k < i THEN k ELSE k - 1
  <2>1. h \in 1..Len(r) /\ r[h] = l[k]
    BY <1>0, <1>1, <1>3
  <2> QED
    BY <2>1
<1>4. DOMAIN r = 1..Len(r)
  BY <1>1, LenProperties
<1>5. Board!ToSet(l) \ {l[i]} \subseteq Board!ToSet(r)
  BY ONLY <1>0, <1>3, <1>4 DEF Board!ToSet
<1> QED
  BY <1>1, <1>2, <1>5

(* Neither do the pads that are put behind them.                            *)
LEMMA AddedPads ==
  ASSUME BoardsFit, NEW l \in Seq(Sounds), NEW S \in SUBSET Sounds
  PROVE  /\ l \o Board!SetToSeq(S) \in Seq(Sounds)
         /\ Board!ToSet(l) \subseteq Board!ToSet(l \o Board!SetToSeq(S))
<1> DEFINE n == Cardinality(S)
           f == Board!SetToSeq(S)
<1>1. IsFiniteSet(S) /\ n \in Nat /\ ExistsBijection(1..n, S)
  BY FS_Subset, FS_CardinalityType DEF BoardsFit
<1>2. Board!Cardinality(S) = n
  BY DEF Board!Cardinality, Cardinality
<1>3. \E g \in [1..n -> S] : Board!IsInjective(g)
  BY <1>1 DEF ExistsBijection, Bijection, Injection, IsInjective, Board!IsInjective
<1>4. f \in [1..n -> S]
  BY <1>2, <1>3 DEF Board!SetToSeq
<1> HIDE DEF f
<1>5. f \in Seq(Sounds)
  <2>1. f \in Seq(S)
    BY <1>1, <1>4, SeqDef
  <2> QED
    BY <2>1, <1>4, <1>1, SeqDef
<1>6. /\ l \o f \in Seq(Sounds) /\ Len(l \o f) = Len(l) + Len(f)
      /\ \A k \in 1..Len(l) : (l \o f)[k] = l[k]
  BY <1>5, ConcatProperties, LenProperties
<1>7. DOMAIN l = 1..Len(l) /\ DOMAIN (l \o f) = 1..(Len(l) + Len(f)) /\ Len(l) \in Nat /\ Len(f) \in Nat
  BY <1>5, <1>6, LenProperties
<1> QED
  BY <1>6, <1>7 DEF Board!ToSet, f

LEMMA AppendedLast ==
  ASSUME NEW S, NEW q \in Seq(S), NEW e \in S
  PROVE  /\ Append(q, e) \in Seq(S) /\ Append(q, e) # <<>>
         /\ Append(q, e)[Len(Append(q, e))] = e
<1>1. /\ Append(q, e) \in Seq(S) /\ Append(q, e) # <<>> /\ Len(Append(q, e)) = Len(q) + 1
      /\ Append(q, e)[Len(q) + 1] = e
  BY AppendProperties
<1> QED
  BY <1>1

(* Elements S are stopped: a sound that ends says so, and nothing else is   *)
(* said.                                                                    *)
LEMMA Silencing ==
  ASSUME BoardKept, NEW S, Board!Silence(S)
  PROVE  /\ c4' = c4 \ S /\ c5' \in [Sounds -> Seq({"on", "off"})] /\ Board!LastReport'
         /\ \A s \in Sounds : c5'[s] = <<>> => c5[s] = <<>> /\ s \notin S \intersect c4
<1> USE DEF BoardKept
<1>1. ASSUME NEW s \in Sounds, s \in S \intersect c4
      PROVE  /\ c5'[s] = Append(c5[s], "off") /\ c5'[s] \in Seq({"on", "off"})
             /\ c5'[s] # <<>> /\ c5'[s][Len(c5'[s])] = "off"
  <2>1. c5[s] \in Seq({"on", "off"}) /\ c5'[s] = Append(c5[s], "off")
    BY <1>1 DEF Board!Silence
  <2> QED
    BY ONLY <2>1, "off" \in {"on", "off"}, AppendedLast
<1>2. ASSUME NEW s \in Sounds, s \notin S \intersect c4
      PROVE  c5'[s] = c5[s]
  BY <1>2 DEF Board!Silence
<1>3. c4' = c4 \ S /\ c5' = [s \in Sounds |-> c5'[s]]
  BY DEF Board!Silence
<1>4. c5' \in [Sounds -> Seq({"on", "off"})]
  BY <1>1, <1>2, <1>3
<1>5. Board!LastReport'
  BY <1>1, <1>2, <1>3 DEF Board!LastReport
<1> QED
  BY <1>1, <1>2, <1>3, <1>4, <1>5

(* An element reports how it is now.                                        *)
LEMMA Saying ==
  ASSUME BoardKept, NEW s \in Sounds, NEW w \in {"on", "off"},
         c5' = [c5 EXCEPT ![s] = Append(@, w)],
         c4' = IF w = "on" THEN c4 \union {s} ELSE c4 \ {s}
  PROVE  /\ c5' \in [Sounds -> Seq({"on", "off"})] /\ Board!LastReport' /\ c5'[s] # <<>>
         /\ \A q \in Sounds \ {s} : c5'[q] = c5[q]
<1> USE DEF BoardKept
<1>1. /\ c5'[s] = Append(c5[s], w) /\ c5'[s] \in Seq({"on", "off"})
      /\ c5'[s] # <<>> /\ c5'[s][Len(c5'[s])] = w
  <2>1. c5[s] \in Seq({"on", "off"}) /\ c5'[s] = Append(c5[s], w)
    OBVIOUS
  <2> QED
    BY <2>1, AppendedLast
<1>2. \A q \in Sounds \ {s} : c5'[q] = c5[q]
  OBVIOUS
<1>3. c5' \in [Sounds -> Seq({"on", "off"})]
  BY <1>1, <1>2
<1> QED
  BY <1>1, <1>2, <1>3 DEF Board!LastReport

(* The board as it is replaced, or cleared.                                 *)
LEMMA Replacing ==
  ASSUME BoardKept, NEW b \in Seq(Sounds), Board!Replace(b)
  PROVE  BoardKept'
<1>1. c4' = {} /\ c3' = {} /\ c6' = {} /\ c1' = b
  BY Silencing DEF Board!Replace, BoardKept, Board!SoundReachable
<1>2. c5' \in [Sounds -> Seq({"on", "off"})] /\ Board!LastReport'
  BY Silencing DEF Board!Replace
<1> QED
  BY <1>1, <1>2 DEF BoardKept, Board!SoundReachable, Board!SoundShown

LEMMA BoardStep ==
  ASSUME BoardsFit, BoardKept, [Board!Next]_(Board!sVars)
  PROVE  BoardKept'
<1>1. ASSUME NEW s \in Sounds, Board!Toggle(s)
      PROVE  BoardKept'
  <2>1. CASE Board!Stop(s)
    <3>1. /\ Board!Silence({s} \intersect c3) /\ c6' = c6 \ {s} /\ c1' = c1 /\ c3' = c3
      BY <2>1 DEF Board!Stop
    <3> QED
      BY <3>1, Silencing DEF BoardKept, Board!SoundReachable, Board!SoundShown
  <2>2. CASE Board!Trigger(s)
    <3>1. s \in Board!ToSet(c1) /\ c1' = c1 /\ c3' = c3 \union {s} /\ c6' = c6
      BY <1>1, <2>2 DEF Board!Toggle, Board!Trigger
    <3>2. PICK w \in {"on", "off"} : /\ c5' = [c5 EXCEPT ![s] = Append(@, w)]
                                     /\ c4' = IF w = "on" THEN c4 \union {s} ELSE c4 \ {s}
      BY <2>2 DEF Board!Trigger
    <3>3. /\ c5' \in [Sounds -> Seq({"on", "off"})] /\ Board!LastReport' /\ c5'[s] # <<>>
          /\ \A q \in Sounds \ {s} : c5'[q] = c5[q]
      BY <3>2, Saying
    <3>4. Board!SoundShown'
      BY <3>1, <3>2, <3>3 DEF BoardKept, Board!SoundShown
    <3>5. Board!SoundReachable'
      BY <3>1, <3>2 DEF BoardKept, Board!SoundReachable
    <3> QED
      BY <3>1, <3>3, <3>4, <3>5 DEF BoardKept
  <2> QED
    BY <1>1, <2>1, <2>2 DEF Board!Toggle
<1>2. ASSUME NEW s \in Sounds, Board!RemovePad(s)
      PROVE  BoardKept'
  <2>1. PICK i \in DOMAIN c1 : c1[i] = s /\ c1' = Board!RemoveAt(c1, i)
    BY <1>2 DEF Board!RemovePad
  <2>2. c1' \in Seq(Sounds) /\ Board!ToSet(c1) \ {s} \subseteq Board!ToSet(c1')
    BY <2>1, RemovedPad DEF BoardKept
  <2>3. Board!Silence({s} \intersect c3) /\ c6' = c6 \ {s} /\ c3' = c3 \ {s}
    BY <1>2 DEF Board!RemovePad
  <2>4. c4' = c4 \ {s}
    BY <2>3, Silencing DEF BoardKept, Board!SoundReachable
  <2>5. Board!SoundReachable'
    BY <2>2, <2>3, <2>4 DEF BoardKept, Board!SoundReachable
  <2>6. Board!SoundShown'
    BY <2>3, <2>4, Silencing DEF BoardKept, Board!SoundReachable, Board!SoundShown
  <2> QED
    BY <2>2, <2>3, <2>5, <2>6, Silencing DEF BoardKept
<1>3. ASSUME NEW s \in Sounds, Board!SetPadLoop(s)
      PROVE  BoardKept'
  BY <1>3 DEF Board!SetPadLoop, BoardKept, Board!SoundReachable, Board!SoundShown, Board!LastReport
<1>4. ASSUME NEW i, NEW j, Board!MovePad(i, j)
      PROVE  BoardKept'
  <2>1. c1' \in Seq(Sounds) /\ Board!ToSet(c1) \subseteq Board!ToSet(c1')
    BY <1>4, MovedPad DEF Board!MovePad, BoardKept
  <2>2. UNCHANGED <<c3, c4, c5, c6>>
    BY <1>4 DEF Board!MovePad
  <2> QED
    BY <2>1, <2>2 DEF BoardKept, Board!SoundReachable, Board!SoundShown, Board!LastReport
<1>5. CASE Board!StopAll
  <2>1. Board!Silence(c3) /\ c6' = {} /\ c1' = c1 /\ c3' = c3
    BY <1>5 DEF Board!StopAll
  <2> QED
    BY <2>1, Silencing DEF BoardKept, Board!SoundReachable, Board!SoundShown
<1>6. CASE Board!ClearPads
  <2>1. <<>> \in Seq(Sounds)
    OBVIOUS
  <2> QED
    BY <1>6, <2>1, Replacing DEF Board!ClearPads
<1>7. ASSUME NEW b \in Boards, Board!RequestLoad(b) \/ Board!LoadArrives(b)
      PROVE  BoardKept'
  <2>1. CASE Board!Replace(b)
    BY <2>1, Replacing DEF BoardsFit
  <2>2. CASE UNCHANGED <<c1, c3, c4, c5, c6>>
    BY <2>2 DEF BoardKept, Board!SoundReachable, Board!SoundShown, Board!LastReport
  <2> QED
    BY <1>7, <2>1, <2>2 DEF Board!RequestLoad, Board!LoadArrives
<1>8. CASE Board!Unmount
  <2>1. c4' = {} /\ c3' = {} /\ c6' = {} /\ c1' = c1 /\ c5' = [s \in Sounds |-> <<>>]
    BY <1>8 DEF Board!Unmount, BoardKept, Board!SoundReachable
  <2> QED
    BY <2>1 DEF BoardKept, Board!SoundReachable, Board!SoundShown, Board!LastReport
<1>9. ASSUME NEW S \in SUBSET Sounds, Board!AddPads(S)
      PROVE  BoardKept'
  <2>1. c1' \in Seq(Sounds) /\ Board!ToSet(c1) \subseteq Board!ToSet(c1')
    <3>1. S \ Board!ToSet(c1) \in SUBSET Sounds
      OBVIOUS
    <3> QED
      BY <1>9, <3>1, AddedPads DEF Board!AddPads, BoardKept
  <2>2. UNCHANGED <<c3, c4, c5, c6>>
    BY <1>9 DEF Board!AddPads
  <2> QED
    BY <2>1, <2>2 DEF BoardKept, Board!SoundReachable, Board!SoundShown, Board!LastReport
<1>10. ASSUME NEW s \in Sounds, Board!Ends(s)
       PROVE  BoardKept'
  <2>1. UNCHANGED <<c1, c3, c6>> /\ c4' = c4 \ {s} /\ c5' = [c5 EXCEPT ![s] = Append(@, "off")]
    BY <1>10 DEF Board!Ends
  <2>2. /\ c5' \in [Sounds -> Seq({"on", "off"})] /\ Board!LastReport' /\ c5'[s] # <<>>
        /\ \A q \in Sounds \ {s} : c5'[q] = c5[q]
    BY <2>1, Saying
  <2> QED
    BY <2>1, <2>2 DEF BoardKept, Board!SoundReachable, Board!SoundShown
<1>11. ASSUME NEW s \in Sounds, Board!Reports(s)
       PROVE  BoardKept'
  <2> DEFINE q == c5[s]
  <2>1. /\ UNCHANGED <<c1, c3, c4>> /\ q \in Seq({"on", "off"}) /\ q # <<>>
        /\ c5' = [c5 EXCEPT ![s] = Tail(@)]
        /\ c6' = IF Head(q) = "on" THEN c6 \union {s} ELSE c6 \ {s}
    BY <1>11 DEF Board!Reports, BoardKept
  <2>2. c5'[s] = Tail(q) /\ \A r \in Sounds \ {s} : c5'[r] = c5[r]
    BY <2>1 DEF BoardKept
  <2>3. q[Len(q)] = "on" <=> s \in c4
    BY <2>1 DEF BoardKept, Board!LastReport
  <2> HIDE DEF q
  <2>4. /\ Tail(q) \in Seq({"on", "off"})
        /\ Tail(q) # <<>> => Tail(q)[Len(Tail(q))] = q[Len(q)]
        /\ Tail(q) = <<>> => Head(q) = q[Len(q)]
    BY <2>1, HeadTailProperties, LenProperties, EmptySeq
  <2>5. c5' \in [Sounds -> Seq({"on", "off"})]
    BY <2>1, <2>4 DEF BoardKept, q
  <2>6. Board!LastReport'
    BY <2>1, <2>2, <2>3, <2>4 DEF BoardKept, Board!LastReport
  <2>7. Board!SoundShown'
    BY <2>1, <2>2, <2>3, <2>4 DEF BoardKept, Board!SoundShown
  <2> QED
    BY <2>1, <2>5, <2>6, <2>7 DEF BoardKept, Board!SoundReachable
<1>12. CASE UNCHANGED Board!sVars
  BY <1>12 DEF Board!sVars, BoardKept, Board!SoundReachable, Board!SoundShown, Board!LastReport
<1> QED
  BY <1>1, <1>2, <1>3, <1>4, <1>5, <1>6, <1>7, <1>8, <1>9, <1>10, <1>11, <1>12
     DEF Board!Next, Board!Panel, Board!Pad, Board!Shelf

LEMMA BoardBegins == Board!Init => BoardKept
<1>1. <<>> \in Seq(Sounds) /\ <<>> \in Seq({"on", "off"})
  OBVIOUS
<1> QED
  BY <1>1 DEF Board!Init, BoardKept, Board!SoundReachable, Board!SoundShown, Board!LastReport

LEMMA BoardAlways == ASSUME BoardsFit PROVE Spec => [](focus = "soundboard" => BoardKept)
<1>1. Init => (focus = "soundboard" => BoardKept)
  BY BoardBegins DEF Init
<1>2. (focus = "soundboard" => BoardKept) /\ [Next]_vars => (focus = "soundboard" => BoardKept)'
  BY OnePart, BoardStep DEF vars, Board!sVars
<1> QED
  BY <1>1, <1>2, PTL DEF Spec

(* Whatever is removed, replaced or unmounted while sounds start and end,   *)
(* a sound that is heard has an element the board can stop, and a pad.      *)
THEOREM HeardCanBeStopped == ASSUME BoardsFit PROVE Spec => []SoundReachable
<1>1. (focus = "soundboard" => BoardKept) => SoundReachable
  BY DEF BoardKept, SoundReachable
<1> QED
  BY <1>1, BoardAlways, PTL

(* Once an element has said all it has to say, its pad is shown as playing  *)
(* exactly when it is heard.                                                *)
THEOREM ShownIsHeard == ASSUME BoardsFit PROVE Spec => []SoundShown
<1>1. (focus = "soundboard" => BoardKept) => SoundShown
  BY DEF BoardKept, SoundShown
<1> QED
  BY <1>1, BoardAlways, PTL

-----------------------------------------------------------------------------
(* The uploads: c1 item, c2 waiting, c3 active, c4 running, c5 upload,      *)
(* c6 tries, c7 pumping                                                     *)

UploadsFit == IsFiniteSet(Files) /\ Concurrency \in Nat /\ MaxTries \in Nat

UploadsKept ==
  /\ Uploads!UploadTypeOK /\ Uploads!UploadsAccounted
  /\ Uploads!RequestsUnderWay /\ Uploads!WaitingHasTries

LEMMA SameOperators ==
  /\ \A S : Uploads!Cardinality(S) = Cardinality(S)
  /\ \A s : Uploads!ToSet(s) = Entries(s)
  /\ \A s : Uploads!IsInjective(s) = IsInjective(s)
BY DEF Uploads!Cardinality, Cardinality, Entries, Uploads!ToSet, Uploads!IsInjective, IsInjective

LEMMA SameFilter ==
  ASSUME NEW s, NEW keep
  PROVE  Uploads!Filtered(s, keep) = Filtered(s, keep)
BY DEF Uploads!Filtered, Filtered

(* What a pump may be called with: rows, a queue and requests that agree.   *)
Rows == [Files -> {"absent", "queued", "uploading", "done", "error", "cancelled"}]
Ready(st, w, a, n) ==
  /\ st \in Rows /\ w \in Seq(Files) /\ IsInjective(w)
  /\ a \subseteq Files /\ n = Cardinality(a) /\ n <= Concurrency
  /\ \A f \in Files : /\ st[f] = "uploading" <=> f \in a
                      /\ st[f] = "queued" <=> f \in Entries(w)
  /\ c5 \in [Files -> {"none", "sent", "stored", "refused"}]
  /\ c6 \in [Files -> 0..MaxTries] /\ \A f \in Entries(w) : c6[f] < MaxTries

(* A pump leaves them so.                                                   *)
LEMMA PumpKeeps ==
  ASSUME UploadsFit, NEW st, NEW w, NEW a, NEW n, Ready(st, w, a, n),
         Uploads!Pump(st, w, a, n), c7' \in BOOLEAN
  PROVE  UploadsKept'
<1> DEFINE room == IF n < Concurrency THEN Concurrency - n ELSE 0
           k == IF Len(w) < room THEN Len(w) ELSE room
           pre == SubSeq(w, 1, k)
           post == SubSeq(w, k + 1, Len(w))
           starts == Entries(pre)
<1>1. /\ c2' = post /\ c3' = a \union starts /\ c4' = n + k
      /\ c1' = [f \in Files |-> IF f \in starts THEN "uploading" ELSE st[f]]
      /\ c5' = [f \in Files |-> IF f \in starts THEN "sent" ELSE IF f \in a THEN c5[f] ELSE "none"]
      /\ c6' = [f \in Files |-> IF f \in starts THEN c6[f] + 1 ELSE c6[f]]
  BY SameOperators DEF Uploads!Pump
<1>2. IsFiniteSet(a) /\ n \in Nat /\ Concurrency \in Nat /\ n <= Concurrency
  BY FS_Subset, FS_CardinalityType DEF UploadsFit, Ready
<1>3. k \in 0..Len(w) /\ n + k <= Concurrency /\ k \in Nat
  BY <1>2, LenProperties DEF Ready
<1>4. /\ post \in Seq(Files) /\ IsInjective(post)
      /\ Entries(w) = starts \union Entries(post)
      /\ starts \intersect Entries(post) = {}
      /\ IsFiniteSet(starts) /\ Cardinality(starts) = k
  BY <1>3, CutArray DEF Ready
<1>5. Entries(w) \subseteq Files
  BY LenProperties DEF Ready, Entries
<1> HIDE DEF k, pre, post
<1>6. starts \subseteq Files /\ starts \intersect a = {}
  BY <1>4, <1>5 DEF Ready
<1>7. Cardinality(a \union starts) = n + k
  <2>1. Cardinality(a \intersect starts) = 0
    <3>1. a \intersect starts = {}
      BY <1>6
    <3> QED BY <3>1, FS_EmptySet
  <2>2. Cardinality(a \union starts) = Cardinality(a) + Cardinality(starts) - Cardinality(a \intersect starts)
    BY <1>2, <1>4, FS_Union
  <2>3. Cardinality(a) = n
    BY DEF Ready
  <2> HIDE DEF starts
  <2> QED BY <1>2, <1>3, <1>4, <2>1, <2>2, <2>3
<1>8. Uploads!UploadTypeOK'
  <2>1. c1' \in Rows
    BY <1>1 DEF Ready, Rows
  <2>2. c5' \in [Files -> {"none", "sent", "stored", "refused"}]
    BY <1>1 DEF Ready
  <2>3. c6' \in [Files -> 0..MaxTries]
    BY <1>1, <1>4 DEF Ready, UploadsFit
  <2>4. c2' \in Seq(Files) /\ c3' \subseteq Files /\ c4' \in Int
    BY <1>1, <1>2, <1>3, <1>4, <1>6 DEF Ready
  <2> QED BY <2>1, <2>2, <2>3, <2>4 DEF Uploads!UploadTypeOK, Uploads!Failed, Rows
<1>9. Uploads!UploadsAccounted'
  <2>1. c4' = Uploads!Cardinality(c3') /\ c4' <= Concurrency
    BY <1>1, <1>3, <1>7, SameOperators
  <2>2. \A f \in Files : (c1'[f] = "uploading" <=> f \in c3') /\ (c1'[f] = "queued" <=> f \in Entries(c2'))
    BY <1>1, <1>4, <1>6 DEF Ready
  <2>3. Uploads!IsInjective(c2') /\ Uploads!ToSet(c2') = Entries(c2')
    BY <1>1, <1>4, SameOperators
  <2> QED BY <2>1, <2>2, <2>3 DEF Uploads!UploadsAccounted
<1>10. Uploads!RequestsUnderWay'
  BY <1>1 DEF Uploads!RequestsUnderWay
<1>11. Uploads!WaitingHasTries'
  <2>1. Uploads!ToSet(c2') = Entries(post)
    BY <1>1, SameOperators
  <2> QED BY <1>1, <1>4, <1>5, <2>1 DEF Uploads!WaitingHasTries, Ready
<1> QED BY <1>8, <1>9, <1>10, <1>11 DEF UploadsKept

(* As things are, the pump may be called.                                   *)
LEMMA AsTheyAre ==
  ASSUME UploadsKept
  PROVE  /\ Ready(c1, c2, c3, c4) /\ c7 \in BOOLEAN
         /\ \A f \in Files : c5[f] # "none" => f \in c3
BY SameOperators DEF UploadsKept, Uploads!UploadTypeOK, Uploads!Failed, Uploads!UploadsAccounted,
   Uploads!WaitingHasTries, Uploads!RequestsUnderWay, Ready, Rows

(* A request is over, and its place taken.                                  *)
LEMMA OverKeeps ==
  ASSUME UploadsFit, UploadsKept, NEW f \in c3, NEW s \in {"done", "error", "cancelled"},
         Uploads!Over(f, s)
  PROVE  UploadsKept'
<1>1. /\ Ready(c1, c2, c3, c4) /\ c7 \in BOOLEAN
      /\ Uploads!Pump([c1 EXCEPT ![f] = s], c2, c3 \ {f}, c4 - 1) /\ c7' = c7
  BY AsTheyAre DEF Uploads!Over
<1>2. f \in Files /\ c1[f] = "uploading" /\ f \notin Entries(c2)
  BY <1>1 DEF Ready
<1>3. IsFiniteSet(c3) /\ c4 = Cardinality(c3) /\ c4 \in Nat
  BY <1>1, FS_Subset, FS_CardinalityType DEF Ready, UploadsFit
<1>4. c4 - 1 = Cardinality(c3 \ {f}) /\ c4 - 1 <= Concurrency
  <2>1. Cardinality(c3 \ {f}) = c4 - 1
    BY <1>3, FS_RemoveElement
  <2>2. c4 <= Concurrency /\ Concurrency \in Nat
    BY <1>1 DEF Ready, UploadsFit
  <2> QED BY <1>3, <2>1, <2>2
<1>5. Ready([c1 EXCEPT ![f] = s], c2, c3 \ {f}, c4 - 1)
  BY <1>1, <1>2, <1>4 DEF Ready, Rows
<1> QED BY <1>1, <1>5, PumpKeeps

(* Rows that failed are queued again, each once.                            *)
LEMMA RetryKeeps ==
  ASSUME UploadsFit, UploadsKept, NEW F \in SUBSET Files, Uploads!Retry(F)
  PROVE  UploadsKept'
<1> DEFINE more == Uploads!SetToSeq(F)
<1>1. /\ Ready(c1, c2, c3, c4) /\ \A f \in F : c1[f] \in {"error", "cancelled"} /\ c6[f] < MaxTries
      /\ c1' = [f \in Files |-> IF f \in F THEN "queued" ELSE c1[f]]
      /\ c2' = c2 \o more /\ c7' = TRUE /\ UNCHANGED <<c3, c4, c5, c6>>
  BY AsTheyAre DEF Uploads!Retry, Uploads!Failed
<1>2. more \in Seq(F) /\ Entries(more) = F /\ IsInjective(more)
  <2>1. IsFiniteSet(F)
    BY FS_Subset DEF UploadsFit
  <2>2. more = CHOOSE g \in [1..Cardinality(F) -> F] : IsInjective(g)
    BY SameOperators DEF Uploads!SetToSeq
  <2> HIDE DEF more
  <2> QED BY <2>1, <2>2, ListedSet
<1> HIDE DEF more
<1>3. more \in Seq(Files)
  BY <1>2, LenProperties
<1>4. Entries(c2) \intersect F = {}
  BY <1>1 DEF Ready
<1>5. c2' \in Seq(Files) /\ Entries(c2') = Entries(c2) \union F /\ IsInjective(c2')
  BY <1>1, <1>2, <1>3, <1>4, JoinArrays DEF Ready
<1>6. Ready(c1, c2, c3, c4)'
  BY <1>1, <1>5 DEF Ready, Rows
<1>7. UploadsKept /\ c7' \in BOOLEAN
  BY <1>1
<1> QED BY <1>1, <1>6, <1>7, SameOperators
     DEF UploadsKept, Uploads!UploadTypeOK, Uploads!Failed, Uploads!UploadsAccounted,
         Uploads!WaitingHasTries, Uploads!RequestsUnderWay, Ready, Rows

LEMMA CancelKeeps ==
  ASSUME UploadsFit, UploadsKept, NEW f \in Files, Uploads!Cancel(f)
  PROVE  UploadsKept'
<1>1. Ready(c1, c2, c3, c4) /\ c7 \in BOOLEAN
  BY AsTheyAre
<1>2. CASE f \in c3 /\ Uploads!Over(f, "cancelled")
  BY <1>2, OverKeeps
<1>3. CASE /\ c1[f] = "queued" /\ c1' = [c1 EXCEPT ![f] = "cancelled"]
           /\ c2' = Uploads!Filtered(c2, Files \ {f})
           /\ UNCHANGED <<c3, c4, c5, c6, c7>>
  <2>1. c2' = Filtered(c2, Files \ {f})
    BY <1>3, SameFilter
  <2>2. Entries(c2) \subseteq Files
    BY <1>1, LenProperties DEF Ready, Entries
  <2>3. c2' \in Seq(Files) /\ Entries(c2') = Entries(c2) \ {f} /\ IsInjective(c2')
    BY <1>1, <2>1, <2>2, FilterKeeps DEF Ready
  <2>4. Ready(c1, c2, c3, c4)'
    BY <1>1, <1>3, <2>3 DEF Ready, Rows
  <2> QED BY <1>1, <1>3, <2>4, SameOperators
       DEF UploadsKept, Uploads!UploadTypeOK, Uploads!Failed, Uploads!UploadsAccounted,
           Uploads!WaitingHasTries, Uploads!RequestsUnderWay, Ready, Rows
<1> QED BY <1>2, <1>3 DEF Uploads!Cancel

LEMMA UploadsStep ==
  ASSUME UploadsFit, UploadsKept, Uploads!Next \/ UNCHANGED Uploads!uVars
  PROVE  UploadsKept'
<1>0. /\ Ready(c1, c2, c3, c4) /\ c7 \in BOOLEAN
      /\ \A f \in Files : c5[f] # "none" => f \in c3
  BY AsTheyAre
<1>1. ASSUME NEW f \in Files, c6[f] < MaxTries, Uploads!Enqueue(f) PROVE UploadsKept'
  <2>1. /\ c1[f] = "absent" /\ c7' = c7
        /\ Uploads!Pump([c1 EXCEPT ![f] = "queued"], Append(c2, f), c3, c4)
    BY <1>1 DEF Uploads!Enqueue
  <2>2. f \notin Entries(c2) /\ f \notin c3
    BY <1>0, <2>1 DEF Ready
  <2>3. /\ Append(c2, f) \in Seq(Files) /\ Entries(Append(c2, f)) = Entries(c2) \union {f}
        /\ IsInjective(Append(c2, f))
    BY <1>0, <2>2, AppendEntry DEF Ready
  <2>4. Ready([c1 EXCEPT ![f] = "queued"], Append(c2, f), c3, c4)
    BY <1>0, <1>1, <2>2, <2>3 DEF Ready, Rows
  <2> QED BY <1>0, <2>1, <2>4, PumpKeeps
<1>2. ASSUME NEW f \in Files, Uploads!Stores(f) PROVE UploadsKept'
  BY <1>2 DEF Uploads!Stores, UploadsKept, Uploads!UploadTypeOK, Uploads!UploadsAccounted,
     Uploads!WaitingHasTries, Uploads!RequestsUnderWay
<1>3. ASSUME NEW f \in Files, Uploads!Answered(f) \/ Uploads!Lost(f) PROVE UploadsKept'
  <2>1. f \in c3 /\ \E s \in {"done", "error"} : Uploads!Over(f, s)
    BY <1>0, <1>3 DEF Uploads!Answered, Uploads!Lost
  <2> QED BY <2>1, OverKeeps
<1>4. CASE Uploads!DeferredPump
  BY <1>0, <1>4, PumpKeeps DEF Uploads!DeferredPump
<1>5. CASE Uploads!CancelAll
  <2>1. /\ c2' = <<>> /\ c3' = {} /\ c4' = c4 - Uploads!Cardinality(c3)
        /\ c1' = [f \in Files |-> IF c1[f] \in {"queued", "uploading"} THEN "cancelled" ELSE c1[f]]
        /\ c5' = [f \in Files |-> "none"] /\ UNCHANGED <<c6, c7>>
    BY <1>5 DEF Uploads!CancelAll
  <2>2. c4' = 0 /\ Cardinality({}) = 0
    <3>1. c4 = Cardinality(c3) /\ c4 \in Nat
      BY <1>0, FS_Subset, FS_CardinalityType DEF Ready, UploadsFit
    <3> QED BY <2>1, <3>1, SameOperators, FS_EmptySet
  <2>3. c2' \in Seq(Files) /\ Entries(c2') = {} /\ IsInjective(c2')
    BY <2>1 DEF Entries, IsInjective
  <2>4. Ready(c1, c2, c3, c4)'
    BY <1>0, <2>1, <2>2, <2>3 DEF Ready, Rows, UploadsFit
  <2> QED BY <1>0, <2>1, <2>4, SameOperators
       DEF UploadsKept, Uploads!UploadTypeOK, Uploads!Failed, Uploads!UploadsAccounted,
           Uploads!WaitingHasTries, Uploads!RequestsUnderWay, Ready, Rows
<1>6. CASE Uploads!ClearCompleted
  <2>1. /\ c1' = [f \in Files |-> IF c1[f] = "done" THEN "absent" ELSE c1[f]]
        /\ UNCHANGED <<c2, c3, c4, c5, c6, c7>>
    BY <1>6 DEF Uploads!ClearCompleted
  <2>2. Ready(c1, c2, c3, c4)'
    BY <1>0, <2>1 DEF Ready, Rows
  <2> QED BY <1>0, <2>1, <2>2, SameOperators
       DEF UploadsKept, Uploads!UploadTypeOK, Uploads!Failed, Uploads!UploadsAccounted,
           Uploads!WaitingHasTries, Uploads!RequestsUnderWay, Ready, Rows
<1>7. CASE UNCHANGED Uploads!uVars
  BY <1>7 DEF Uploads!uVars, UploadsKept, Uploads!UploadTypeOK, Uploads!UploadsAccounted,
     Uploads!WaitingHasTries, Uploads!RequestsUnderWay
<1>8. CASE Uploads!Panel
  BY <1>5, <1>6, <1>8, CancelKeeps, RetryKeeps DEF Uploads!Panel
<1> QED
  BY <1>1, <1>2, <1>3, <1>4, <1>7, <1>8 DEF Uploads!Next, Uploads!Drop, Uploads!Network

LEMMA UploadsBegin == ASSUME UploadsFit, Uploads!Init PROVE UploadsKept
<1>1. c2 = <<>> /\ c2 \in Seq(Files) /\ Entries(c2) = {} /\ IsInjective(c2)
  BY DEF Uploads!Init, Entries, IsInjective
<1>2. c3 = {} /\ c4 = 0 /\ Cardinality(c3) = 0
  BY FS_EmptySet DEF Uploads!Init
<1>3. Uploads!UploadTypeOK
  <2>0. 0 \in 0..MaxTries
    BY DEF UploadsFit
  <2>1. c6 \in [Files -> 0..MaxTries]
    BY <2>0 DEF Uploads!Init
  <2>4. c7 \in BOOLEAN
    BY Zenon DEF Uploads!Init
  <2>5. c4 \in Int /\ c3 \subseteq Files
    BY <1>2
  <2>2. c1 \in [Files -> {"absent", "queued", "uploading", "done"} \union Uploads!Failed]
    BY DEF Uploads!Init
  <2>3. c5 \in [Files -> {"none", "sent", "stored", "refused"}]
    BY DEF Uploads!Init
  <2> QED BY <1>1, <2>1, <2>2, <2>3, <2>4, <2>5 DEF Uploads!UploadTypeOK
<1>4. Uploads!ToSet(c2) = {} /\ Uploads!IsInjective(c2) /\ c4 = Uploads!Cardinality(c3)
  BY <1>1, <1>2, SameOperators
<1>5. c4 <= Concurrency
  BY <1>2 DEF UploadsFit
<1>6. c1 = [f \in Files |-> "absent"] /\ c5 = [f \in Files |-> "none"]
  BY DEF Uploads!Init
<1> QED
  BY <1>2, <1>3, <1>4, <1>5, <1>6
     DEF UploadsKept, Uploads!UploadsAccounted, Uploads!WaitingHasTries, Uploads!RequestsUnderWay

(* The count of requests, the rows and the queue agree, whatever is         *)
(* cancelled, lost and tried again while requests end.                      *)
THEOREM UploadsAgree == ASSUME UploadsFit PROVE Spec => []UploadsAccounted
<1>1. Init => (focus = "uploads" => UploadsKept)
  BY UploadsBegin DEF Init
<1>2. (focus = "uploads" => UploadsKept) /\ [Next]_vars => (focus = "uploads" => UploadsKept)'
  BY OnePart, UploadsStep DEF vars, Uploads!uVars
<1>3. (focus = "uploads" => UploadsKept) => UploadsAccounted
  BY DEF UploadsKept, UploadsAccounted
<1> QED
  BY <1>1, <1>2, <1>3, PTL DEF Spec

-----------------------------------------------------------------------------
(* The types of the parts                                                   *)

PlayerFits == End \in Nat /\ Resets \subseteq Audiobooks

(* Only a current track loads, and where its element is, is on some track.  *)
ListeningKept ==
  /\ Audio!ListeningTypeOK
  /\ c2.loaded => c1 # Audio!NoTrack
  /\ c1 # Audio!NoTrack => c2.at \in Audio!Positions

(* A position on a track.                                                   *)
LEMMA OnTrack ==
  /\ \A p \in 0..End, t \in Audio!Tracks : Audio!At(p, t) \in Audio!Positions
  /\ \A q \in Audio!Positions : q.pos \in 0..End /\ q.of \in Audio!Tracks
BY DEF Audio!At, Audio!Positions

Spots == Audio!Positions \union {Audio!Nothing}
Answers == Audio!Positions \union {Audio!Unknown, Audio!Nothing}
Marked == Audio!Tracks \union {Audio!NoTrack}
Players == [at : Spots, by : Audio!Causes, loaded : BOOLEAN]
Refs == [seek : Spots, skip : Marked, resolved : Marked, ready : Marked]
Saves == [Audiobooks -> Spots]

LEMMA ListeningTypes ==
  Audio!ListeningTypeOK <=>
    /\ c1 \in Marked /\ c2 \in Players /\ c3 \in [at : Spots, known : BOOLEAN]
    /\ c4 \in BOOLEAN /\ c5 \in Answers /\ c6 \in Answers /\ c7 \in Refs /\ c8 \in Saves
    /\ c9 \in [book : Resets, current : BOOLEAN] \union {Audio!NoReset}
    /\ c10 \in 0..End
BY DEF Audio!ListeningTypeOK, Spots, Answers, Marked, Players, Refs, Saves

LEMMA ListeningTypesNext ==
  Audio!ListeningTypeOK' <=>
    /\ c1' \in Marked /\ c2' \in Players /\ c3' \in [at : Spots, known : BOOLEAN]
    /\ c4' \in BOOLEAN /\ c5' \in Answers /\ c6' \in Answers /\ c7' \in Refs /\ c8' \in Saves
    /\ c9' \in [book : Resets, current : BOOLEAN] \union {Audio!NoReset}
    /\ c10' \in 0..End
BY DEF Audio!ListeningTypeOK, Spots, Answers, Marked, Players, Refs, Saves

(* A decision to resume leaves the element where it was, or at a position   *)
(* that was looked up.                                                      *)
LEMMA Deciding ==
  ASSUME NEW t \in Audio!Tracks, NEW r \in Refs, NEW value \in Answers, NEW known,
         NEW e \in Players, Audio!Decide(t, r, value, known, e)
  PROVE  /\ c7' \in Refs /\ c2' \in Players
         /\ c2'.loaded = e.loaded
         /\ e.at \in Audio!Positions => c2'.at \in Audio!Positions
<1>1. c7' \in Refs
  BY DEF Audio!Decide, Refs, Marked
<1>2. CASE c2' = e
  BY <1>1, <1>2
<1>3. CASE c2' = [e EXCEPT !.at = value, !.by = "resume"] /\ value # Audio!Unknown /\ value # Audio!Nothing
  <2>1. value \in Audio!Positions
    BY <1>3 DEF Answers
  <2>2. value \in Spots /\ "resume" \in Audio!Causes
    BY <2>1 DEF Spots, Audio!Causes
  <2>3. c2' \in Players
    BY <1>3, <2>2 DEF Players
  <2>4. c2'.loaded = e.loaded /\ c2'.at = value
    BY <1>3 DEF Players
  <2> QED
    BY <1>1, <2>1, <2>3, <2>4
<1> QED
  BY <1>2, <1>3 DEF Audio!Decide

LEMMA SavingTypes ==
  ASSUME Audio!ListeningTypeOK, NEW t, Audio!Save(t)
  PROVE  c8' \in Saves
BY ListeningTypes DEF Audio!Save, Saves

LEMMA ListeningKeeps ==
  ASSUME PlayerFits, ListeningKept, [Audio!Next]_(Audio!lVars)
  PROVE  ListeningKept'
<1>t. /\ c1 \in Marked /\ c2 \in Players /\ c3 \in [at : Spots, known : BOOLEAN]
      /\ c4 \in BOOLEAN /\ c5 \in Answers /\ c6 \in Answers /\ c7 \in Refs /\ c8 \in Saves
      /\ c9 \in [book : Resets, current : BOOLEAN] \union {Audio!NoReset}
      /\ c10 \in 0..End
      /\ c2.loaded => c1 # Audio!NoTrack
      /\ c1 # Audio!NoTrack => c1 \in Audio!Tracks /\ c2.at \in Audio!Positions
  BY ListeningTypes DEF ListeningKept, Marked
<1>n. /\ Audio!Nothing \in Spots /\ Audio!Nothing \in Answers /\ Audio!Unknown \in Answers
      /\ Audio!Tracks \subseteq Marked /\ Audio!NoTrack \in Marked
      /\ \A p \in 0..End, t \in Audio!Tracks : Audio!At(p, t) \in Spots
      /\ 0 \in 0..End /\ Audiobooks \subseteq Audio!Tracks /\ Resets \subseteq Audio!Tracks
      /\ {"load", "play", "resume", "jump", "reset"} \subseteq Audio!Causes
  BY OnTrack DEF PlayerFits, Spots, Answers, Marked, Audio!Tracks, Audio!Causes
<1> USE ListeningTypesNext DEF ListeningKept
<1>1. ASSUME NEW t \in Audio!Tracks, NEW r \in Refs, Audio!Change(t, r)
      PROVE  ListeningKept'
  <2> DEFINE e == [at |-> Audio!At(0, t), by |-> "load", loaded |-> FALSE]
  <2>0. Audio!At(0, t) \in Audio!Positions
    BY <1>n, OnTrack
  <2>1. e \in Players /\ ~e.loaded /\ e.at \in Audio!Positions /\ [at |-> Audio!At(0, t), known |-> FALSE] \in [at : Spots, known : BOOLEAN]
    BY <1>n, <2>0 DEF Players
  <2>2. Audio!Decide(t, r, c5, c3.known, e) /\ Audio!Save(c1)
    BY <1>1 DEF Audio!Change
  <2> HIDE DEF e
  <2>3. c7' \in Refs /\ c2' \in Players /\ ~c2'.loaded /\ c8' \in Saves /\ c2'.at \in Audio!Positions
    BY <1>t, <2>1, <2>2, Deciding, SavingTypes
  <2> QED
    BY <1>t, <1>n, <1>1, <2>1, <2>3 DEF Audio!Change
<1>2. ASSUME NEW t \in Audio!Tracks, NEW p \in 0..(End - 1), Audio!PlayTrackAt(t, p)
      PROVE  ListeningKept'
  <2>0. p \in 0..End /\ Audio!At(p, t) \in Audio!Positions /\ Audio!At(p, t) \in Spots
    BY <1>n, OnTrack DEF PlayerFits
  <2>1. CASE t = c1
    <3>1. c2' \in Players /\ c2'.at = Audio!At(p, t) /\ c2'.loaded = c2.loaded
      BY <1>t, <1>n, <1>2, <2>0, <2>1 DEF Audio!PlayTrackAt, Players
    <3> QED
      BY <1>t, <1>2, <2>0, <2>1, <3>1 DEF Audio!PlayTrackAt
  <2>2. CASE t # c1
    <3>1. [c7 EXCEPT !.seek = Audio!At(p, t), !.skip = t] \in Refs
      BY <1>t, <1>n, <2>0 DEF Refs
    <3> QED
      BY <1>1, <1>2, <2>2, <3>1 DEF Audio!PlayTrackAt
  <2> QED
    BY <2>1, <2>2
<1>3. ASSUME NEW t \in Audio!Tracks, Audio!Load(t)
      PROVE  ListeningKept'
  BY <1>t, <1>1, <1>3 DEF Audio!Load
<1>4. ASSUME NEW t \in Audio!Tracks, Audio!Chapters(t)
      PROVE  ListeningKept'
  BY <1>2, <1>4 DEF Audio!Chapters
<1>5. CASE Audio!Retitled
  <2>1. c1 \in Audio!Tracks /\ Audio!Decide(c1, c7, c5, c3.known, c2) /\ Audio!Save(c1)
    BY <1>t, <1>5 DEF Audio!Retitled, Marked
  <2>2. c7' \in Refs /\ c2' \in Players /\ c2'.loaded = c2.loaded /\ c8' \in Saves
        /\ (c2.at \in Audio!Positions => c2'.at \in Audio!Positions)
    BY <1>t, <2>1, Deciding, SavingTypes
  <2> QED
    BY <1>t, <1>5, <2>2 DEF Audio!Retitled
<1>6. CASE Audio!Close
  <2>1. c8' \in Saves
    BY <1>t, <1>6, SavingTypes DEF Audio!Close
  <2>2. c2' \in Players /\ ~c2'.loaded /\ c3' \in [at : Spots, known : BOOLEAN]
    BY <1>n, <1>6 DEF Audio!Close, Players
  <2> QED
    BY <1>t, <1>n, <1>6, <2>1, <2>2 DEF Audio!Close, Audio!Off
<1>7. CASE Audio!Looked
  <2>1. c6' \in Answers
    BY <1>t, <1>n, <1>7 DEF Audio!Looked, Saves, Answers, Spots
  <2> QED
    BY <1>t, <1>7, <2>1 DEF Audio!Looked
<1>8. CASE Audio!LookedUp
  <2>1. PICK value \in Answers : c5' = value /\ Audio!Decide(c1, c7, value, c3.known, c2)
    BY <1>t, <1>n, <1>8 DEF Audio!LookedUp
  <2>2. c7' \in Refs /\ c2' \in Players /\ c2'.loaded = c2.loaded
        /\ (c2.at \in Audio!Positions => c2'.at \in Audio!Positions)
    BY <1>t, <1>8, <2>1, Deciding DEF Audio!LookedUp, Marked
  <2> QED
    BY <1>t, <1>n, <1>8, <2>1, <2>2 DEF Audio!LookedUp
<1>9. CASE Audio!Loaded
  <2> DEFINE e == IF c7.seek = Audio!Nothing THEN [c2 EXCEPT !.loaded = TRUE]
                  ELSE [at |-> c7.seek, by |-> "jump", loaded |-> TRUE]
             r == [c7 EXCEPT !.seek = Audio!Nothing, !.ready = c1]
  <2>1. c1 \in Audio!Tracks /\ Audio!Decide(c1, r, c5, TRUE, e)
    BY <1>t, <1>9 DEF Audio!Loaded, Marked
  <2>2. r \in Refs
    BY <1>t, <1>n DEF Refs
  <2>3. e \in Players /\ e.at \in Audio!Positions
    <3>1. c2.at \in Audio!Positions /\ c7.seek \in Spots
      BY <1>t, <1>9 DEF Audio!Loaded, Refs
    <3>2. CASE c7.seek = Audio!Nothing
      BY <1>t, <3>1, <3>2 DEF Players
    <3>3. CASE c7.seek # Audio!Nothing
      BY <1>n, <3>1, <3>3 DEF Players, Spots
    <3> QED
      BY <3>2, <3>3
  <2> HIDE DEF e, r
  <2>4. c7' \in Refs /\ c2' \in Players /\ c2'.at \in Audio!Positions
    BY <1>t, <2>1, <2>2, <2>3, Deciding
  <2>5. c3' \in [at : Spots, known : BOOLEAN]
    BY <1>t, <1>9 DEF Audio!Loaded
  <2> QED
    BY <1>t, <1>9, <2>4, <2>5 DEF Audio!Loaded
<1>10. CASE Audio!Plays
  <2>1. c1 \in Audio!Tracks /\ c2.at.pos \in 0..End /\ c2.at.pos < End
    BY <1>t, <1>10, OnTrack DEF Audio!Plays
  <2> DEFINE n == c2.at.pos + 1
  <2>2. n \in 0..End
    BY ONLY <2>1, PlayerFits DEF PlayerFits
  <2> HIDE DEF n
  <2>3. Audio!At(n, c1) \in Audio!Positions /\ Audio!At(n, c1) \in Spots
    BY <1>n, <2>1, <2>2, OnTrack
  <2>4. c2' = [c2 EXCEPT !.at = Audio!At(n, c1), !.by = "play"]
    BY <1>10 DEF Audio!Plays, n
  <2>5. c2' \in Players /\ c2'.at \in Audio!Positions
    BY <1>t, <1>n, <2>3, <2>4 DEF Players
  <2> QED
    BY <1>t, <1>10, <2>1, <2>5 DEF Audio!Plays
<1>11. CASE Audio!TimeUpdate
  <2>1. c1 \in Audio!Tracks /\ c2.at.pos \in 0..End
    BY <1>t, <1>11, OnTrack DEF Audio!TimeUpdate
  <2>2. Audio!At(c2.at.pos, c1) \in Spots
    BY <1>n, <2>1
  <2>3. c3' \in [at : Spots, known : BOOLEAN]
    BY <1>t, <1>11, <2>2 DEF Audio!TimeUpdate
  <2>4. c8' \in Saves /\ c4' \in BOOLEAN /\ c10' \in 0..End
    BY <1>t, <1>n, <1>11, <2>2 DEF Audio!TimeUpdate, Saves, Audio!Off
  <2> QED
    BY <1>t, <1>11, <2>3, <2>4 DEF Audio!TimeUpdate
<1>12. ASSUME NEW p \in 0..End, Audio!Seek(p)
       PROVE  ListeningKept'
  <2>1. c1 \in Audio!Tracks /\ Audio!At(p, c1) \in Audio!Positions /\ Audio!At(p, c1) \in Spots
    BY <1>t, <1>n, <1>12, OnTrack DEF Audio!Seek
  <2>2. c2' \in Players /\ c2'.at \in Audio!Positions
    BY <1>t, <1>n, <1>12, <2>1 DEF Audio!Seek, Players
  <2> QED
    BY <1>t, <1>12, <2>1, <2>2 DEF Audio!Seek
<1>13. CASE Audio!Pause \/ Audio!Unpause \/ Audio!SaveTick
  <2>1. c8' \in Saves
    BY <1>t, <1>13, SavingTypes DEF Audio!Pause, Audio!Unpause, Audio!SaveTick
  <2> QED
    BY <1>t, <1>13, <2>1 DEF Audio!Pause, Audio!Unpause, Audio!SaveTick
<1>14. ASSUME NEW s \in 0..End, Audio!SetSleep(s)
       PROVE  ListeningKept'
  BY <1>t, <1>14 DEF Audio!SetSleep
<1>15. ASSUME NEW b \in Resets, Audio!ResetStart(b)
       PROVE  ListeningKept'
  <2>1. c8' \in Saves /\ c9' \in [book : Resets, current : BOOLEAN]
    BY <1>t, <1>n, <1>15 DEF Audio!ResetStart, Saves
  <2> QED
    BY <1>t, <1>15, <2>1 DEF Audio!ResetStart
<1>16. CASE Audio!ResetEnd
  <2>1. c9' = Audio!NoReset
    BY <1>16 DEF Audio!ResetEnd
  <2>2. CASE c9.current /\ c1 # Audio!NoTrack
    <3> DEFINE b == c9.book
               e == [c2 EXCEPT !.at = Audio!At(0, b), !.by = "reset"]
               r == [c7 EXCEPT !.skip = b]
    <3>1. b \in Audio!Tracks
      BY <1>t, <1>n, <1>16 DEF Audio!ResetEnd
    <3>2. Audio!At(0, b) \in Spots /\ Audio!At(0, b) \in Audio!Positions
      BY <1>n, <3>1, OnTrack
    <3>3. e \in Players /\ e.loaded = c2.loaded /\ e.at \in Audio!Positions /\ r \in Refs
      BY <1>t, <1>n, <3>1, <3>2 DEF Players, Refs
    <3>4. c5' = Audio!Nothing /\ Audio!Decide(c1, r, Audio!Nothing, c3.known, e)
      BY <1>16, <2>2 DEF Audio!ResetEnd
    <3> HIDE DEF b, e, r
    <3>5. c7' \in Refs /\ c2' \in Players /\ c2'.loaded = c2.loaded /\ c2'.at \in Audio!Positions
      BY <1>t, <1>n, <2>2, <3>3, <3>4, Deciding
    <3> QED
      BY <1>t, <1>n, <1>16, <2>1, <3>4, <3>5 DEF Audio!ResetEnd
  <2>3. CASE ~(c9.current /\ c1 # Audio!NoTrack)
    BY <1>t, <1>16, <2>1, <2>3 DEF Audio!ResetEnd
  <2> QED
    BY <2>2, <2>3
<1>17. CASE UNCHANGED Audio!lVars
  BY <1>t, <1>17 DEF Audio!lVars
<1> QED
  BY <1>n, <1>3, <1>4, <1>5, <1>6, <1>7, <1>8, <1>9, <1>10, <1>11, <1>12, <1>13, <1>14, <1>15,
     <1>16, <1>17
     DEF Audio!Next, Audio!Source, Audio!AudioPage, Audio!BookPage, Audio!Reports, Audio!Controls,
         Audio!Hotkeys, Audio!SleepTimer

-----------------------------------------------------------------------------
SsoAsks == [kind : {"load", "patch", "discover", "fill"}, put : Sso!Puts, answered : BOOLEAN,
            got : Sso!Settings]

LEMMA SsoTypes ==
  Sso!SsoTypeOK <=>
    /\ c1 \in LockSets /\ c2 \in Sso!Settings /\ c4 \in Sso!Settings /\ c5 \in Sso!Settings
    /\ c3 \in BOOLEAN /\ c7 \in BOOLEAN /\ c6 \in Sso!Fields \union {Sso!Nowhere}
    /\ c8 \subseteq Sso!Fields /\ c9 \subseteq SsoAsks
BY DEF Sso!SsoTypeOK, SsoAsks

LEMMA SsoTypesNext ==
  Sso!SsoTypeOK' <=>
    /\ c1' \in LockSets /\ c2' \in Sso!Settings /\ c4' \in Sso!Settings /\ c5' \in Sso!Settings
    /\ c3' \in BOOLEAN /\ c7' \in BOOLEAN /\ c6' \in Sso!Fields \union {Sso!Nowhere}
    /\ c8' \subseteq Sso!Fields /\ c9' \subseteq SsoAsks
BY DEF Sso!SsoTypeOK, SsoAsks

LEMMA SsoNames ==
  /\ "issuer" \in Sso!Fields /\ "enabled" \in Sso!Fields /\ "choice" \in Sso!Fields
  /\ "secret" \in Sso!Fields /\ Endpoints \subseteq Sso!Fields
  /\ "" \in Sso!Values /\ "typed" \in Sso!Values /\ "found" \in Sso!Values
  /\ Sso!Blank \in Sso!Settings
BY DEF Sso!Fields, Sso!Texts, Sso!Values, Sso!Blank, Sso!Settings

(* Some fields with their values.                                           *)
LEMMA SomeSettings ==
  ASSUME NEW F \in SUBSET Sso!Fields, NEW p \in [F -> Sso!Values]
  PROVE  p \in Sso!Puts
BY DEF Sso!Puts

LEMMA PutValues ==
  ASSUME NEW p \in Sso!Puts
  PROVE  DOMAIN p \subseteq Sso!Fields /\ \A f \in DOMAIN p : p[f] \in Sso!Values
BY DEF Sso!Puts

LEMMA ChangedSetting ==
  ASSUME NEW d \in Sso!Settings, NEW f, NEW v \in Sso!Values
  PROVE  [d EXCEPT ![f] = v] \in Sso!Settings
BY DEF Sso!Settings

LEMMA SettingValue ==
  ASSUME NEW d \in Sso!Settings, NEW f \in Sso!Fields
  PROVE  d[f] \in Sso!Values
BY DEF Sso!Settings

LEMMA NewRequest ==
  ASSUME NEW kind \in {"load", "patch", "discover", "fill"}, NEW put \in Sso!Puts
  PROVE  Sso!New(kind, put) \in SsoAsks
BY SsoNames DEF Sso!New, SsoAsks

LEMMA Sending ==
  ASSUME Sso!SsoTypeOK, NEW kind \in {"load", "patch", "discover", "fill"}, NEW put \in Sso!Puts,
         Sso!Send(kind, put)
  PROVE  c9' \subseteq SsoAsks /\ c8' \subseteq Sso!Fields
BY NewRequest, SsoTypes, PutValues DEF Sso!Send

LEMMA SavingFieldTypes ==
  ASSUME Sso!SsoTypeOK, NEW f \in Sso!Fields, NEW d \in Sso!Settings, Sso!SaveField(f, d)
  PROVE  Sso!SsoTypeOK'
<1> DEFINE put == [x \in {f} |-> d[f]]
<1>1. put \in Sso!Puts
  BY SomeSettings, SettingValue
<1> HIDE DEF put
<1>2. Sso!Send("patch", put)
  BY DEF Sso!SaveField, put
<1>3. c9' \subseteq SsoAsks /\ c8' \subseteq Sso!Fields
  BY <1>1, <1>2, Sending
<1> QED
  BY <1>3, SsoTypes, SsoTypesNext DEF Sso!SaveField

(* Every answer holds every setting.                                        *)
LEMMA AnswerTypes ==
  ASSUME Sso!SsoTypeOK, NEW a \in c9
  PROVE  /\ a \in SsoAsks /\ a.got \in Sso!Settings /\ a.put \in Sso!Puts
         /\ Sso!Mirrored(a) => c4' \in Sso!Settings /\ c5' \in Sso!Settings
         /\ c9 \ {a} \subseteq SsoAsks
<1>1. a \in SsoAsks
  BY SsoTypes
<1>2. a.got \in Sso!Settings /\ a.put \in Sso!Puts
  BY <1>1 DEF SsoAsks
<1>3. ASSUME Sso!Mirrored(a) PROVE c4' \in Sso!Settings /\ c5' \in Sso!Settings
  <2>1. c5["secret"] \in Sso!Values /\ "" \in Sso!Values
    BY SsoTypes, SsoNames, SettingValue
  <2>2. \E v \in Sso!Values : c5' = [a.got EXCEPT !["secret"] = v]
    BY <1>3, <2>1 DEF Sso!Mirrored
  <2> QED
    BY <1>2, <1>3, <2>2, ChangedSetting DEF Sso!Mirrored
<1> QED
  BY <1>1, <1>2, <1>3, SsoTypes

LEMMA Serving ==
  ASSUME Sso!SsoTypeOK, NEW a \in c9, Sso!Serve(a)
  PROVE  Sso!SsoTypeOK'
<1>1. a \in SsoAsks /\ a.put \in Sso!Puts /\ c9 \ {a} \subseteq SsoAsks
  BY AnswerTypes
<1>2. Sso!Stored(a.put) \in Sso!Settings
  BY <1>1, SsoTypes, PutValues DEF Sso!Stored, Sso!Settings
<1>3. c2' \in Sso!Settings
  BY <1>2, SsoTypes DEF Sso!Serve
<1>4. [a EXCEPT !.answered = TRUE, !.got = c2'] \in SsoAsks
  BY <1>1, <1>3 DEF SsoAsks
<1>5. c9' \subseteq SsoAsks
  BY <1>1, <1>4 DEF Sso!Serve
<1> QED
  BY <1>3, <1>5, SsoTypes, SsoTypesNext DEF Sso!Serve

LEMMA FindingTypes ==
  ASSUME Sso!SsoTypeOK, NEW a \in c9, NEW found \in SUBSET Endpoints, Sso!Discovered(a, found)
  PROVE  Sso!SsoTypeOK'
<1> DEFINE put == Sso!Updates(a.put, found)
<1>1. put \in Sso!Puts
  <2> DEFINE F == ({"issuer"} \union {x \in found : a.put[x] = ""}) \ c1
  <2>1. F \subseteq Sso!Fields /\ put = [f \in F |-> "found"]
    BY SsoNames DEF Sso!Updates
  <2> QED
    BY <2>1, SsoNames, SomeSettings
<1> HIDE DEF put
<1>2. DOMAIN put \subseteq Sso!Fields /\ Sso!New("fill", put) \in SsoAsks /\ c9 \ {a} \subseteq SsoAsks
  BY <1>1, PutValues, NewRequest, AnswerTypes
<1>3. /\ c8' = c8 \union (DOMAIN put \intersect c1)
      /\ \/ c7' = FALSE /\ c9' = c9 \ {a}
         \/ c9' = (c9 \ {a}) \union {Sso!New("fill", put)} /\ c7' = c7
      /\ UNCHANGED <<c1, c2, c3, c4, c5, c6>>
  BY DEF Sso!Discovered, put
<1> QED
  BY <1>2, <1>3, SsoTypes, SsoTypesNext

LEMMA SsoKeeps ==
  ASSUME Sso!SsoTypeOK, [Sso!Next]_(Sso!ssoVars)
  PROVE  Sso!SsoTypeOK'
<1>t. /\ c1 \in LockSets /\ c2 \in Sso!Settings /\ c4 \in Sso!Settings /\ c5 \in Sso!Settings
      /\ c3 \in BOOLEAN /\ c7 \in BOOLEAN /\ c6 \in Sso!Fields \union {Sso!Nowhere}
      /\ c8 \subseteq Sso!Fields /\ c9 \subseteq SsoAsks
  BY SsoTypes
<1>0. Sso!Typed \subseteq Sso!Values
  BY SsoNames DEF Sso!Typed
<1>1. ASSUME NEW f \in Sso!Fields, NEW v \in Sso!Values, Sso!Type(f, v)
      PROVE  Sso!SsoTypeOK'
  BY <1>t, <1>1, ChangedSetting, SsoTypesNext DEF Sso!Type
<1>2. ASSUME NEW f \in Sso!Fields, Sso!FieldRow(f)
      PROVE  Sso!SsoTypeOK'
  BY <1>t, <1>0, <1>1, <1>2, SavingFieldTypes DEF Sso!FieldRow, Sso!StringBlur
<1>3. CASE Sso!CheckboxRow
  <2> DEFINE d == [c5 EXCEPT !["enabled"] = IF @ = "" THEN "typed" ELSE ""]
  <2>1. d \in Sso!Settings
    BY <1>t, SsoNames, ChangedSetting
  <2> HIDE DEF d
  <2>2. Sso!SaveField("enabled", d)
    BY <1>3 DEF Sso!CheckboxRow, Sso!BoolToggle, d
  <2> QED
    BY <2>1, <2>2, SsoNames, SavingFieldTypes
<1>4. CASE Sso!SelectRow
  BY <1>t, <1>0, <1>4, SsoNames, ChangedSetting, SavingFieldTypes DEF Sso!SelectRow, Sso!SelectChange
<1>5. CASE Sso!Discover
  <2>1. c5 \in Sso!Puts
    BY <1>t, SomeSettings DEF Sso!Settings
  <2>2. c9' \subseteq SsoAsks /\ c8' \subseteq Sso!Fields
    BY <1>5, <2>1, Sending DEF Sso!Discover
  <2> QED
    BY <1>t, <1>5, <2>2, SsoTypesNext DEF Sso!Discover
<1>6. CASE Sso!ClearSecret
  <2>1. [f \in {"secret"} |-> ""] \in Sso!Puts
    BY SsoNames, SomeSettings
  <2>2. c9' \subseteq SsoAsks /\ c8' \subseteq Sso!Fields
    BY <1>6, <2>1, Sending DEF Sso!ClearSecret
  <2> QED
    BY <1>t, <1>6, <2>2, SsoNames, SsoTypesNext DEF Sso!ClearSecret
<1>7. CASE Sso!SecretRow
  BY <1>t, <1>0, <1>1, <1>6, <1>7, SsoNames, SavingFieldTypes DEF Sso!SecretRow, Sso!SaveSecret
<1>8. ASSUME NEW a \in c9, Sso!Loaded(a) \/ Sso!Saved(a) \/ Sso!Filled(a)
      PROVE  Sso!SsoTypeOK'
  <2>1. c4' \in Sso!Settings /\ c5' \in Sso!Settings /\ c9' \subseteq SsoAsks
    BY <1>8, AnswerTypes DEF Sso!Loaded, Sso!Saved, Sso!Filled
  <2> QED
    BY <1>t, <1>8, <2>1, SsoTypesNext DEF Sso!Loaded, Sso!Saved, Sso!Filled
<1>9. ASSUME NEW a \in c9, Sso!Fails(a)
      PROVE  Sso!SsoTypeOK'
  BY <1>t, <1>9, SsoTypesNext DEF Sso!Fails
<1>10. CASE UNCHANGED Sso!ssoVars
  BY <1>t, <1>10, SsoTypesNext DEF Sso!ssoVars
<1>11. CASE Sso!Form
  BY <1>2, <1>3, <1>4, <1>5, <1>7, <1>11, SsoNames DEF Sso!Form, Sso!IssuerRow
<1> QED
  BY <1>8, <1>9, <1>10, <1>11, Serving, FindingTypes DEF Sso!Next

-----------------------------------------------------------------------------
(* The maintenance settings: c1 section, c2 scanning, c4 scans, c9 polls,   *)
(* c11 shown, c12 kept, c14 carried, c16 backups, c17 listed, c18 lists,    *)
(* c19 made                                                                 *)

UpkeepFits ==
  /\ Hours \in Nat \ {0} /\ Days \in Nat \ {0} /\ Offset \in Int
  /\ MaxScans \in Nat /\ MaxBackups \in Nat

(* The forms of the schedules hold an hour that can be converted.           *)
UpkeepKept ==
  /\ Upkeep!MaintenanceTypeOK
  /\ c1 = "schedule" => c11 \in Upkeep!Slots /\ c12 \in Upkeep!Slots /\ c14 \in Upkeep!Slots

ScanTypes ==
  /\ c2 \in BOOLEAN /\ c3 \in BOOLEAN /\ c4 \in 0..MaxScans
  /\ c5 \in BOOLEAN /\ c6 \in BOOLEAN /\ c7 \in BOOLEAN /\ c8 \in BOOLEAN
  /\ c9 \subseteq {"asked", "running", "idle"} /\ c10 \in {"none", "asked", "answered", "failed"}
FormTypes ==
  /\ c11 \in Upkeep!Slots \union Upkeep!Exports /\ c12 \in Upkeep!Slots \union Upkeep!Exports
  /\ c14 \in Upkeep!Slots \union Upkeep!Exports
  /\ c1 = "schedule" => c11 \in Upkeep!Slots /\ c12 \in Upkeep!Slots /\ c14 \in Upkeep!Slots
  /\ c13 \in {"loading", "loaded", "edited", "saving", "served", "saved"}
  /\ c15 \in {"no", "asked", "done"}
ListTypes ==
  /\ c16 \subseteq 1..MaxBackups /\ c17 \subseteq 1..MaxBackups
  /\ c18 \subseteq SUBSET (1..MaxBackups) /\ c19 \in 0..MaxBackups

LEMMA UpkeepTypes ==
  UpkeepKept <=> c1 \in Upkeep!Sections /\ ScanTypes /\ FormTypes /\ ListTypes
BY DEF UpkeepKept, Upkeep!MaintenanceTypeOK, ScanTypes, FormTypes, ListTypes

LEMMA UpkeepTypesNext ==
  UpkeepKept' <=> c1' \in Upkeep!Sections /\ ScanTypes' /\ FormTypes' /\ ListTypes'
BY DEF UpkeepKept, Upkeep!MaintenanceTypeOK, ScanTypes, FormTypes, ListTypes

LEMMA ScanKeeps ==
  ASSUME UpkeepFits, ScanTypes, Upkeep!RescanStep
  PROVE  ScanTypes'
<1> USE DEF ScanTypes, Upkeep!UNCH_page, Upkeep!UNCH_scan
<1>1. CASE Upkeep!ScanBegins
  <2>1. c4' \in 0..MaxScans
    BY <1>1 DEF Upkeep!ScanBegins, UpkeepFits
  <2> QED
    BY <1>1, <2>1, Zenon DEF Upkeep!ScanBegins
<1>2. CASE Upkeep!ScanEnds \/ Upkeep!RescanLost \/ Upkeep!RescanAnswered
  BY <1>2 DEF Upkeep!ScanEnds, Upkeep!RescanLost, Upkeep!RescanAnswered
<1>3. CASE Upkeep!RescanServed
  BY <1>3 DEF Upkeep!RescanServed
<1>4. CASE Upkeep!RescanFails
  BY <1>4 DEF Upkeep!RescanFails, Upkeep!Runs
<1>5. CASE Upkeep!PollTick
  BY <1>5 DEF Upkeep!PollTick, Upkeep!Ticks
<1>6. CASE Upkeep!PollServed \/ Upkeep!PollFails
  BY <1>6 DEF Upkeep!PollServed, Upkeep!PollFails
<1>7. ASSUME NEW a \in {"running", "idle"}, Upkeep!PollArrives(a)
      PROVE  ScanTypes'
  BY <1>7 DEF Upkeep!PollArrives
<1>8. CASE Upkeep!RescanButtons
  BY <1>8 DEF Upkeep!RescanButtons, Upkeep!OpenModal, Upkeep!StopScan
<1>9. CASE Upkeep!RescanModal
  BY <1>9 DEF Upkeep!RescanModal, Upkeep!StartRescan, Upkeep!CloseModal, Upkeep!Runs
<1> QED
  BY <1>1, <1>2, <1>3, <1>4, <1>5, <1>6, <1>7, <1>8, <1>9 DEF Upkeep!RescanStep

(* An hour is converted to an hour.                                         *)
LEMMA OtherZone ==
  ASSUME UpkeepFits, NEW v \in Upkeep!Slots
  PROVE  /\ [v EXCEPT !.hour = (@ - Offset + Hours) % Hours] \in Upkeep!Slots
         /\ [v EXCEPT !.hour = (@ + Offset) % Hours] \in Upkeep!Slots
<1>1. v.hour \in Int
  BY DEF Upkeep!Slots, UpkeepFits
<1>2. (v.hour - Offset + Hours) % Hours \in 0..Hours-1 /\ (v.hour + Offset) % Hours \in 0..Hours-1
  BY ONLY <1>1, UpkeepFits DEF UpkeepFits
<1>3. \A h \in 0..Hours-1 : [v EXCEPT !.hour = h] \in Upkeep!Slots
  BY DEF Upkeep!Slots
<1> QED
  BY <1>2, <1>3

LEMMA FormKeeps ==
  ASSUME UpkeepFits, FormTypes, Upkeep!FormStep, c1' = c1, c1 \in {"schedule", "sidecars"}
  PROVE  FormTypes'
<1>1. ASSUME NEW f \in {"loading", "loaded", "edited", "saving", "served", "saved"},
             NEW s \in Upkeep!Slots \union Upkeep!Exports, c1 = "schedule" => s \in Upkeep!Slots,
             Upkeep!Form(f, s), UNCHANGED <<c12, c14>>
      PROVE  FormTypes'
  BY <1>1 DEF Upkeep!Form, FormTypes
<1>2. /\ Upkeep!utcToLocalTime(c12) \in Upkeep!Slots \union Upkeep!Exports
      /\ Upkeep!localTimeToUtc(c11) \in Upkeep!Slots \union Upkeep!Exports
      /\ c1 = "schedule" => /\ Upkeep!utcToLocalTime(c12) \in Upkeep!Slots
                            /\ Upkeep!localTimeToUtc(c11) \in Upkeep!Slots
  BY OtherZone DEF FormTypes, Upkeep!utcToLocalTime, Upkeep!localTimeToUtc
<1>3. CASE Upkeep!FormLoaded \/ Upkeep!SaveAnswered
  BY <1>1, <1>2, <1>3 DEF Upkeep!FormLoaded, Upkeep!SaveAnswered, Upkeep!Hydrate
<1>4. CASE Upkeep!FormFails
  BY <1>1, <1>4 DEF Upkeep!FormFails, FormTypes
<1>5. CASE Upkeep!EditForm
  BY <1>1, <1>5 DEF Upkeep!EditForm, Upkeep!Values, FormTypes
<1>6. CASE Upkeep!HandleSave
  BY <1>2, <1>6 DEF Upkeep!HandleSave, Upkeep!Form, FormTypes
<1>7. CASE Upkeep!SaveServed
  BY <1>7 DEF Upkeep!SaveServed, Upkeep!Form, FormTypes
<1>8. CASE Upkeep!HandleExport \/ Upkeep!ExportAnswered
  BY <1>8 DEF Upkeep!HandleExport, Upkeep!ExportAnswered, Upkeep!Exporting, FormTypes
<1> QED
  BY <1>3, <1>4, <1>5, <1>6, <1>7, <1>8
     DEF Upkeep!FormStep, Upkeep!ScheduledRescanSection, Upkeep!SidecarExportSection

LEMMA ListKeeps ==
  ASSUME UpkeepFits, ListTypes, Upkeep!BackupStep
  PROVE  ListTypes'
<1>1. ASSUME c19 < MaxBackups
      PROVE  c19 + 1 \in 1..MaxBackups /\ c19 + 1 \in 0..MaxBackups
  BY <1>1 DEF UpkeepFits, ListTypes
<1> DEFINE B == 1..MaxBackups
           n == c19 + 1
<1>2. c16 \subseteq B /\ c17 \subseteq B /\ c18 \subseteq SUBSET B /\ c19 \in 0..MaxBackups
  BY DEF ListTypes
<1>3. c16' \subseteq B /\ c17' \subseteq B /\ c18' \subseteq SUBSET B /\ c19' \in 0..MaxBackups => ListTypes'
  BY DEF ListTypes
<1>4. c19 < MaxBackups => n \in B /\ n \in 0..MaxBackups
  BY <1>1
<1> HIDE DEF B, n
<1>5. CASE Upkeep!BackupMade
  BY <1>2, <1>3, <1>4, <1>5 DEF Upkeep!BackupMade, n
<1>6. CASE Upkeep!BackupDeleted \/ Upkeep!BackupScheduleSaved
  BY <1>2, <1>3, <1>6 DEF Upkeep!BackupDeleted, Upkeep!BackupScheduleSaved
<1>7. CASE Upkeep!ScheduledBackup
  BY <1>2, <1>3, <1>4, <1>7 DEF Upkeep!ScheduledBackup, n
<1>8. CASE Upkeep!ListArrives \/ Upkeep!ListFails
  BY <1>2, <1>3, <1>8 DEF Upkeep!ListArrives, Upkeep!ListFails
<1> QED
  BY <1>5, <1>6, <1>7, <1>8 DEF Upkeep!BackupStep

LEMMA UpkeepKeeps ==
  ASSUME UpkeepFits, UpkeepKept, [Upkeep!Next]_(Upkeep!mVars)
  PROVE  UpkeepKept'
<1>1. c1 \in Upkeep!Sections /\ ScanTypes /\ FormTypes /\ ListTypes
  BY UpkeepTypes
<1>2. UNCHANGED Upkeep!scanVars => ScanTypes'
  BY <1>1 DEF ScanTypes, Upkeep!scanVars
<1>3. UNCHANGED <<c1, Upkeep!formVars>> => FormTypes'
  BY <1>1 DEF FormTypes, Upkeep!formVars
<1>4. UNCHANGED Upkeep!listVars => ListTypes'
  BY <1>1 DEF ListTypes, Upkeep!listVars
<1>5. CASE Upkeep!RescanStep /\ UNCHANGED <<c1, Upkeep!formVars, Upkeep!listVars>>
  BY <1>1, <1>3, <1>4, <1>5, ScanKeeps, UpkeepTypesNext
<1>6. CASE /\ c1 \in {"schedule", "sidecars"} /\ Upkeep!FormStep
           /\ UNCHANGED <<c1, Upkeep!scanVars, Upkeep!listVars>>
  BY <1>1, <1>2, <1>4, <1>6, FormKeeps, UpkeepTypesNext
<1>7. CASE Upkeep!BackupStep /\ UNCHANGED <<c1, Upkeep!scanVars, Upkeep!formVars>>
  BY <1>1, <1>2, <1>3, <1>7, ListKeeps, UpkeepTypesNext
<1>8. CASE UNCHANGED Upkeep!mVars
  BY <1>1, <1>2, <1>3, <1>4, <1>8, UpkeepTypesNext DEF Upkeep!mVars
<1> QED
  BY <1>5, <1>6, <1>7, <1>8 DEF Upkeep!Next

LEMMA UpkeepBegins == ASSUME UpkeepFits, Upkeep!Init PROVE UpkeepKept
<1>1. Upkeep!Nothing \in Upkeep!Slots
  <2>1. 0 \in 0..Hours-1 /\ 0 \in 0..Days-1
    BY DEF UpkeepFits
  <2> QED
    BY <2>1 DEF Upkeep!Nothing, Upkeep!Slots
<1>2. 0 \in 0..MaxScans /\ 0 \in 0..MaxBackups
  BY DEF UpkeepFits
<1>3. c1 \in Upkeep!Sections /\ ScanTypes
  BY <1>2 DEF Upkeep!Init, ScanTypes
<1>4. FormTypes
  BY <1>1 DEF Upkeep!Init, FormTypes
<1>5. ListTypes
  BY <1>2 DEF Upkeep!Init, ListTypes
<1> QED
  BY <1>3, <1>4, <1>5, UpkeepTypes

-----------------------------------------------------------------------------
(* The recent books: c1 stored, c2 limit, c3 listed                         *)

Shorts == Opened!BoundedSeq(Books, MaxRecent)

LEMMA ShortLists ==
  ASSUME MaxRecent \in Nat, NEW s
  PROVE  s \in Shorts <=> s \in Seq(Books) /\ Len(s) <= MaxRecent
<1>1. s \in Shorts <=> \E m \in 0..MaxRecent : s \in [1..m -> Books]
  BY DEF Shorts, Opened!BoundedSeq, Opened!SeqOf
<1>2. ASSUME NEW m \in 0..MaxRecent, s \in [1..m -> Books]
      PROVE  s \in Seq(Books) /\ Len(s) <= MaxRecent
  BY <1>2
<1>3. ASSUME s \in Seq(Books), Len(s) <= MaxRecent
      PROVE  Len(s) \in 0..MaxRecent /\ s \in [1..Len(s) -> Books]
  BY <1>3
<1> QED
  BY <1>1, <1>2, <1>3

LEMMA FirstOnes ==
  ASSUME NEW s \in Seq(Books), NEW n \in Nat
  PROVE  Opened!First(s, n) \in Seq(Books) /\ Len(Opened!First(s, n)) <= n
         /\ Len(Opened!First(s, n)) <= Len(s)
<1> DEFINE m == IF Len(s) < n THEN Len(s) ELSE n
<1>1. m \in 0..Len(s) /\ m <= n
  OBVIOUS
<1> HIDE DEF m
<1>2. SubSeq(s, 1, m) \in Seq(Books) /\ Len(SubSeq(s, 1, m)) = m
  BY <1>1
<1>3. Opened!First(s, n) = SubSeq(s, 1, m)
  BY DEF Opened!First, m
<1> QED
  BY <1>1, <1>2, <1>3

LEMMA WithoutBook ==
  ASSUME NEW s \in Seq(Books), NEW keep
  PROVE  Opened!Filtered(s, keep) \in Seq(Books) /\ Len(Opened!Filtered(s, keep)) <= Len(s)
<1>1. Opened!Filtered(s, keep) = Filtered(s, keep)
  BY DEF Opened!Filtered, Filtered
<1> QED
  BY <1>1, FilterKeeps

LEMMA RecentsKeep ==
  ASSUME MaxRecent \in Nat, Opened!RecentsTypeOK, [Opened!Next]_(Opened!recentVars)
  PROVE  Opened!RecentsTypeOK'
<1>t. c1 \in Shorts /\ c2 \in 0..MaxRecent /\ c3 \in [Tabs -> Shorts]
  BY DEF Opened!RecentsTypeOK, Shorts
<1>n. c1' \in Shorts /\ c2' \in 0..MaxRecent /\ c3' \in [Tabs -> Shorts] => Opened!RecentsTypeOK'
  BY DEF Opened!RecentsTypeOK, Shorts
<1>g. Opened!GetRecent \in Seq(Books) /\ Len(Opened!GetRecent) <= MaxRecent
  <2>1. c1 \in Seq(Books) /\ Len(c1) <= MaxRecent /\ c2 \in Nat
    BY <1>t, ShortLists
  <2> QED
    BY <2>1, <1>t, FirstOnes DEF Opened!GetRecent
<1>s. Opened!GetRecent \in Shorts
  BY <1>g, ShortLists
<1>1. ASSUME NEW b \in Books, Opened!OpenBook(b)
      PROVE  Opened!RecentsTypeOK'
  <2> DEFINE f == Opened!Filtered(Opened!GetRecent, Books \ {b})
  <2>1. f \in Seq(Books)
    BY <1>g, WithoutBook
  <2> HIDE DEF f
  <2>2. <<b>> \o f \in Seq(Books)
    BY <2>1
  <2>3. c1' = Opened!First(<<b>> \o f, c2) /\ UNCHANGED <<c2, c3>>
    BY <1>1 DEF Opened!OpenBook, f
  <2>4. c1' \in Seq(Books) /\ Len(c1') <= MaxRecent
    <3>1. c2 \in Nat /\ c2 <= MaxRecent
      BY <1>t
    <3> DEFINE s == <<b>> \o f
    <3>2. s \in Seq(Books)
      BY <2>2
    <3> HIDE DEF s
    <3>3. c1' = Opened!First(s, c2)
      BY <2>3 DEF s
    <3>4. c1' \in Seq(Books) /\ Len(c1') <= c2
      BY <3>1, <3>2, <3>3, FirstOnes
    <3> QED
      BY <3>1, <3>4, LenProperties
  <2> QED
    BY <1>t, <1>n, <2>3, <2>4, ShortLists
<1>2. ASSUME NEW t \in Tabs, NEW b \in Books, Opened!RemoveRecent(t, b)
      PROVE  Opened!RecentsTypeOK'
  <2>1. c1' = Opened!Filtered(Opened!GetRecent, Books \ {b}) /\ c2' = c2
        /\ c3' = [c3 EXCEPT ![t] = Opened!First(c1', c2)]
    BY <1>2 DEF Opened!RemoveRecent
  <2>2. c1' \in Seq(Books) /\ Len(c1') <= MaxRecent
    BY <1>g, <2>1, WithoutBook
  <2>3. Opened!First(c1', c2) \in Seq(Books) /\ Len(Opened!First(c1', c2)) <= MaxRecent
    BY <1>t, <2>2, FirstOnes
  <2>4. c1' \in Shorts /\ Opened!First(c1', c2) \in Shorts
    BY <2>2, <2>3, ShortLists
  <2> QED
    BY <1>t, <1>n, <2>1, <2>4
<1>3. ASSUME NEW t \in Tabs, Opened!Mounted(t)
      PROVE  Opened!RecentsTypeOK'
  BY <1>t, <1>n, <1>s, <1>3 DEF Opened!Mounted
<1>4. ASSUME NEW n \in 0..MaxRecent, Opened!SetLimit(n)
      PROVE  Opened!RecentsTypeOK'
  BY <1>t, <1>n, <1>4 DEF Opened!SetLimit
<1>5. CASE UNCHANGED Opened!recentVars
  BY <1>t, <1>n, <1>5 DEF Opened!recentVars
<1> QED
  BY <1>1, <1>2, <1>3, <1>4, <1>5 DEF Opened!Next

-----------------------------------------------------------------------------
(* The types of the soundboard. replacePads takes what arrives twice once.  *)

NoPadTwice == \A b \in Boards : IsInjective(b)

BoardTidy == /\ IsInjective(c1) /\ c2 \subseteq Sounds /\ c6 \subseteq Sounds /\ c7 \subseteq Boards

LEMMA BoardTypes == BoardKept /\ BoardTidy => Board!SoundboardTypeOK
<1>1. IsInjective(c1) => Board!IsInjective(c1)
  BY DEF IsInjective, Board!IsInjective
<1> QED
  BY <1>1 DEF BoardKept, BoardTidy, Board!SoundboardTypeOK, Board!SoundReachable

LEMMA RemovedOnce ==
  ASSUME NEW l \in Seq(Sounds), IsInjective(l), NEW i \in DOMAIN l
  PROVE  LET r == QueueP!RemoveAt(l, i)
         IN  /\ r \in Seq(Sounds) /\ IsInjective(r) /\ \A k \in DOMAIN r : r[k] # l[i]
             /\ Len(r) = Len(l) - 1
<1> DEFINE r == QueueP!RemoveAt(l, i)
<1>0. Len(l) \in Nat /\ DOMAIN l = 1..Len(l) /\ i \in 1..Len(l)
  BY LenProperties
<1>1. /\ r \in Seq(Sounds) /\ Len(r) = Len(l) - 1
      /\ \A k \in 1..(Len(l) - 1) : r[k] = IF k < i THEN l[k] ELSE l[k + 1]
  BY <1>0, QueueP!RemoveAtEntries
<1> HIDE DEF r
<1>2. DOMAIN r = 1..(Len(l) - 1)
  BY <1>1, LenProperties
<1>3. \A j, k \in 1..Len(l) : l[j] = l[k] => j = k
  BY <1>0 DEF IsInjective
<1>4. ASSUME NEW k \in 1..(Len(l) - 1)
      PROVE  \E m \in 1..Len(l) : r[k] = l[m] /\ m # i /\ m = IF k < i THEN k ELSE k + 1
  BY <1>0, <1>1
<1>5. ASSUME NEW j \in 1..(Len(l) - 1), NEW k \in 1..(Len(l) - 1), r[j] = r[k]
      PROVE  j = k
  <2>1. PICK m \in 1..Len(l) : r[j] = l[m] /\ m = IF j < i THEN j ELSE j + 1
    BY <1>4
  <2>2. PICK n \in 1..Len(l) : r[k] = l[n] /\ n = IF k < i THEN k ELSE k + 1
    BY <1>4
  <2>3. m = n
    BY <1>3, <1>5, <2>1, <2>2
  <2> QED
    BY ONLY <1>0, <2>1, <2>2, <2>3
<1>6. IsInjective(r)
  BY <1>2, <1>5 DEF IsInjective
<1>7. \A k \in DOMAIN r : r[k] # l[i]
  BY <1>0, <1>2, <1>3, <1>4
<1> QED
  BY <1>1, <1>6, <1>7 DEF r

LEMMA InsertedOnce ==
  ASSUME NEW r \in Seq(Sounds), IsInjective(r), NEW j \in 1..(Len(r) + 1), NEW x \in Sounds,
         \A k \in DOMAIN r : r[k] # x
  PROVE  IsInjective(QueueP!InsertAt(r, j, x))
<1> DEFINE m == QueueP!InsertAt(r, j, x)
<1>0. Len(r) \in Nat /\ DOMAIN r = 1..Len(r)
  BY LenProperties
<1>1. /\ m \in Seq(Sounds) /\ Len(m) = Len(r) + 1
      /\ \A k \in 1..(Len(r) + 1) : m[k] = IF k < j THEN r[k] ELSE IF k = j THEN x ELSE r[k - 1]
  BY InsertedPad
<1> HIDE DEF m
<1>2. DOMAIN m = 1..(Len(r) + 1)
  BY <1>1, LenProperties
<1>3. \A a, b \in 1..Len(r) : r[a] = r[b] => a = b
  BY <1>0 DEF IsInjective
<1>4. \A k \in 1..Len(r) : r[k] # x
  BY <1>0
<1>5. ASSUME NEW a \in 1..(Len(r) + 1), NEW b \in 1..(Len(r) + 1), m[a] = m[b]
      PROVE  a = b
  <2>1. a = j <=> m[a] = x
    <3>1. a # j => m[a] = r[IF a < j THEN a ELSE a - 1] /\ (IF a < j THEN a ELSE a - 1) \in 1..Len(r)
      BY <1>0, <1>1
    <3> QED BY <1>1, <1>4, <3>1
  <2>2. b = j <=> m[b] = x
    <3>1. b # j => m[b] = r[IF b < j THEN b ELSE b - 1] /\ (IF b < j THEN b ELSE b - 1) \in 1..Len(r)
      BY <1>0, <1>1
    <3> QED BY <1>1, <1>4, <3>1
  <2>3. CASE a # j /\ b # j
    <3> DEFINE f == IF a < j THEN a ELSE a - 1
               g == IF b < j THEN b ELSE b - 1
    <3>1. f \in 1..Len(r) /\ g \in 1..Len(r)
      BY <1>0, <2>3
    <3>2. m[a] = r[f] /\ m[b] = r[g]
      BY <1>1, <2>3
    <3>3. f = g
      <4> HIDE DEF f, g
      <4> QED BY <1>3, <1>5, <3>1, <3>2
    <3> QED BY ONLY <2>3, <3>3, <1>0
  <2> QED
    BY <1>5, <2>1, <2>2, <2>3
<1> QED
  BY <1>2, <1>5 DEF IsInjective, m

(* The pads added are not there yet.                                        *)
LEMMA AddedOnce ==
  ASSUME BoardsFit, NEW l \in Seq(Sounds), IsInjective(l), NEW S \in SUBSET Sounds
  PROVE  IsInjective(l \o Board!SetToSeq(S \ Board!ToSet(l)))
<1> DEFINE F == S \ Board!ToSet(l)
           f == CHOOSE g \in [1..Cardinality(F) -> F] : IsInjective(g)
<1>1. IsFiniteSet(F)
  BY FS_Subset DEF BoardsFit
<1>2. f \in Seq(F) /\ Entries(f) = F /\ IsInjective(f)
  BY <1>1, ListedSet
<1>3. Board!SetToSeq(F) = f
  BY DEF Board!SetToSeq, Board!Cardinality, Cardinality, Board!IsInjective, IsInjective
<1>4. Entries(l) = Board!ToSet(l)
  BY DEF Entries, Board!ToSet
<1> HIDE DEF f
<1>5. f \in Seq(Sounds)
  BY <1>2, SeqDef
<1>6. Entries(l) \intersect Entries(f) = {}
  BY <1>2, <1>4
<1>7. IsInjective(l \o f)
  BY <1>2, <1>5, <1>6, JoinArrays
<1> QED
  BY <1>3, <1>7

LEMMA BoardStaysTidy ==
  ASSUME BoardsFit, NoPadTwice, BoardKept, BoardTidy, [Board!Next]_(Board!sVars)
  PROVE  BoardTidy'
<1> USE DEF BoardTidy
<1>0. c1 \in Seq(Sounds) /\ <<>> \in Seq(Sounds) /\ IsInjective(<<>>)
  BY DEF BoardKept, IsInjective
<1>1. ASSUME NEW s \in Sounds, Board!Toggle(s) \/ Board!SetPadLoop(s) \/ Board!Ends(s) \/ Board!Reports(s)
      PROVE  BoardTidy'
  BY <1>1 DEF Board!Toggle, Board!Stop, Board!Trigger, Board!SetPadLoop, Board!Ends, Board!Reports
<1>2. ASSUME NEW s \in Sounds, Board!RemovePad(s)
      PROVE  BoardTidy'
  <2>1. PICK i \in DOMAIN c1 : c1' = Board!RemoveAt(c1, i)
    BY <1>2 DEF Board!RemovePad
  <2>2. c1' = QueueP!RemoveAt(c1, i)
    BY <2>1 DEF QueueP!RemoveAt, Board!RemoveAt
  <2>3. IsInjective(c1')
    BY <1>0, <2>2, RemovedOnce
  <2> QED
    BY <1>2, <2>3 DEF Board!RemovePad
<1>3. ASSUME NEW i, NEW j, Board!MovePad(i, j)
      PROVE  BoardTidy'
  <2> DEFINE r == QueueP!RemoveAt(c1, i)
  <2>1. i \in DOMAIN c1 /\ j \in DOMAIN c1 /\ c1' = Board!InsertAt(Board!RemoveAt(c1, i), j, c1[i])
    BY <1>3 DEF Board!MovePad
  <2>2. c1' = QueueP!InsertAt(r, j, c1[i])
    BY <2>1 DEF QueueP!RemoveAt, Board!RemoveAt, QueueP!InsertAt, Board!InsertAt
  <2>3. /\ r \in Seq(Sounds) /\ IsInjective(r) /\ \A k \in DOMAIN r : r[k] # c1[i]
        /\ Len(r) = Len(c1) - 1
    BY <1>0, <2>1, RemovedOnce
  <2> HIDE DEF r
  <2>4. c1[i] \in Sounds /\ j \in 1..(Len(r) + 1)
    BY <1>0, <2>1, <2>3, LenProperties, ElementOfSeq
  <2>5. IsInjective(c1')
    BY <2>2, <2>3, <2>4, InsertedOnce
  <2> QED
    BY <1>3, <2>5 DEF Board!MovePad
<1>4. CASE Board!StopAll \/ Board!Unmount
  BY <1>4 DEF Board!StopAll, Board!Unmount
<1>5. CASE Board!ClearPads
  BY <1>0, <1>5 DEF Board!ClearPads, Board!Replace
<1>6. ASSUME NEW b \in Boards, Board!RequestLoad(b)
      PROVE  BoardTidy'
  BY <1>6 DEF Board!RequestLoad
<1>7. ASSUME NEW b \in Boards, Board!LoadArrives(b)
      PROVE  BoardTidy'
  <2>1. Board!ToSet(b) \subseteq Sounds
    BY LenProperties DEF BoardsFit, Board!ToSet
  <2> QED
    BY <1>7, <2>1 DEF Board!LoadArrives, Board!Replace, NoPadTwice
<1>8. ASSUME NEW S \in SUBSET Sounds, Board!AddPads(S)
      PROVE  BoardTidy'
  <2>1. IsInjective(c1')
    BY <1>0, <1>8, AddedOnce DEF Board!AddPads
  <2> QED
    BY <1>8, <2>1 DEF Board!AddPads
<1>9. CASE UNCHANGED Board!sVars
  BY <1>9 DEF Board!sVars
<1> QED
  BY <1>1, <1>2, <1>3, <1>4, <1>5, <1>6, <1>7, <1>8, <1>9
     DEF Board!Next, Board!Panel, Board!Pad, Board!Shelf

-----------------------------------------------------------------------------
SessionFits ==
  /\ QueueP!ListsFit /\ AuthFits /\ PlayerFits /\ BoardsFit /\ NoPadTwice /\ UploadsFit
  /\ UpkeepFits /\ MaxRecent \in Nat

(* What is proved of each part above, and its type among it.                *)
PartsKept ==
  /\ QueueInv
  /\ focus = "listening" => ListeningKept
  /\ focus = "soundboard" => BoardKept /\ BoardTidy
  /\ focus = "uploads" => UploadsKept
  /\ focus = "session" => Auth!AuthTypeOK
  /\ focus = "sso" => Sso!SsoTypeOK
  /\ focus = "maintenance" => UpkeepKept
  /\ focus = "recents" => Opened!RecentsTypeOK

LEMMA PartsTyped == PartsKept => TypeOK
<1>1. focus = "queue" /\ QueueInv => Queue!QueueTypeOK /\ Queue!IndexPoints
  BY DEF QueueInv, QueueP!QueueInv, QueueP!QueueTypeOK, QueueP!IndexPoints, QueueP!Entries,
         Queue!QueueTypeOK, Queue!IndexPoints, Queue!Entries
<1> QED
  BY <1>1, BoardTypes DEF PartsKept, TypeOK, ListeningKept, UploadsKept, UpkeepKept

LEMMA ListeningBegins == ASSUME PlayerFits, Audio!Init PROVE ListeningKept
<1>1. 0 \in 0..End /\ Audio!Off = 0
  BY DEF PlayerFits, Audio!Off
<1>2. Audio!ListeningTypeOK
  BY <1>1 DEF Audio!Init, Audio!ListeningTypeOK, Audio!Causes
<1> QED
  BY <1>2 DEF ListeningKept, Audio!Init

LEMMA SsoBegins == ASSUME Sso!Init PROVE Sso!SsoTypeOK
<1>1. Sso!Blank \in Sso!Puts
  BY SsoNames, SomeSettings DEF Sso!Settings
<1>2. Sso!New("load", Sso!Blank) \in SsoAsks
  BY <1>1, NewRequest
<1>3. c2 \in Sso!Settings
  BY SsoNames DEF Sso!Init, Sso!Settings
<1> QED
  BY <1>2, <1>3, SsoNames, SsoTypes DEF Sso!Init

LEMMA RecentsBegin == ASSUME MaxRecent \in Nat, Opened!Init PROVE Opened!RecentsTypeOK
<1>1. <<>> \in Seq(Books) /\ Len(<<>>) <= MaxRecent /\ MaxRecent \in 0..MaxRecent
  OBVIOUS
<1>2. <<>> \in Shorts
  BY <1>1, ShortLists
<1> QED
  BY <1>1, <1>2 DEF Opened!Init, Opened!RecentsTypeOK, Shorts

LEMMA TidyBegins == Board!Init => BoardTidy
BY DEF BoardTidy, Board!Init, IsInjective

(* Every variable of every part keeps its type. The parts that need more    *)
(* than their types for that have it in their invariants: which element is  *)
(* loaded, where the hour of a schedule comes from, which records agree.    *)
THEOREM SessionTyped == ASSUME SessionFits PROVE Spec => []TypeOK
<1>1. Init => PartsKept
  <2>1. Init => QueueInv
    BY QueueBegins DEF SessionFits
  <2> QED
    BY <2>1, ListeningBegins, BoardBegins, TidyBegins, UploadsBegin, AuthBegins, SsoBegins,
       UpkeepBegins, RecentsBegin
       DEF Init, PartsKept, SessionFits
<1>2. PartsKept /\ [Next]_vars => PartsKept'
  <2> SUFFICES ASSUME PartsKept, [Next]_vars PROVE PartsKept'
    OBVIOUS
  <2>0. focus' = focus
    BY OnePart
  <2>1. QueueInv'
    BY QueueKept DEF PartsKept, SessionFits
  <2>2. ASSUME focus = "listening" PROVE ListeningKept'
    <3>1. [Audio!Next]_(Audio!lVars)
      BY <2>2, OnePart DEF vars, Audio!lVars
    <3> QED BY <2>2, <3>1, ListeningKeeps DEF PartsKept, SessionFits
  <2>3. ASSUME focus = "soundboard" PROVE BoardKept' /\ BoardTidy'
    <3>1. [Board!Next]_(Board!sVars)
      BY <2>3, OnePart DEF vars, Board!sVars
    <3> QED BY <2>3, <3>1, BoardStep, BoardStaysTidy DEF PartsKept, SessionFits
  <2>4. ASSUME focus = "uploads" PROVE UploadsKept'
    <3>1. [Uploads!Next]_(Uploads!uVars)
      BY <2>4, OnePart DEF vars, Uploads!uVars
    <3> QED BY <2>4, <3>1, UploadsStep DEF PartsKept, SessionFits
  <2>5. ASSUME focus = "session" PROVE Auth!AuthTypeOK'
    <3>1. [Auth!Next]_(Auth!aVars)
      BY <2>5, OnePart DEF vars, Auth!aVars
    <3> QED BY <2>5, <3>1, AuthTypes DEF PartsKept, SessionFits
  <2>6. ASSUME focus = "sso" PROVE Sso!SsoTypeOK'
    <3>1. [Sso!Next]_(Sso!ssoVars)
      BY <2>6, OnePart DEF vars, Sso!ssoVars
    <3> QED BY <2>6, <3>1, SsoKeeps DEF PartsKept
  <2>7. ASSUME focus = "maintenance" PROVE UpkeepKept'
    <3>1. [Upkeep!Next]_(Upkeep!mVars)
      BY <2>7, OnePart DEF vars, Upkeep!mVars, Upkeep!scanVars, Upkeep!formVars, Upkeep!listVars
    <3> QED BY <2>7, <3>1, UpkeepKeeps DEF PartsKept, SessionFits
  <2>8. ASSUME focus = "recents" PROVE Opened!RecentsTypeOK'
    <3>1. [Opened!Next]_(Opened!recentVars)
      BY <2>8, OnePart DEF vars, Opened!recentVars
    <3> QED BY <2>8, <3>1, RecentsKeep DEF PartsKept, SessionFits
  <2> QED
    BY <2>0, <2>1, <2>2, <2>3, <2>4, <2>5, <2>6, <2>7, <2>8 DEF PartsKept
<1> QED
  BY <1>1, <1>2, PartsTyped, PTL DEF Spec
=============================================================================
