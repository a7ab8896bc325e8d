---------------------------- MODULE ClientSession ----------------------------
(***************************************************************************)
(* The parts of the browser client that outlive a page: the player and its  *)
(* queue, the soundboard, the uploads, the session, the settings and the    *)
(* recently opened books. They share no state, so a behaviour is that of    *)
(* one of them, whose variables are the cells c1, c2, ...: every one of     *)
(* them is looked at for every behaviour it can have.                       *)
(***************************************************************************)
EXTENDS Integers, Sequences

(* Each part's constants, as its module describes them. The Tracks of       *)
(* PlayQueue are QueueTracks here, the Books of Listening are Audiobooks,   *)
(* the Tabs of AuthSessions are SignedTabs, and the MaxAsked of SingleSignOn*)
(* is MaxRequests.                                                          *)
CONSTANTS
  QueueTracks, Lists, MaxQueue,
  Audiobooks, Songs, End, Resets,
  Sounds, Boards, MaxReports,
  Files, Concurrency, MaxTries,
  SignedTabs, Calls, MaxLogins, MaxIssued,
  Endpoints, LockSets, MaxRequests,
  Hours, Days, Offset, Formats, MaxScans, MaxBackups,
  Books, Tabs, MaxRecent

VARIABLES
  focus,  \* the part that is looked at
  c1, c2, c3, c4, c5, c6, c7, c8, c9, c10, c11, c12, c13, c14, c15, c16, c17, c18, c19
          \* its variables, in the order its module declares them

vars == <<focus, c1, c2, c3, c4, c5, c6, c7, c8, c9, c10, c11, c12, c13, c14, c15, c16, c17, c18, c19>>

Queue == INSTANCE PlayQueue WITH
  Tracks <- QueueTracks,
  queue <- c1, index <- c2, asked <- c3, playing <- c4, repeatOne <- c5, hydrating <- c6,
  did <- c7
Audio == INSTANCE Listening WITH
  Books <- Audiobooks, cur <- c1, el <- c2, shown <- c3, playing <- c4, resume <- c5,
  answer <- c6, refs <- c7, saved <- c8, reset <- c9, sleep <- c10
Board == INSTANCE Soundboard WITH
  pads <- c1, loop <- c2, registered <- c3, sounding <- c4, reports <- c5, marked <- c6,
  loading <- c7
Uploads == INSTANCE UploadQueue WITH
  item <- c1, waiting <- c2, active <- c3, running <- c4, upload <- c5, tries <- c6,
  pumping <- c7
Auth == INSTANCE AuthSessions WITH
  Tabs <- SignedTabs, row <- c1, jar <- c2, token <- c3, issued <- c4, expired <- c5,
  page <- c6, boot <- c7, call <- c8, flight <- c9, leaving <- c10, excused <- c11
Sso == INSTANCE SingleSignOn WITH
  MaxAsked <- MaxRequests, locked <- c1, server <- c2, loaded <- c3, data <- c4,
  draft <- c5, saving <- c6, discovering <- c7, touched <- c8, asks <- c9
Upkeep == INSTANCE Maintenance WITH
  section <- c1, scanning <- c2, queued <- c3, scans <- c4, running <- c5, stopping <- c6,
  finished <- c7, modal <- c8, polls <- c9, starting <- c10, shown <- c11, kept <- c12,
  form <- c13, carried <- c14, exporting <- c15, backups <- c16, listed <- c17,
  lists <- c18, made <- c19
Opened == INSTANCE Recents WITH
  stored <- c1, limit <- c2, listed <- c3

(* The cells a part does not use.                                          *)
Blank19 == c19 = 0
Blank18 == c18 = 0 /\ Blank19
Blank17 == c17 = 0 /\ Blank18
Blank16 == c16 = 0 /\ Blank17
Blank15 == c15 = 0 /\ Blank16
Blank14 == c14 = 0 /\ Blank15
Blank13 == c13 = 0 /\ Blank14
Blank12 == c12 = 0 /\ Blank13
Blank11 == c11 = 0 /\ Blank12
Blank10 == c10 = 0 /\ Blank11
Blank9 == c9 = 0 /\ Blank10
Blank8 == c8 = 0 /\ Blank9
Blank7 == c7 = 0 /\ Blank8
Blank6 == c6 = 0 /\ Blank7
Blank5 == c5 = 0 /\ Blank6
Blank4 == c4 = 0 /\ Blank5
From4 == <<c4, c5, c6, c7, c8, c9, c10, c11, c12, c13, c14, c15, c16, c17, c18, c19>>
From8 == <<c8, c9, c10, c11, c12, c13, c14, c15, c16, c17, c18, c19>>
From10 == <<c10, c11, c12, c13, c14, c15, c16, c17, c18, c19>>
From11 == <<c11, c12, c13, c14, c15, c16, c17, c18, c19>>
From12 == <<c12, c13, c14, c15, c16, c17, c18, c19>>

Init ==
  \/ focus = "queue" /\ Queue!Init /\ Blank8
  \/ focus = "listening" /\ Audio!Init /\ Blank11
  \/ focus = "soundboard" /\ Board!Init /\ Blank8
  \/ focus = "uploads" /\ Uploads!Init /\ Blank8
  \/ focus = "session" /\ Auth!Init /\ Blank12
  \/ focus = "sso" /\ Sso!Init /\ Blank10
  \/ focus = "maintenance" /\ Upkeep!Init
  \/ focus = "recents" /\ Opened!Init /\ Blank4

Next ==
  \/ focus = "queue" /\ Queue!Next /\ UNCHANGED <<focus, From8>>
  \/ focus = "listening" /\ Audio!Next /\ UNCHANGED <<focus, From11>>
  \/ focus = "soundboard" /\ Board!Next /\ UNCHANGED <<focus, From8>>
  \/ focus = "uploads" /\ Uploads!Next /\ UNCHANGED <<focus, From8>>
  \/ focus = "session" /\ Auth!Next /\ UNCHANGED <<focus, From12>>
  \/ focus = "sso" /\ Sso!Next /\ UNCHANGED <<focus, From10>>
  \/ focus = "maintenance" /\ Upkeep!Next /\ UNCHANGED focus
  \/ focus = "recents" /\ Opened!Next /\ UNCHANGED <<focus, From4>>

(* The fairness of the uploads and of the polls, as their modules state it. *)
Uploading(A) == focus = "uploads" /\ A /\ UNCHANGED <<focus, From8>>
Polling(A) == focus = "maintenance" /\ Upkeep!At(A) /\ UNCHANGED focus
Fairness ==
  /\ \A f \in Files : /\ WF_vars(Uploading(Uploads!Stores(f)))
                      /\ WF_vars(Uploading(Uploads!Answered(f) \/ Uploads!Lost(f)))
  /\ WF_vars(Uploading(Uploads!DeferredPump))
  /\ WF_vars(Polling(Upkeep!PollTick)) /\ SF_vars(Polling(Upkeep!PollServed))
  /\ \A a \in {"running", "idle"} : SF_vars(Polling(Upkeep!PollArrives(a)))
  /\ WF_vars(Polling(Upkeep!RescanServed \/ Upkeep!RescanLost))
  /\ WF_vars(Polling(Upkeep!RescanAnswered \/ Upkeep!RescanFails))

Spec == Init /\ [][Next]_vars /\ Fairness

-----------------------------------------------------------------------------
(* What each module states of its part                                      *)

(* Every variable of a part keeps its type.                                 *)
TypeOK ==
  /\ focus = "queue" => Queue!QueueTypeOK /\ Queue!IndexPoints
  /\ focus = "listening" => Audio!ListeningTypeOK
  /\ focus = "soundboard" => Board!SoundboardTypeOK
  /\ focus = "uploads" => Uploads!UploadTypeOK
  /\ focus = "session" => Auth!AuthTypeOK
  /\ focus = "sso" => Sso!SsoTypeOK
  /\ focus = "maintenance" => Upkeep!MaintenanceTypeOK
  /\ focus = "recents" => Opened!RecentsTypeOK

(* The queue with its index implements the playlist that cannot lose its    *)
(* place, whatever is inserted, removed and moved while it plays            *)
(* (AudioPlayerContext).                                                    *)
PlayedBefore == IF focus = "queue" THEN Queue!played ELSE <<>>
PlayedNow == IF focus = "queue" THEN Queue!current ELSE <<>>
PlayedNext == IF focus = "queue" THEN Queue!upcoming ELSE <<>>
LastDone == IF focus = "queue" THEN c7 ELSE "none"
Place == INSTANCE Playlist WITH
  Tracks <- QueueTracks,
  behind <- PlayedBefore, now <- PlayedNow, ahead <- PlayedNext, did <- LastDone
KeepsItsPlace == Place!Spec

(* Another track never replaces the current one in silence (PlayQueue).     *)
NewTrackPlays == [][focus = "queue" => Queue!StartsTheNewTrack]_vars

(* A book is never saved at a position of another track (Listening).        *)
SavesItself == focus = "listening" => Audio!SavesItself

(* What is heard can be stopped, and what is shown as playing is heard      *)
(* (Soundboard).                                                            *)
SoundReachable == focus = "soundboard" => Board!SoundReachable
SoundShown == focus = "soundboard" => Board!SoundShown

(* The records of what is being uploaded agree, and every queued file       *)
(* settles (UploadQueue).                                                   *)
UploadsAccounted == focus = "uploads" => Uploads!UploadsAccounted
UploadsSettle == \A f \in Files :
                   (focus = "uploads" /\ c1[f] = "queued") ~> (focus = "uploads" => Uploads!Settled(f))

(* A page goes on showing the user who signed in (AuthSessions).            *)
StaysSignedIn == [][focus = "session" => Auth!KeepsItsUser]_vars

(* No request names a setting the environment has locked (SingleSignOn).    *)
LockedUntouched == focus = "sso" => Sso!LockedUntouched

(* The settings come to show whether a scan goes on (Maintenance).          *)
FollowsTheScan ==
  \A b \in BOOLEAN : <>[](focus = "maintenance" /\ Upkeep!ScanIs(b))
                        => []<>(focus = "maintenance" => Upkeep!Shows(b))
=============================================================================
