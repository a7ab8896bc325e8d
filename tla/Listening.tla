----------------------------- MODULE Listening ------------------------------
(***************************************************************************)
(* The position in the track that plays: the audio element, the saved       *)
(* position a book resumes from, the jumps a listener asks for, the saves   *)
(* while playing, at a pause and on leaving, and the sleep timer. Which     *)
(* track comes next is module PlayQueue's business; here any may.           *)
(*                                                                          *)
(* Positions are counted in chapters: chapter i of a book is [i, i + 1),    *)
(* and End is within the last seconds, from which nothing resumes. A        *)
(* position carries the track it was measured on or asked for, so that a    *)
(* mix-up shows.                                                            *)
(***************************************************************************)
EXTENDS Integers

CONSTANTS
  Books,  \* audiobooks, whose positions are kept for the user
  Songs,  \* other audio
  Resets, \* the books that may be marked as not started
  End     \* the number of chapters of each track

NoTrack == "no track"
Tracks == Books \union Songs

At(p, t) == [pos |-> p, of |-> t]
Positions == [pos : 0..End, of : Tracks]
Nothing == At(-1, NoTrack)   \* null
Unknown == At(-2, NoTrack)   \* resumeSeconds undefined; a request not yet answered

NoReset == [book |-> NoTrack, current |-> FALSE]
Off == 0

VARIABLES
  cur,     \* the current track
  el,      \* the audio element: where it is, who put it there, has it metadata
  shown,   \* currentTime, and whether duration is known for this source
  playing, \* isPlaying
  resume,  \* resumeSeconds
  answer,  \* what the server has answered to the look-up under way
  refs,    \* pendingSeek, skipResumeFor, resumeResolvedFor, metadataReadyId
  saved,   \* the stored position of each book
  reset,   \* "mark as not started" under way: the book, and was it current then
  sleep    \* the end of the chapter the sleep timer is set to, or Off

lVars == <<cur, el, shown, playing, resume, answer, refs, saved, reset, sleep>>

Causes == {"load", "play", "resume", "jump", "reset"}

ListeningTypeOK ==
  /\ cur \in Tracks \union {NoTrack}
  /\ el \in [at : Positions \union {Nothing}, by : Causes, loaded : BOOLEAN]
  /\ shown \in [at : Positions \union {Nothing}, known : BOOLEAN]
  /\ playing \in BOOLEAN
  /\ resume \in Positions \union {Unknown, Nothing}
  /\ answer \in Positions \union {Unknown, Nothing}
  /\ refs \in [seek : Positions \union {Nothing}, skip : Tracks \union {NoTrack},
               resolved : Tracks \union {NoTrack}, ready : Tracks \union {NoTrack}]
  /\ saved \in [Books -> Positions \union {Nothing}]
  /\ reset \in [book : Resets, current : BOOLEAN] \union {NoReset}
  /\ sleep \in 0..End

Init ==
  /\ cur = NoTrack
  /\ el = [at |-> Nothing, by |-> "load", loaded |-> FALSE]
  /\ shown = [at |-> Nothing, known |-> FALSE]
  /\ playing = FALSE
  /\ resume = Nothing
  /\ answer = Nothing
  /\ refs = [seek |-> Nothing, skip |-> NoTrack, resolved |-> NoTrack, ready |-> NoTrack]
  /\ saved = [b \in Books |-> Nothing]
  /\ reset = NoReset
  /\ sleep = Off

(* saveProgress: for books only, and a save may be lost.                    *)
Save(t) ==
  saved' \in {saved} \union
    (IF t \in Books /\ shown.at # Nothing THEN {[saved EXCEPT ![t] = shown.at]} ELSE {})

(* The effect that decides, once per load, whether track t resumes: when    *)
(* its metadata and its look-up are in, unless a jump was asked for.        *)
Decide(t, r, value, known, e) ==
  LET decides == r.resolved # t /\ r.ready = t /\ value # Unknown
      resumes == /\ decides /\ r.skip # t
                 /\ value # Nothing /\ known
                 /\ value.pos \in 1..(End - 1)
  IN /\ refs' = IF decides THEN [r EXCEPT !.resolved = t] ELSE r
     /\ el' = IF resumes THEN [e EXCEPT !.at = value, !.by = "resume"] ELSE e

-----------------------------------------------------------------------------
(* Another source                                                           *)

(* Deviation: the time and the duration of the track before stay.           *)
ChangeWithoutReset(t, r) ==
  /\ Save(cur)
  /\ cur' = t
  /\ Decide(t, r, resume, shown.known, [at |-> At(0, t), by |-> "load", loaded |-> FALSE])
  /\ shown' = shown
  /\ resume' = Unknown /\ answer' = Unknown
  /\ playing' = TRUE
  /\ UNCHANGED <<reset, sleep>>

(* The track changes and starts. The effects of this render still see the   *)
(* look-up of the track before.                                             *)
Change(t, r) ==
  /\ Save(cur)
  /\ cur' = t
  /\ Decide(t, r, resume, shown.known, [at |-> At(0, t), by |-> "load", loaded |-> FALSE])
  /\ shown' = [at |-> At(0, t), known |-> FALSE]
  /\ resume' = Unknown /\ answer' = Unknown
  /\ playing' = TRUE
  /\ UNCHANGED <<reset, sleep>>

Load(t) == t # cur /\ Change(t, refs)

(* playTrackAt: a jump into the current track, or into one to be loaded.    *)
PlayTrackAt(t, p) ==
  IF t = cur
  THEN /\ el' = [el EXCEPT !.at = At(p, t), !.by = "jump"]
       /\ playing' = TRUE
       /\ UNCHANGED <<cur, shown, resume, answer, refs, saved, reset, sleep>>
  ELSE Change(t, [refs EXCEPT !.seek = At(p, t), !.skip = t])

(* The current entry's title arrives: the track object is another, so the   *)
(* effects that depend on it run again.                                     *)
Retitled ==
  /\ cur # NoTrack
  /\ Save(cur)
  /\ Decide(cur, refs, resume, shown.known, el)
  /\ UNCHANGED <<cur, shown, playing, resume, answer, reset, sleep>>

Close ==
  /\ cur # NoTrack
  /\ Save(cur)
  /\ cur' = NoTrack
  /\ el' = [at |-> Nothing, by |-> "load", loaded |-> FALSE]
  /\ shown' = [at |-> Nothing, known |-> FALSE]
  /\ playing' = FALSE
  /\ resume' = Nothing /\ answer' = Nothing
  /\ sleep' = Off
  /\ UNCHANGED <<refs, reset>>

-----------------------------------------------------------------------------
(* What the element and the server report                                   *)

Looked ==
  /\ answer = Unknown
  /\ answer' = IF cur \in Books THEN saved[cur] ELSE Nothing
  /\ UNCHANGED <<cur, el, shown, playing, resume, refs, saved, reset, sleep>>

(* The look-up's answer arrives, or the look-up failed. An answer to a      *)
(* look-up for a track that was left is dropped.                            *)
LookedUp ==
  /\ cur # NoTrack /\ resume = Unknown
  /\ \E value \in {Nothing} \union (IF answer = Unknown THEN {} ELSE {answer}) :
       /\ resume' = value
       /\ Decide(cur, refs, value, shown.known, el)
  /\ answer' = Nothing
  /\ UNCHANGED <<cur, shown, playing, saved, reset, sleep>>

(* onLoadedMetadata: the length is known, a jump that waited is made.       *)
Loaded ==
  /\ cur # NoTrack /\ ~el.loaded
  /\ shown' = [shown EXCEPT !.known = TRUE]
  /\ LET e == IF refs.seek = Nothing THEN [el EXCEPT !.loaded = TRUE]
              ELSE [at |-> refs.seek, by |-> "jump", loaded |-> TRUE]
     IN Decide(cur, [refs EXCEPT !.seek = Nothing, !.ready = cur], resume, TRUE, e)
  /\ UNCHANGED <<cur, playing, resume, answer, saved, reset, sleep>>

(* Playback goes on; the element says where it is. A chapter timer whose    *)
(* end is passed pauses, which saves.                                       *)
Plays ==
  /\ playing /\ el.loaded /\ el.at.pos < End
  /\ el' = [el EXCEPT !.at = At(el.at.pos + 1, cur), !.by = "play"]
  /\ UNCHANGED <<cur, shown, playing, resume, answer, refs, saved, reset, sleep>>

TimeUpdate ==
  /\ el.loaded
  /\ shown' = [shown EXCEPT !.at = At(el.at.pos, cur)]
  /\ IF sleep \in 1..el.at.pos
       THEN /\ sleep' = Off /\ playing' = FALSE
            /\ saved' \in {saved} \union
                 IF playing /\ cur \in Books THEN {[saved EXCEPT ![cur] = At(el.at.pos, cur)]} ELSE {}
       ELSE UNCHANGED <<sleep, playing, saved>>
  /\ UNCHANGED <<cur, el, resume, answer, refs, reset>>

-----------------------------------------------------------------------------
(* The listener                                                             *)

(* The seek bar, 15 seconds back or forward, a chapter back or forward.     *)
Seek(p) ==
  /\ el.loaded
  /\ el' = [el EXCEPT !.at = At(p, cur), !.by = "jump"]
  /\ UNCHANGED <<cur, shown, playing, resume, answer, refs, saved, reset, sleep>>

(* The button, the space bar, a sleep timer on the clock, the end of the   *)
(* queue.                                                                   *)
Pause ==
  /\ playing /\ playing' = FALSE
  /\ Save(cur)
  /\ UNCHANGED <<cur, el, shown, resume, answer, refs, reset, sleep>>

Unpause ==
  /\ cur # NoTrack /\ ~playing /\ playing' = TRUE
  /\ UNCHANGED <<cur, el, shown, resume, answer, refs, saved, reset, sleep>>

(* The save every 15 seconds.                                               *)
SaveTick ==
  /\ playing
  /\ Save(cur)
  /\ UNCHANGED <<cur, el, shown, playing, resume, answer, refs, reset, sleep>>

(* startSleepTimerEndOfChapter, cancelSleepTimer. A timer on the clock       *)
(* fires as Pause.                                                          *)
SetSleep(s) ==
  /\ cur # NoTrack
  /\ s # Off => shown.at.pos = s - 1
  /\ sleep' = s
  /\ UNCHANGED <<cur, el, shown, playing, resume, answer, refs, saved, reset>>

(* resetProgress: the request, and what is done when it returns for the     *)
(* track that was current when it was sent.                                 *)
ResetStart(b) ==
  /\ reset = NoReset
  /\ reset' = [book |-> b, current |-> cur = b]
  /\ saved' \in {saved, [saved EXCEPT ![b] = Nothing]}
  /\ UNCHANGED <<cur, el, shown, playing, resume, answer, refs, sleep>>

ResetEnd ==
  /\ reset # NoReset /\ reset' = NoReset
  /\ IF reset.current /\ cur # NoTrack
       THEN /\ resume' = Nothing
            /\ Decide(cur, [refs EXCEPT !.skip = reset.book], Nothing, shown.known,
                      [el EXCEPT !.at = At(0, reset.book), !.by = "reset"])
       ELSE UNCHANGED <<resume, refs, el>>
  /\ UNCHANGED <<cur, shown, playing, answer, saved, sleep>>

-----------------------------------------------------------------------------

(* The chapter buttons and the list of chapters of a detail page, and its   *)
(* 15 seconds, which start a track that is not loaded from the top.         *)
Chapters(t) == \E p \in 0..(End - 1) : PlayTrackAt(t, p)

AudioPage == \E t \in Tracks : Load(t) \/ Chapters(t)
BookPage == (\E b \in Books : Load(b) \/ Chapters(b)) \/ (\E b \in Resets : ResetStart(b)) \/ ResetEnd
Source == AudioPage \/ Retitled \/ Close

Reports == Looked \/ LookedUp \/ Loaded \/ Plays \/ TimeUpdate

SleepTimer == \E s \in 0..End : SetSleep(s)
Hotkeys == (\E p \in 0..End : Seek(p)) \/ Pause \/ Unpause
Controls == Hotkeys \/ SleepTimer \/ BookPage \/ SaveTick

Next == Source \/ Reports \/ Controls

Spec == Init /\ [][Next]_lVars

-----------------------------------------------------------------------------
(* Properties                                                               *)

(* However fast tracks follow each other, and whatever is still being looked*)
(* up, no book's stored position was ever measured on another track.        *)
SavesItself == \A b \in Books : saved[b] = Nothing \/ saved[b].of = b

(* Why it holds: the time that is shown is one of the current track.        *)
ShowsItself == shown.at = Nothing \/ shown.at.of = cur
=============================================================================
