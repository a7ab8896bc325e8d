----------------------------- MODULE PlayQueue ------------------------------
(***************************************************************************)
(* The queue of the app-wide audio player (AudioPlayerProvider): a list of  *)
(* track references and the index of the one that plays, edited from every  *)
(* screen while it plays, and the look-ups that give an entry queued by its *)
(* id alone a title and an artwork. An index of 0 stands for the code's -1. *)
(***************************************************************************)
EXTENDS Integers, Sequences, SequencesExt

CONSTANTS
  Tracks,    \* the ids of audio files and audiobooks
  Lists,     \* the lists of references that some screen plays as a whole
  MaxQueue   \* bound: no longer queue is looked at

VARIABLES
  queue,     \* the track references
  index,     \* the position of the one that plays
  asked,     \* playRequested: the next source is to start playing
  playing,   \* the audio element plays
  repeatOne,
  hydrating, \* the ids with a look-up under way
  did        \* history: the kind of operation that came last

qVars == <<queue, index, asked, playing, repeatOne, hydrating, did>>

Entries == [id : Tracks, rich : BOOLEAN]   \* rich: titled, or looked up already

QueueTypeOK ==
  /\ queue \in Seq(Entries) /\ Len(queue) <= MaxQueue
  /\ index \in 0..MaxQueue
  /\ asked \in BOOLEAN /\ playing \in BOOLEAN
  /\ repeatOne \in BOOLEAN
  /\ hydrating \subseteq Tracks
  /\ did \in {"none", "load", "skip", "insert", "move", "drop"}

Lesser(a, b) == IF a < b THEN a ELSE b

Poor(q) == {q[i].id : i \in {j \in DOMAIN q : ~q[j].rich}}

Current(q, i) == IF i = 0 THEN {} ELSE {q[i].id}

(* A render with queue q and index i after operation op, and its effects:   *)
(* an index past the end is pulled back, ids that have no title are looked  *)
(* up, and a new source starts playing if that was asked for, by this       *)
(* operation or by one before it that did not change the source.            *)
Rendered(op, q, i, ask) ==
  LET at == Lesser(i, Len(q))
      new == Current(q, at) \notin {Current(queue, index), {}}
  IN /\ did' = op
     /\ queue' = q
     /\ index' = at
     /\ hydrating' = hydrating \union Poor(q)
     /\ asked' = (ask /\ ~new)
     /\ playing' = (q # <<>> /\ IF new THEN ask ELSE playing)
     /\ UNCHANGED repeatOne

Init ==
  /\ queue = <<>>
  /\ index = 0
  /\ asked = FALSE
  /\ playing = FALSE
  /\ repeatOne = FALSE
  /\ hydrating = {}
  /\ did = "none"

-----------------------------------------------------------------------------
(* Playing                                                                  *)

(* playQueue; playTrackAt goes through it for a track that is not loaded.   *)
PlayQueue(list, start) ==
  /\ list # <<>>
  /\ Rendered("load", list, Lesser(start, Len(list)), TRUE)

(* Deviation: an empty queue is no case of its own.                         *)
EnqueueAnywhere(t, at) ==
  Len(queue) < MaxQueue /\ Rendered("insert", InsertAt(queue, at, t), index, asked)

(* playNext and addToQueue: into an empty queue, the track starts at once.  *)
Enqueue(t, at) ==
  /\ Len(queue) < MaxQueue
  /\ IF queue = <<>>
       THEN Rendered("load", <<t>>, 1, TRUE)
       ELSE Rendered("insert", InsertAt(queue, at, t), index, asked)

PlayNext(t) == Enqueue(t, index + 1)
AddToQueue(t) == Enqueue(t, Len(queue) + 1)

(* next: past the last entry playback stops.                                *)
NextTrack ==
  \/ index \in 1..(Len(queue) - 1) /\ Rendered("skip", queue, index + 1, TRUE)
  \/ /\ index # 0 /\ index = Len(queue)
     /\ asked' = FALSE /\ playing' = FALSE /\ did' = "skip"
     /\ UNCHANGED <<queue, index, repeatOne, hydrating>>

(* prev, within the first seconds of the track; later it only rewinds.      *)
Prev == index > 1 /\ Rendered("skip", queue, index - 1, TRUE)

JumpTo(i) == i \in DOMAIN queue /\ Rendered("skip", queue, i, TRUE)

(* onEnded: with repeat-one on, the element rewinds and nothing else moves. *)
Ended == playing /\ ~repeatOne /\ NextTrack

(* The bar is there while there is a current track.                         *)
ToggleRepeat == /\ index # 0
                /\ repeatOne' = ~repeatOne
                /\ UNCHANGED <<queue, index, asked, playing, hydrating, did>>

(* togglePlay; a sleep timer that fires pauses too.                         *)
TogglePlay == /\ index # 0
              /\ playing' = ~playing
              /\ UNCHANGED <<queue, index, asked, repeatOne, hydrating, did>>

-----------------------------------------------------------------------------
(* Editing                                                                  *)

(* Deviations: the index is left alone by a removal in front of it, by an   *)
(* entry that moves across it.                                              *)
AfterRemovalFixed(i) == IF Len(queue) = 1 THEN 0 ELSE Lesser(index, Len(queue) - 1)
AfterMoveFixed(from, to) == IF index = from THEN to ELSE index

AfterRemoval(i) ==
  IF Len(queue) = 1 THEN 0
  ELSE IF i < index THEN index - 1
  ELSE Lesser(index, Len(queue) - 1)

(* Deviation: the track that takes the slot of a removed one is not asked   *)
(* to play.                                                                 *)
RemoveTrackSilently(i) ==
  /\ i \in DOMAIN queue
  /\ Rendered("drop", RemoveAt(queue, i), AfterRemoval(i), asked)

RemoveTrack(i) ==
  /\ i \in DOMAIN queue
  /\ Rendered("drop", RemoveAt(queue, i), AfterRemoval(i), asked \/ i = index)

AfterMove(from, to) ==
  CASE index = from -> to
    [] from < index /\ to >= index -> index - 1
    [] from > index /\ to <= index -> index + 1
    [] OTHER -> index

MoveTrack(from, to) ==
  /\ {from, to} \subseteq DOMAIN queue /\ from # to
  /\ Rendered("move", InsertAt(RemoveAt(queue, from), to, queue[from]), AfterMove(from, to), asked)

Clear == Rendered("load", <<>>, 0, asked)

(* A look-up returns: with its title, or without one for good.              *)
Hydrated(id) ==
  /\ id \in hydrating
  /\ hydrating' = hydrating \ {id}
  /\ queue' = [i \in DOMAIN queue |-> IF queue[i].id = id THEN [queue[i] EXCEPT !.rich = TRUE]
                                                          ELSE queue[i]]
  /\ UNCHANGED <<index, asked, playing, repeatOne, did>>

-----------------------------------------------------------------------------

(* The button of a track on a card or a page: it plays that track alone, or  *)
(* pauses it, and queues it unless it is queued.                            *)
Controller ==
  \E t \in Entries :
    \/ IF t.id \in Current(queue, index) THEN TogglePlay ELSE PlayQueue(<<t>>, 1)
    \/ (\A i \in DOMAIN queue : queue[i].id # t.id) /\ PlayNext(t)

(* A row of the expanded queue.                                             *)
Row(i) == JumpTo(i) \/ RemoveTrack(i) \/ \E j \in 1..MaxQueue : MoveTrack(i, j)

Play ==
  \/ \E list \in Lists : \E i \in 1..MaxQueue : PlayQueue(list, i)
  \/ NextTrack \/ Prev \/ Ended \/ ToggleRepeat \/ TogglePlay

Edit ==
  \/ \E t \in Entries : PlayNext(t) \/ AddToQueue(t)
  \/ \E i \in 1..MaxQueue : Row(i)
  \/ Clear
  \/ \E id \in Tracks : Hydrated(id)

Next == Controller \/ Play \/ Edit

Spec == Init /\ [][Next]_qVars /\ \A id \in Tracks : WF_qVars(Hydrated(id))

-----------------------------------------------------------------------------
(* Properties                                                               *)

(* Something plays exactly when something is queued, and the index points   *)
(* into the queue, whatever the order of edits.                             *)
IndexPoints == /\ index <= Len(queue)
               /\ (index = 0) = (queue = <<>>)

(* Another track never replaces the current one in silence: whatever makes  *)
(* it current also starts it.                                               *)
StartsTheNewTrack == Current(queue', index') \notin {Current(queue, index), {}} => playing'
NewTrackPlays == [][StartsTheNewTrack]_qVars

(* The queue implements the playlist that cannot lose its place.            *)
ids == [i \in DOMAIN queue |-> queue[i].id]
played == SubSeq(ids, 1, index - 1)
current == IF index = 0 THEN <<>> ELSE <<ids[index]>>
upcoming == SubSeq(ids, index + 1, Len(ids))
L == INSTANCE Playlist WITH behind <- played, now <- current, ahead <- upcoming
KeepsItsPlace == L!Spec
=============================================================================
